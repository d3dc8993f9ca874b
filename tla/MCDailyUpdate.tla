---------------------------- MODULE MCDailyUpdate ----------------------------
(***************************************************************************)
(* run-update-daily from the outside in, each part on an instance of its   *)
(* own: the lock it is taken under (three processes, of which p1 and p2    *)
(* share a host), the workflow it runs (the whole of                       *)
(* config/daily_workflow.yaml), and the dispatcher of its Baostock step:   *)
(* three codes, two threads and room for four tasks of the six and more,   *)
(* so that the pool fills up while codes are under way and refetches come  *)
(* between.                                                                *)
(* That one orchestrator runs at a time is all DailyRun needs to know of   *)
(* the lock, and an exit code all it needs of a step, so a behaviour is    *)
(* about one part, and the others stand still.                             *)
(***************************************************************************)
EXTENDS MCProcessLock, MCDailyRun, UpdatePool

CONSTANTS c1, c2, c3

ThreeCodes == <<c1, c2, c3>>
EveryTarget == {"factor", "unadjusted", "adjusted"}

VARIABLE part       \* the part this behaviour is about

allVars == <<part, lockVars, vars, dispatcherVars>>

UpdateInit ==
    /\ part \in {"lock", "workflow", "pool"}
    /\ LockInit /\ Init /\ PoolInit
    /\ part # "workflow" => opt = Plain
    /\ part # "pool" => targets = "factor"

\* The processes at the lock may all end, and a run of the dispatcher ends.
AllEnded ==
    /\ \/ part = "lock" /\ \A p \in Procs : place[p] \in LockEnded
       \/ part = "pool" /\ Over
    /\ UNCHANGED allVars

UpdateNext ==
    \/ part = "lock" /\ LockNext /\ UNCHANGED <<part, vars, dispatcherVars>>
    \/ part = "workflow" /\ Next /\ UNCHANGED <<part, lockVars, dispatcherVars>>
    \/ part = "pool" /\ PoolNext /\ UNCHANGED <<part, lockVars, vars>>
    \/ AllEnded

\* LockFairness, Fairness and PoolFairness, each where its part is what the behaviour is
\* about.
UpdateFairness ==
    /\ \A p \in Procs : WF_lockVars(part = "lock" /\ (Acquiring(p) \/ RemoveStaleFails(p)))
    /\ SF_lockVars(part = "lock" /\ \E p \in Procs : RemoveStale(p))
    /\ WF_vars(part = "workflow" /\ Run)
    /\ WF_vars(part = "workflow" /\ \E c \in Codes : ChildEnds(c))
    /\ WF_dispatcherVars(part = "pool" /\ Main)
    /\ WF_dispatcherVars(part = "pool" /\ Take)
    /\ \A t \in Tasks : WF_dispatcherVars(part = "pool" /\ Work(t))

UpdateSpec == UpdateInit /\ [][UpdateNext]_allVars /\ UpdateFairness

\* EventuallyClean of the behaviours that are about the workflow: after the last fault
\* run_update_daily comes to exit with 0.
WorkflowEventuallyClean == <>[](part = "workflow" => Clean)

\* RunEnds of the behaviours that are about the pool: the loop of update_daily.py over the
\* codes ends, and so does every task of its pool.
PoolRunEnds == <>[](part = "pool" => Over)

=============================================================================
