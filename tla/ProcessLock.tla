----------------------------- MODULE ProcessLock -----------------------------
(***************************************************************************)
(* The cross-process directory lock of src/utils/process_lock.py, taken by *)
(* run-update-daily (24 h) and by build-derived (12 h).                    *)
(*                                                                         *)
(* A process takes the lock by creating a directory; the directory holds   *)
(* owner.json.  A process that finds the directory reads owner.json and    *)
(* either gives up or removes the directory and tries again.  Each action  *)
(* below is one file-system call, because other processes run in between.  *)
(***************************************************************************)
EXTENDS Naturals

CONSTANTS
    Procs,       \* the processes that may take the lock, named by their pid
    HostOf,      \* the host each process runs on
    StaleAfter,  \* stale_after_seconds
    MaxClock,    \* bound on the clock
    NoDir,       \* there is no lock directory
    NoOwner      \* owner.json is missing, truncated or not JSON

ASSUME LockAssumption ==
    /\ StaleAfter \in Nat
    /\ MaxClock \in Nat
    /\ NoOwner \notin Procs
    /\ NoDir \notin [by : Procs, owner : Procs \cup {NoOwner}]

VARIABLES
    place,    \* where each process is in acquire_process_lock
    dir,      \* the directory at the lock path: who created it (a ghost) and
              \* whom its owner.json names
    started,  \* started_at of each process's owner record
    alive,    \* what is_pid_alive answers for each pid
    clock,    \* datetime.now()
    robbed    \* ghost: processes whose directory another process removed
              \* after their mkdir and before their own rmtree

lockVars == <<place, dir, started, alive, clock, robbed>>

Working == {"try", "inspect", "remove", "made", "held", "unlink", "rmdir"}
LockEnded == {"refused", "out", "dead"}

LockTypeOK ==
    /\ place \in [Procs -> Working \cup LockEnded \cup {"idle"}]
    /\ dir \in [by : Procs, owner : Procs \cup {NoOwner}] \cup {NoDir}
    /\ started \in [Procs -> Nat]
    /\ alive \in [Procs -> BOOLEAN]
    /\ clock \in Nat
    /\ robbed \subseteq Procs

LockInit ==
    /\ place = [p \in Procs |-> "idle"]
    /\ dir = NoDir
    /\ started = [p \in Procs |-> 0]
    /\ alive = [p \in Procs |-> TRUE]
    /\ clock = 0
    /\ robbed = {}

\* Process p goes to l; a process that ends gives its pid back.
Goto(p, l) ==
    /\ place' = [place EXCEPT ![p] = l]
    /\ alive' = [alive EXCEPT ![p] = l \notin LockEnded]

\* Between mkdir and the end of its own rmtree a process counts on the
\* directory at the lock path being its own.
Relying(p) == place[p] \in {"made", "held", "unlink"}

\* The directory at the lock path disappears by an act of process p.
RemoveDir(p) ==
    /\ dir' = NoDir
    /\ robbed' = IF dir # NoDir /\ dir.by # p /\ Relying(dir.by)
                   THEN robbed \cup {dir.by}
                   ELSE robbed

-----------------------------------------------------------------------------
(* acquire_process_lock up to the yield                                    *)

\* Mutant: started_at is written in one time zone and read in another.
StartInOtherZone(p) ==
    /\ place[p] = "idle"
    /\ Goto(p, "try")
    /\ started' = [started EXCEPT ![p] = clock - 1]
    /\ UNCHANGED <<dir, clock, robbed>>

\* _owner(): the record with pid, hostname and started_at is built first.
Start(p) ==
    /\ place[p] = "idle"
    /\ Goto(p, "try")
    /\ started' = [started EXCEPT ![p] = clock]
    /\ UNCHANGED <<dir, clock, robbed>>

\* Mutant: mkdir with exist_ok=True.
MkDirExistOk(p) ==
    /\ place[p] = "try"
    /\ dir' = IF dir = NoDir THEN [by |-> p, owner |-> NoOwner] ELSE dir
    /\ Goto(p, "made")
    /\ UNCHANGED <<started, clock, robbed>>

MkDir(p) ==
    /\ place[p] = "try"
    /\ IF dir = NoDir
         THEN /\ dir' = [by |-> p, owner |-> NoOwner]
              /\ Goto(p, "made")
         ELSE /\ Goto(p, "inspect")
              /\ UNCHANGED dir
    /\ UNCHANGED <<started, clock, robbed>>

\* _inspect_existing_lock, for process p: a directory without a readable owner
\* is stale; then age decides, then the host, then the pid.
LooksStale(p) ==
    \/ dir = NoDir
    \/ dir.owner = NoOwner
    \/ clock > started[dir.owner] + StaleAfter
    \/ /\ HostOf[dir.owner] = HostOf[p]
       /\ ~alive[dir.owner]

Inspect(p) ==
    /\ place[p] = "inspect"
    /\ Goto(p, IF LooksStale(p) THEN "remove" ELSE "refused")
    /\ UNCHANGED <<dir, started, clock, robbed>>

\* Mutant: the directory is left where it is.
RemoveStaleNothing(p) ==
    /\ place[p] = "remove"
    /\ Goto(p, "try")
    /\ UNCHANGED <<dir, started, clock, robbed>>

\* _remove_stale_lock: the path is renamed away, whatever directory is there
\* by now, and the renamed directory is deleted out of everyone's sight.
RemoveStale(p) ==
    /\ place[p] = "remove"
    /\ RemoveDir(p)
    /\ Goto(p, "try")
    /\ UNCHANGED <<started, clock>>

\* The rename fails with an OSError (the directory is open elsewhere): rmtree
\* with ignore_errors may then delete owner.json only, or nothing.
RemoveStaleFails(p) ==
    /\ place[p] = "remove"
    /\ dir # NoDir
    /\ \E o \in {dir.owner, NoOwner} : dir' = [dir EXCEPT !.owner = o]
    /\ Goto(p, "try")
    /\ UNCHANGED <<started, clock, robbed>>

\* _write_owner: the path is resolved anew, so the record goes to whatever
\* directory is there; without one the write raises and the finally clause runs.
WriteOwner(p) ==
    /\ place[p] = "made"
    /\ IF dir = NoDir
         THEN /\ Goto(p, "unlink")
              /\ UNCHANGED dir
         ELSE /\ dir' = [dir EXCEPT !.owner = p]
              /\ Goto(p, "held")
    /\ UNCHANGED <<started, clock, robbed>>

(* The finally clause: rmtree deletes owner.json, then the directory.      *)

LeaveBody(p) ==
    /\ place[p] = "held"
    /\ Goto(p, "unlink")
    /\ UNCHANGED <<dir, started, clock, robbed>>

\* Mutant: rmdir in place of rmtree.
UnlinkNothing(p) ==
    /\ place[p] = "unlink"
    /\ Goto(p, "rmdir")
    /\ UNCHANGED <<dir, started, clock, robbed>>

\* From here on p no longer counts on the directory.
UnlinkOwner(p) ==
    /\ place[p] = "unlink"
    /\ dir' = IF dir = NoDir THEN NoDir ELSE [dir EXCEPT !.owner = NoOwner]
    /\ Goto(p, "rmdir")
    /\ UNCHANGED <<started, clock, robbed>>

\* rmdir succeeds on an empty directory only, and its errors are ignored.
RmDir(p) ==
    /\ place[p] = "rmdir"
    /\ IF dir # NoDir /\ dir.owner = NoOwner
         THEN RemoveDir(p)
         ELSE UNCHANGED <<dir, robbed>>
    /\ Goto(p, "out")
    /\ UNCHANGED <<started, clock>>

-----------------------------------------------------------------------------
(* The environment                                                         *)

LockCrash(p) ==
    /\ place[p] \in Working
    /\ Goto(p, "dead")
    /\ UNCHANGED <<dir, started, clock, robbed>>

\* The system gives the pid of a dead process to an unrelated program.  (Only
\* a process that died with the lock leaves its pid behind in owner.json.)
PidReused(p) ==
    /\ place[p] = "dead"
    /\ ~alive[p]
    /\ alive' = [alive EXCEPT ![p] = TRUE]
    /\ UNCHANGED <<place, dir, started, clock, robbed>>

LockTick ==
    /\ clock < MaxClock
    /\ clock' = clock + 1
    /\ UNCHANGED <<place, dir, started, alive, robbed>>

-----------------------------------------------------------------------------
Acquiring(p) ==
    \/ MkDir(p) \/ Inspect(p) \/ RemoveStale(p) \/ WriteOwner(p)

Releasing(p) == LeaveBody(p) \/ UnlinkOwner(p) \/ RmDir(p)

LockStep(p) == Acquiring(p) \/ Releasing(p) \/ RemoveStaleFails(p)

LockNext ==
    \/ \E p \in Procs : Start(p) \/ LockStep(p) \/ LockCrash(p) \/ PidReused(p)
    \/ LockTick

LockSpec == LockInit /\ [][LockNext]_lockVars

\* A process that runs is scheduled, and a removal that can be retried for
\* ever does not fail for ever.
LockFairness ==
    /\ \A p \in Procs : WF_lockVars(Acquiring(p) \/ RemoveStaleFails(p))
    /\ SF_lockVars(\E p \in Procs : RemoveStale(p))

LockFairSpec == LockSpec /\ LockFairness

\* Launches that do not overlap: a process is started only when every other
\* one holds the lock or has ended, and none outlives StaleAfter.
Settled(q) == place[q] \in LockEnded \cup {"idle", "held"}

StartAlone(p) == (\A q \in Procs \ {p} : Settled(q)) /\ Start(p)

TickInTime ==
    /\ \A q \in Procs : place[q] \in Working => clock < started[q] + StaleAfter
    /\ LockTick

StaggeredNext ==
    \/ \E p \in Procs : StartAlone(p) \/ LockStep(p) \/ LockCrash(p) \/ PidReused(p)
    \/ TickInTime

StaggeredSpec == LockInit /\ [][StaggeredNext]_lockVars

-----------------------------------------------------------------------------
(* Properties                                                              *)

\* At most one process is in the body of the with statement at a time: what
\* RunDailyUpdateLockError (run_update_daily.py:41) and the module's "when it
\* is safe to do so" promise.
MutualExclusion ==
    \A p, q \in Procs : place[p] = "held" /\ place[q] = "held" => p = q

\* mkdir is the only arbiter: whenever two processes count on the directory at
\* once, one of them has had it removed by another process (a stale verdict on
\* an ownerless or re-created directory, an expired owner, or another's rmtree).
ExclusionUnlessRobbed ==
    \A p, q \in Procs :
        Relying(p) /\ Relying(q) /\ p # q => p \in robbed \/ q \in robbed

\* The finally clause leaves nothing behind: once every process is out, refused
\* or not yet started, and none was killed, there is no lock directory, however
\* the processes removed, re-created and overwrote it while they ran.
NoLeftover ==
    (\A p \in Procs : place[p] \in {"idle", "out", "refused"}) => dir = NoDir

\* The loop of acquire_process_lock ends, for every process and for good: with the
\* lock, with ProcessLockError, with an error of the write, or with the process.
Acquired(p) == place[p] \notin {"try", "inspect", "remove", "made"}

AcquireEnds == <>[](\A p \in Procs : Acquired(p))

=============================================================================
