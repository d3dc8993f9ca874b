-------------------------- MODULE ProcessLockProofs --------------------------
(***************************************************************************)
(* Proofs about ProcessLock, for every set of processes, hosts and age     *)
(* limit.                                                                  *)
(***************************************************************************)
EXTENDS ProcessLock, TLAPS

\* The type invariant of the lock's state, whatever the processes do.
LEMMA TypeStep == LockTypeOK /\ [LockNext]_lockVars => LockTypeOK'
<1> SUFFICES ASSUME LockTypeOK, [LockNext]_lockVars PROVE LockTypeOK'
    OBVIOUS
<1> USE LockAssumption DEF LockTypeOK, Working, LockEnded
<1>1. CASE UNCHANGED lockVars
    BY <1>1 DEF lockVars
<1>2. ASSUME NEW p \in Procs, Start(p) PROVE LockTypeOK'
    BY <1>2 DEF Start, Goto
<1>3. ASSUME NEW p \in Procs, MkDir(p) PROVE LockTypeOK'
    <2>1. dir' \in [by : Procs, owner : Procs \cup {NoOwner}] \cup {NoDir}
        BY <1>3 DEF MkDir
    <2>2. place' \in [Procs -> Working \cup LockEnded \cup {"idle"}]
        BY <1>3 DEF MkDir, Goto
    <2>3. alive' \in [Procs -> BOOLEAN]
        BY <1>3 DEF MkDir, Goto
    <2>4. QED
        BY <1>3, <2>1, <2>2, <2>3 DEF MkDir
<1>4. ASSUME NEW p \in Procs, Inspect(p) PROVE LockTypeOK'
    BY <1>4 DEF Inspect, Goto
<1>5. ASSUME NEW p \in Procs, RemoveStale(p) PROVE LockTypeOK'
    BY <1>5 DEF RemoveStale, RemoveDir, Relying, Goto
<1>6. ASSUME NEW p \in Procs, RemoveStaleFails(p) PROVE LockTypeOK'
    BY <1>6 DEF RemoveStaleFails, Goto
<1>7. ASSUME NEW p \in Procs, WriteOwner(p) PROVE LockTypeOK'
    BY <1>7 DEF WriteOwner, Goto
<1>8. ASSUME NEW p \in Procs, LeaveBody(p) PROVE LockTypeOK'
    BY <1>8 DEF LeaveBody, Goto
<1>9. ASSUME NEW p \in Procs, UnlinkOwner(p) PROVE LockTypeOK'
    BY <1>9 DEF UnlinkOwner, Goto
<1>10. ASSUME NEW p \in Procs, RmDir(p) PROVE LockTypeOK'
    BY <1>10 DEF RmDir, RemoveDir, Relying, Goto
<1>11. ASSUME NEW p \in Procs, LockCrash(p) PROVE LockTypeOK'
    BY <1>11 DEF LockCrash, Goto
<1>12. ASSUME NEW p \in Procs, PidReused(p) PROVE LockTypeOK'
    BY <1>12 DEF PidReused
<1>13. CASE LockTick
    BY <1>13 DEF LockTick
<1>14. QED
    BY <1>1, <1>2, <1>3, <1>4, <1>5, <1>6, <1>7, <1>8, <1>9, <1>10, <1>11,
       <1>12, <1>13
    DEF LockNext, LockStep, Acquiring, Releasing

\* Every reachable state of acquire_process_lock has its type.
THEOREM TypeCorrect == LockSpec => []LockTypeOK
<1>1. LockInit => LockTypeOK
    BY LockAssumption DEF LockInit, LockTypeOK, Working, LockEnded
<1>2. QED
    BY <1>1, TypeStep, PTL DEF LockSpec

-----------------------------------------------------------------------------
(* Exclusion: mkdir makes its caller the creator of the directory at the   *)
(* lock path, and only another process's removal can end that.             *)

Creator == \A p \in Procs : Relying(p) /\ p \notin robbed => dir # NoDir /\ dir.by = p

LEMMA CreatorStep == LockTypeOK /\ Creator /\ [LockNext]_lockVars => Creator'
<1> SUFFICES ASSUME LockTypeOK, Creator, [LockNext]_lockVars,
                    NEW q \in Procs, Relying(q)', q \notin robbed'
             PROVE  dir' # NoDir /\ dir'.by = q
    BY DEF Creator
<1> USE LockAssumption DEF LockTypeOK, Working, LockEnded, Relying, Creator
<1>1. CASE UNCHANGED lockVars
    BY <1>1 DEF lockVars
<1>2. ASSUME NEW p \in Procs, Start(p) PROVE dir' # NoDir /\ dir'.by = q
    BY <1>2 DEF Start, Goto
<1>3. ASSUME NEW p \in Procs, MkDir(p) PROVE dir' # NoDir /\ dir'.by = q
    <2>1. CASE dir = NoDir
        BY <1>3, <2>1 DEF MkDir, Goto
    <2>2. CASE dir # NoDir
        BY <1>3, <2>2 DEF MkDir, Goto
    <2>3. QED
        BY <2>1, <2>2
<1>4. ASSUME NEW p \in Procs, Inspect(p) PROVE dir' # NoDir /\ dir'.by = q
    BY <1>4 DEF Inspect, Goto
<1>5. ASSUME NEW p \in Procs, RemoveStale(p) PROVE dir' # NoDir /\ dir'.by = q
    BY <1>5 DEF RemoveStale, RemoveDir, Goto
<1>6. ASSUME NEW p \in Procs, RemoveStaleFails(p) PROVE dir' # NoDir /\ dir'.by = q
    BY <1>6 DEF RemoveStaleFails, Goto
<1>7. ASSUME NEW p \in Procs, WriteOwner(p) PROVE dir' # NoDir /\ dir'.by = q
    BY <1>7 DEF WriteOwner, Goto
<1>8. ASSUME NEW p \in Procs, LeaveBody(p) PROVE dir' # NoDir /\ dir'.by = q
    BY <1>8 DEF LeaveBody, Goto
<1>9. ASSUME NEW p \in Procs, UnlinkOwner(p) PROVE dir' # NoDir /\ dir'.by = q
    BY <1>9 DEF UnlinkOwner, Goto
<1>10. ASSUME NEW p \in Procs, RmDir(p) PROVE dir' # NoDir /\ dir'.by = q
    BY <1>10 DEF RmDir, RemoveDir, Goto
<1>11. ASSUME NEW p \in Procs, LockCrash(p) PROVE dir' # NoDir /\ dir'.by = q
    BY <1>11 DEF LockCrash, Goto
<1>12. ASSUME NEW p \in Procs, PidReused(p) PROVE dir' # NoDir /\ dir'.by = q
    BY <1>12 DEF PidReused
<1>13. CASE LockTick
    BY <1>13 DEF LockTick
<1>14. QED
    BY <1>1, <1>2, <1>3, <1>4, <1>5, <1>6, <1>7, <1>8, <1>9, <1>10, <1>11,
       <1>12, <1>13
    DEF LockNext, LockStep, Acquiring, Releasing

\* Two processes count on the directory at once only when another process has
\* removed the directory of one of them.
THEOREM Exclusion == LockSpec => []ExclusionUnlessRobbed
<1>1. LockInit => Creator
    BY DEF LockInit, Creator, Relying
<1>2. Creator => ExclusionUnlessRobbed
    BY DEF Creator, ExclusionUnlessRobbed
<1>3. QED
    BY <1>1, <1>2, CreatorStep, TypeCorrect, PTL DEF LockSpec

-----------------------------------------------------------------------------
(* Nothing is left behind: a directory has a process that will still       *)
(* remove it, or one that was killed.                                      *)

Remover(p) == place[p] \in {"made", "held", "unlink", "rmdir", "dead"}

OwnerAround ==
    dir # NoDir /\ dir.owner # NoOwner =>
        place[dir.owner] \in {"held", "unlink", "dead"}

RemoverAround == dir # NoDir => \E p \in Procs : Remover(p)

LEMMA LeftoverStep ==
    LockTypeOK /\ OwnerAround /\ RemoverAround /\ [LockNext]_lockVars
        => OwnerAround' /\ RemoverAround'
<1> SUFFICES ASSUME LockTypeOK, OwnerAround, RemoverAround, [LockNext]_lockVars
             PROVE  OwnerAround' /\ RemoverAround'
    OBVIOUS
<1> USE LockAssumption DEF LockTypeOK, Working, LockEnded, Remover, OwnerAround,
        RemoverAround
<1>1. CASE UNCHANGED lockVars
    BY <1>1 DEF lockVars
<1>2. ASSUME NEW p \in Procs, Start(p) PROVE OwnerAround' /\ RemoverAround'
    BY <1>2 DEF Start, Goto
<1>3. ASSUME NEW p \in Procs, MkDir(p) PROVE OwnerAround' /\ RemoverAround'
    BY <1>3 DEF MkDir, Goto
<1>4. ASSUME NEW p \in Procs, Inspect(p) PROVE OwnerAround' /\ RemoverAround'
    BY <1>4 DEF Inspect, Goto
<1>5. ASSUME NEW p \in Procs, RemoveStale(p) PROVE OwnerAround' /\ RemoverAround'
    BY <1>5 DEF RemoveStale, Goto, RemoveDir, Relying
<1>6. ASSUME NEW p \in Procs, RemoveStaleFails(p) PROVE OwnerAround' /\ RemoverAround'
    BY <1>6 DEF RemoveStaleFails, Goto
<1>7. ASSUME NEW p \in Procs, WriteOwner(p) PROVE OwnerAround' /\ RemoverAround'
    BY <1>7 DEF WriteOwner, Goto
<1>8. ASSUME NEW p \in Procs, LeaveBody(p) PROVE OwnerAround' /\ RemoverAround'
    BY <1>8 DEF LeaveBody, Goto
<1>9. ASSUME NEW p \in Procs, UnlinkOwner(p) PROVE OwnerAround' /\ RemoverAround'
    BY <1>9 DEF UnlinkOwner, Goto
<1>10. ASSUME NEW p \in Procs, RmDir(p) PROVE OwnerAround' /\ RemoverAround'
    BY <1>10 DEF RmDir, Goto, RemoveDir, Relying
<1>11. ASSUME NEW p \in Procs, LockCrash(p) PROVE OwnerAround' /\ RemoverAround'
    BY <1>11 DEF LockCrash, Goto
<1>12. ASSUME NEW p \in Procs, PidReused(p) PROVE OwnerAround' /\ RemoverAround'
    BY <1>12 DEF PidReused, Goto
<1>13. CASE LockTick
    BY <1>13 DEF LockTick
<1>14. QED
    BY <1>1, <1>2, <1>3, <1>4, <1>5, <1>6, <1>7, <1>8, <1>9, <1>10, <1>11, <1>12, <1>13
    DEF LockNext, LockStep, Acquiring, Releasing

\* Once every process has ended its own way, the lock path is free.
THEOREM Cleanup == LockSpec => []NoLeftover
<1>1. LockInit => OwnerAround /\ RemoverAround
    BY DEF LockInit, OwnerAround, RemoverAround
<1>2. RemoverAround => NoLeftover
    BY DEF RemoverAround, Remover, NoLeftover
<1>3. QED
    BY <1>1, <1>2, LeftoverStep, TypeCorrect, PTL DEF LockSpec

-----------------------------------------------------------------------------
(* Mutual exclusion of launches that do not overlap.  At most one process  *)
(* is acquiring; a process in its body is named by owner.json, alive and   *)
(* in time, so that the one acquiring never finds it stale.                *)

Acq(p) == place[p] \in {"try", "inspect", "remove", "made"}

InTime ==
    \A p \in Procs : place[p] \in Working => alive[p] /\ clock <= started[p] + StaleAfter

OneAcquires == \A p, q \in Procs : Acq(p) /\ Acq(q) => p = q

HolderNamed == \A q \in Procs : place[q] = "held" => dir # NoDir /\ dir.owner = q

LeaverNamed ==
    \A q \in Procs : place[q] = "unlink" =>
        \A p \in Procs : /\ place[p] # "held"
                         /\ Acq(p) => dir # NoDir /\ dir.owner = q

FreeWhenTaken ==
    \A p \in Procs : place[p] \in {"remove", "made"} =>
        \A q \in Procs : place[q] \notin {"held", "unlink"}

Staggered == InTime /\ OneAcquires /\ HolderNamed /\ LeaverNamed /\ FreeWhenTaken

LEMMA StaggeredStep == LockTypeOK /\ Staggered /\ [StaggeredNext]_lockVars => Staggered'
<1> SUFFICES ASSUME LockTypeOK, Staggered, [StaggeredNext]_lockVars
             PROVE  Staggered'
    OBVIOUS
<1> USE LockAssumption DEF LockTypeOK, Working, LockEnded, Staggered, Acq, InTime,
        OneAcquires, HolderNamed, LeaverNamed, FreeWhenTaken
<1>1. CASE UNCHANGED lockVars
    BY <1>1 DEF lockVars
<1>2. ASSUME NEW p \in Procs, StartAlone(p) PROVE Staggered'
    <2>1. /\ place' = [place EXCEPT ![p] = "try"]
          /\ alive' = [alive EXCEPT ![p] = TRUE]
          /\ started' = [started EXCEPT ![p] = clock]
          /\ dir' = dir /\ clock' = clock
        BY <1>2 DEF StartAlone, Start, Goto
    <2>2. \A q \in Procs \ {p} : place[q] \in LockEnded \cup {"idle", "held"}
        BY <1>2 DEF StartAlone, Settled
    <2>3. InTime'
        BY <2>1
    <2>4. OneAcquires'
        BY <2>1, <2>2
    <2>5. LeaverNamed'
        BY <2>1, <2>2
    <2>6. HolderNamed' /\ FreeWhenTaken'
        BY <2>1, <2>2
    <2>7. QED
        BY <2>3, <2>4, <2>5, <2>6
<1>3. ASSUME NEW p \in Procs, MkDir(p) PROVE Staggered'
    BY <1>3 DEF MkDir, Goto
<1>4. ASSUME NEW p \in Procs, Inspect(p) PROVE Staggered'
    BY <1>4 DEF Inspect, Goto, LooksStale
<1>5. ASSUME NEW p \in Procs, RemoveStale(p) PROVE Staggered'
    BY <1>5 DEF RemoveStale, Goto, RemoveDir, Relying
<1>6. ASSUME NEW p \in Procs, RemoveStaleFails(p) PROVE Staggered'
    BY <1>6 DEF RemoveStaleFails, Goto
<1>7. ASSUME NEW p \in Procs, WriteOwner(p) PROVE Staggered'
    BY <1>7 DEF WriteOwner, Goto
<1>8. ASSUME NEW p \in Procs, LeaveBody(p) PROVE Staggered'
    BY <1>8 DEF LeaveBody, Goto
<1>9. ASSUME NEW p \in Procs, UnlinkOwner(p) PROVE Staggered'
    BY <1>9 DEF UnlinkOwner, Goto
<1>10. ASSUME NEW p \in Procs, RmDir(p) PROVE Staggered'
    BY <1>10 DEF RmDir, Goto, RemoveDir, Relying
<1>11. ASSUME NEW p \in Procs, LockCrash(p) PROVE Staggered'
    BY <1>11 DEF LockCrash, Goto
<1>12. ASSUME NEW p \in Procs, PidReused(p) PROVE Staggered'
    BY <1>12 DEF PidReused, Goto
<1>13. CASE TickInTime
    BY <1>13 DEF TickInTime, LockTick
<1>14. QED
    BY <1>1, <1>2, <1>3, <1>4, <1>5, <1>6, <1>7, <1>8, <1>9, <1>10, <1>11, <1>12, <1>13
    DEF StaggeredNext, LockStep, Acquiring, Releasing

LEMMA StaggeredIsSpec == StaggeredSpec => LockSpec
<1>1. [StaggeredNext]_lockVars => [LockNext]_lockVars
    BY DEF StaggeredNext, LockNext, StartAlone, TickInTime
<1>2. QED
    BY <1>1, PTL DEF StaggeredSpec, LockSpec

\* When launches do not overlap and no body outlives stale_after_seconds, at
\* most one process is in the body, whatever crashes and pids are reused.
THEOREM StaggeredExclusion == StaggeredSpec => []MutualExclusion
<1>1. LockInit => Staggered
    BY DEF LockInit, Staggered, Acq, InTime, OneAcquires, HolderNamed, LeaverNamed,
           FreeWhenTaken, Working
<1>2. Staggered => MutualExclusion
    BY DEF Staggered, HolderNamed, MutualExclusion
<1>3. QED
    BY <1>1, <1>2, StaggeredStep, StaggeredIsSpec, TypeCorrect, PTL
    DEF StaggeredSpec

=============================================================================
