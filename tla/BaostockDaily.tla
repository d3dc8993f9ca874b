---------------------------- MODULE BaostockDaily ----------------------------
(***************************************************************************)
(* What the Baostock daily update (src/sources/baostock/) leaves on disk   *)
(* for one stock code: its unadjusted bars, its adjustment factors and the *)
(* bars adjusted with them (qfq and hfq are computed alike; one stands for *)
(* both), and the checkpoints by which a later run passes the code over.   *)
(*                                                                         *)
(* Files are written at once, checkpoints through a batch that is flushed  *)
(* when other codes have filled it and at the end of the run.  The tasks   *)
(* of one code follow one another (module CodeTasks, which UpdatePool      *)
(* implements), so a run is one sequence of steps here.  The provider is   *)
(* outside: it publishes a bar a day, sometimes a dividend, and may revise *)
(* a bar it has published before.                                          *)
(***************************************************************************)
EXTENDS Integers

CONSTANTS
    MaxDay,         \* bound on the trading days
    Lookback,       \* pipeline.lookback_days: trading days before the last one
    Versions,       \* the values a bar may have
    Requests,       \* the runs that may be asked for
    MaxTroubles,    \* bound on what goes out of the ordinary, all together:
                    \* calls that fail, crashes, bars that are revised and
                    \* runs that are asked for an earlier date
    None,           \* no bar, no file
    NoFactors       \* in place of factors: neither fetched nor stored

Days == 1 .. MaxDay
Bars == [Days -> Versions \cup {None}]

\* U: unadjusted bars, Q: adjusted bars, F: adjustment factors.
Datasets == {"U", "Q", "F"}
Modes == {"partial", "full"}
Keys == Datasets \X Modes \X Days

ASSUME ConstantsAssumption ==
    /\ MaxDay \in Nat \ {0} /\ Lookback \in Nat
    /\ MaxTroubles \in Nat
    /\ Requests \subseteq [targets : (SUBSET Datasets) \ {{}}, mode : Modes, force : BOOLEAN]
    /\ Versions # {} /\ None \notin Versions
    /\ None \notin [bars : Bars, by : SUBSET Days]
    /\ \A S \in SUBSET Days : None # S /\ NoFactors \notin {S, None}

VARIABLES
    day,        \* the last trading day
    bars,       \* the provider's bar of each day
    dividends,  \* the days with a row in the provider's adjustment factors
    unadj,      \* the unadjusted partition
    adj,        \* the adjusted partition: the bars and factors it is made of
    fac,        \* the factor partition: the dividends it knows
    ckpt,       \* status of each checkpoint
    batch,      \* rows not yet flushed, the last one of each key
    pc,         \* where the run is
    req, end,   \* what it was asked for
    got,        \* the frame the last fetch returned
    factors,    \* factor state of the code; what the adjusted bars are computed with
    todo,       \* datasets whose frame is still to be written
    alone,      \* whether a write that fails leaves the other datasets alone
    results,    \* status of each dataset in this run
    local,      \* history: the run took stored factors that are behind the provider's
    stale,      \* history: such a run wrote the adjusted bars, and none for the last
                \* day with the provider's factors has written them again
    cut,        \* history: a run for an earlier date has shortened a file
    troubles    \* how many there were

providerVars == <<day, bars, dividends>>
fileVars == <<unadj, adj, fac>>
metaVars == <<ckpt, batch>>
runVars == <<req, end, got, factors, todo, alone, results, local>>
vars == <<providerVars, fileVars, metaVars, pc, runVars, stale, cut, troubles>>

NoBars == [d \in Days |-> None]
NoRows == [k \in Keys |-> "none"]
NoResults == [t \in Datasets |-> "none"]
NoRequest == [targets |-> {}, mode |-> "partial", force |-> FALSE]

Has(b) == {d \in Days : b[d] # None}

\* Mutant: a checkpoint counts for every date.
UndatedKey(t, mode, e) == <<t, IF t = "F" THEN "full" ELSE mode, 1>>

\* The factor checkpoint of a run is keyed by the whole history in every mode.
Key(t, mode, e) == <<t, IF t = "F" THEN "full" ELSE mode, e>>

FileOf(t) == CASE t = "U" -> unadj # NoBars
               [] t = "Q" -> adj # None
               [] t = "F" -> fac # None

\* PipelineCheckpointLookup.pipeline_checkpoint_succeeded
Succeeded(t, mode, e) == ckpt[Key(t, mode, e)] = "success" /\ FileOf(t)

\* _code_checkpoints_complete: adjusted bars need the factors as well.
Complete(r, e) ==
    /\ \A t \in r.targets : Succeeded(t, r.mode, e)
    /\ "Q" \in r.targets => Succeeded("F", r.mode, e)

\* Before the login a run ends if it would pass over all codes; after it, each of them.
Skipped(r, e) == ~r.force /\ Complete(r, e)

\* resolve_update_window
WindowStart == IF end > Lookback THEN end - Lookback ELSE 1
Window == WindowStart .. end

\* What the provider has, up to the end of the run.
Frame(from) == [d \in Days |-> IF d \in from .. end THEN bars[d] ELSE None]

-----------------------------------------------------------------------------
Init ==
    /\ day = 1
    /\ bars = [d \in Days |-> CHOOSE v \in Versions : TRUE]
    /\ dividends = {}
    /\ unadj = NoBars /\ adj = None /\ fac = None
    /\ ckpt = NoRows /\ batch = NoRows
    /\ pc = "idle"
    /\ req = NoRequest /\ end = 0
    /\ got = NoBars /\ factors = None /\ todo = {} /\ alone = FALSE
    /\ results = NoResults /\ local = FALSE
    /\ stale = FALSE /\ cut = FALSE
    /\ troubles = 0

\* Rows go to the batch under the keys of the run; the last one of a key counts.
Note(T, status) ==
    /\ batch' = [k \in Keys |->
                   IF \E t \in T : k = Key(t, req.mode, end) THEN status ELSE batch[k]]
    /\ results' = [t \in Datasets |-> IF t \in T THEN status ELSE results[t]]

Trouble == troubles < MaxTroubles /\ troubles' = troubles + 1

NoLocals ==
    /\ got' = NoBars /\ factors' = None /\ todo' = {} /\ alone' = FALSE

-----------------------------------------------------------------------------
(* The run                                                                 *)

Start(r, e) ==
    /\ pc = "idle"
    /\ ~Skipped(r, e)
    /\ IF e = day THEN UNCHANGED troubles ELSE Trouble
    /\ req' = r /\ end' = e
    /\ pc' = "factor"
    /\ UNCHANGED <<providerVars, fileVars, metaVars, got, factors, todo, alone, results,
                   local, stale, cut>>

BarTargets == req.targets \ {"F"}

\* The factors are asked for, or needed and their checkpoint not current.
FetchesFactor ==
    \/ "F" \in req.targets
    \/ "Q" \in req.targets /\ (req.force \/ ~Succeeded("F", req.mode, end))

AfterFactor == pc' = IF BarTargets = {} THEN "flush" ELSE "daily"

\* use_existing_baostock_cn_stock_adjustment_factor
UseExistingFactor ==
    /\ pc = "factor" /\ ~FetchesFactor
    /\ factors' = IF "Q" \in req.targets THEN fac ELSE None
    /\ AfterFactor
    /\ UNCHANGED <<providerVars, fileVars, metaVars, req, end, got, todo, alone, results,
                   local, stale, cut, troubles>>

\* Some of the dividends old knows are not in new.
Fewer(old, new) == old # None /\ old \ new # {}

FetchedFactors == dividends \cap (1 .. end)

\* Mutant: the state of the code is read before the partition is replaced.
StoreFactorEarly ==
    /\ pc = "factor" /\ FetchesFactor
    /\ fac' = FetchedFactors /\ factors' = fac
    /\ cut' = (cut \/ Fewer(fac, FetchedFactors))
    /\ Note({"F"}, "success")
    /\ AfterFactor
    /\ UNCHANGED <<providerVars, unadj, adj, ckpt, req, end, got, todo, alone, local,
                   stale, troubles>>

\* process_..._factor_success: the partition is replaced.
StoreFactor ==
    /\ pc = "factor" /\ FetchesFactor
    /\ fac' = FetchedFactors /\ factors' = FetchedFactors
    /\ cut' = (cut \/ Fewer(fac, FetchedFactors))
    /\ Note({"F"}, "success")
    /\ AfterFactor
    /\ UNCHANGED <<providerVars, unadj, adj, ckpt, req, end, got, todo, alone, local,
                   stale, troubles>>

\* process_..._factor_failure: the fetch or the write failed, or the flush after
\* it.  The stored factors are taken if there are any.
FactorFails ==
    /\ pc = "factor" /\ FetchesFactor
    /\ Trouble
    /\ Note({"F"}, "failed")
    /\ \E f \in {fac, FetchedFactors} :
        /\ fac' = f
        /\ factors' = IF f \in {None, {}} THEN NoFactors ELSE f
        /\ cut' = (cut \/ Fewer(fac, f))
        /\ local' = (f # FetchedFactors)
    /\ AfterFactor
    /\ UNCHANGED <<providerVars, unadj, adj, ckpt, req, end, got, todo, alone, stale>>

FetchDaily ==
    /\ pc = "daily"
    /\ got' = Frame(IF req.mode = "full" THEN 1 ELSE WindowStart)
    /\ pc' = "compare"
    /\ UNCHANGED <<providerVars, fileVars, metaVars, req, end, factors, todo, alone,
                   results, local, stale, cut, troubles>>

\* The fetch fails; or something before the first write raises.
DailyFails ==
    /\ pc \in {"daily", "compare"}
    /\ Trouble
    /\ Note(BarTargets, "failed")
    /\ pc' = "flush" /\ NoLocals
    /\ UNCHANGED <<providerVars, fileVars, ckpt, req, end, local, stale, cut>>

\* Adjusted bars without factors fail.
Active == IF factors = NoFactors THEN BarTargets \ {"Q"} ELSE BarTargets
NoteInactive == Note(BarTargets \ Active, "failed")

InWindow(b) == {d \in Window : b[d] # None}

\* daily_frames_differ_on_overlap
Differs == \E d \in InWindow(unadj) : unadj[d] # got[d]

\* Mutant: only revised bars count.
AsksIfRevised == req.mode = "partial" /\ Differs

\* _partial_unadjusted_base
AsksAgain == req.mode = "partial" /\ (InWindow(unadj) = {} \/ Differs)

\* Mutant: the bars are those fetched, in every mode.
FreshOnly == got

\* merge_daily_frames: what was fetched replaces what is stored.
Merged == [d \in Days |-> IF got[d] # None THEN got[d] ELSE unadj[d]]

\* process_daily_initial
Compare ==
    /\ pc = "compare"
    /\ NoteInactive
    /\ todo' = Active
    /\ pc' = IF Active = {} THEN "flush" ELSE IF AsksAgain THEN "refetch" ELSE "write"
    /\ alone' = (req.mode = "full")
    /\ got' = IF req.mode = "partial" /\ ~AsksAgain THEN Merged ELSE got
    /\ UNCHANGED <<providerVars, fileVars, ckpt, req, end, factors, local, stale, cut,
                   troubles>>

\* The whole history up to the end of the run, whatever is stored after it.
RefetchAll ==
    /\ pc = "refetch"
    /\ got' = Frame(1) /\ alone' = TRUE
    /\ pc' = "write"
    /\ UNCHANGED <<providerVars, fileVars, metaVars, req, end, factors, todo, results,
                   local, stale, cut, troubles>>

RefetchFails ==
    /\ pc = "refetch"
    /\ Trouble
    /\ Note(todo, "failed")
    /\ pc' = "flush" /\ NoLocals
    /\ UNCHANGED <<providerVars, fileVars, ckpt, req, end, local, stale, cut>>

Shorter(old, new) == Has(old) \ Has(new) # {}

PutUnadjusted ==
    /\ unadj' = got
    /\ cut' = (cut \/ Shorter(unadj, got))
    /\ UNCHANGED <<adj, stale>>

\* Mutant: the rows of every dataset are added with the first one written.
WriteUnadjustedFirst ==
    /\ pc = "write" /\ "U" \in todo
    /\ PutUnadjusted
    /\ Note(todo, "success")
    /\ todo' = todo \ {"U"}
    /\ UNCHANGED <<providerVars, fac, ckpt, pc, req, end, got, factors, alone, local,
                   troubles>>

\* The unadjusted bars come first.
WriteUnadjusted ==
    /\ pc = "write" /\ "U" \in todo
    /\ PutUnadjusted
    /\ Note({"U"}, "success")
    /\ todo' = todo \ {"U"}
    /\ UNCHANGED <<providerVars, fac, ckpt, pc, req, end, got, factors, alone, local,
                   troubles>>

\* calculate_adjusted_daily_bar over the same bars; no factors leave them as
\* they are.
PutAdjusted ==
    /\ adj' = [bars |-> got, by |-> IF factors = None THEN {} ELSE factors]
    /\ cut' = (cut \/ (adj # None /\ Shorter(adj.bars, got)))
    /\ stale' = (local \/ (stale /\ end < day))
    /\ UNCHANGED unadj

WriteAdjusted ==
    /\ pc = "write" /\ todo = {"Q"}
    /\ PutAdjusted
    /\ Note({"Q"}, "success")
    /\ todo' = {}
    /\ UNCHANGED <<providerVars, fac, ckpt, pc, req, end, got, factors, alone, local,
                   troubles>>

Written ==
    /\ pc = "write" /\ todo = {}
    /\ pc' = "flush" /\ NoLocals
    /\ UNCHANGED <<providerVars, fileVars, metaVars, req, end, results, local, stale,
                   cut, troubles>>

\* The write fails, or the flush after it.  Of a partial run every dataset
\* fails, those written before included.
WriteFails ==
    /\ pc = "write" /\ todo # {}
    /\ Trouble
    /\ \/ UNCHANGED <<unadj, adj, stale, cut>>
       \/ "U" \in todo /\ PutUnadjusted
       \/ todo = {"Q"} /\ PutAdjusted
    /\ LET t == IF "U" \in todo THEN "U" ELSE "Q"
       IN  IF alone
           THEN Note({t}, "failed") /\ todo' = todo \ {t}
           ELSE Note(BarTargets, "failed") /\ todo' = {}
    /\ UNCHANGED <<providerVars, fac, ckpt, pc, req, end, got, factors, alone, local>>

-----------------------------------------------------------------------------
(* Checkpoints                                                             *)

Flushed == [k \in Keys |-> IF batch[k] # "none" THEN batch[k] ELSE ckpt[k]]

\* PipelineMetadataBatch.add: the rows of other codes have filled the batch.
\* After the last row of this code it makes no difference from Return.
Flush ==
    /\ pc \notin {"idle", "flush"} /\ batch # NoRows
    /\ ckpt' = Flushed /\ batch' = NoRows
    /\ UNCHANGED <<providerVars, fileVars, pc, runVars, stale, cut, troubles>>

RunOver ==
    /\ pc' = "idle"
    /\ req' = NoRequest /\ end' = 0
    /\ results' = NoResults /\ local' = FALSE
    /\ NoLocals

\* flush_metadata, and the run returns.
Return ==
    /\ pc = "flush"
    /\ ckpt' = Flushed /\ batch' = NoRows
    /\ RunOver
    /\ UNCHANGED <<providerVars, fileVars, stale, cut, troubles>>

\* The run dies, or its last flush fails: the batch is gone.
Crash ==
    /\ pc # "idle"
    /\ Trouble
    /\ batch' = NoRows
    /\ RunOver
    /\ UNCHANGED <<providerVars, fileVars, ckpt, stale, cut>>

-----------------------------------------------------------------------------
(* The provider                                                            *)

\* A run reads and writes nothing after its own date: a day that begins while it
\* is under way begins after it.
NewDay ==
    /\ pc = "idle" /\ day < MaxDay
    /\ day' = day + 1
    /\ dividends' \in {dividends, dividends \cup {day + 1}}
    /\ UNCHANGED <<bars, fileVars, metaVars, pc, runVars, stale, cut, troubles>>

Revise(d) ==
    /\ Trouble
    /\ \E v \in Versions \ {bars[d]} : bars' = [bars EXCEPT ![d] = v]
    /\ UNCHANGED <<day, dividends, fileVars, metaVars, pc, runVars, stale, cut>>

-----------------------------------------------------------------------------
Advance ==
    \/ UseExistingFactor \/ StoreFactor
    \/ FetchDaily \/ Compare \/ RefetchAll
    \/ WriteUnadjusted \/ WriteAdjusted \/ Written
    \/ Return

Fails == FactorFails \/ DailyFails \/ RefetchFails \/ WriteFails \/ Crash

Next ==
    \/ \E r \in Requests, e \in 1 .. day : Start(r, e)
    \/ Advance \/ Flush \/ Fails
    \/ NewDay
    \/ \E d \in 1 .. day : Revise(d)

Spec == Init /\ [][Next]_vars

\* A run that has started goes on, days pass, and every request is made again
\* for the last day as long as it is not passed over.
Fairness ==
    /\ WF_vars(Advance) /\ WF_vars(NewDay)
    /\ \A r \in Requests : SF_vars(Start(r, day))

FairSpec == Spec /\ Fairness

-----------------------------------------------------------------------------
(* Properties                                                              *)

\* A history never has a hole: whatever the lookback window, the runs left out
\* and the bars revised, a file has every day up to its last one.
Whole(b) == \A d \in Days : b[d] # None => \A e \in 1 .. d : b[e] # None

NoGaps == Whole(unadj) /\ (adj # None => Whole(adj.bars))

\* A run never removes a day it covers: only a run for an earlier date can make
\* a file shorter.
KeepsItsDays ==
    [][\A d \in 1 .. end :
        /\ unadj[d] # None => unadj'[d] # None
        /\ adj # None /\ adj.bars[d] # None => adj'.bars[d] # None]_vars

\* A run that reports success for both leaves adjusted bars that are the stored
\* unadjusted bars under the stored factors (ARCHITECTURE.md:14).
SuccessAgrees ==
    pc = "flush" /\ results["U"] = "success" /\ results["Q"] = "success" =>
        adj = [bars |-> unadj, by |-> fac]

\* What a code passed over must have: its bars up to the date of the run and,
\* under adjusted bars, every dividend up to then.
Stored(r, e) ==
    /\ "U" \in r.targets => unadj[e] # None
    /\ "Q" \in r.targets => adj # None /\ adj.bars[e] # None

Adjusted(r, e) ==
    "Q" \in r.targets => adj # None /\ dividends \cap (1 .. e) \subseteq adj.by

\* The checkpoints a run goes by are never ahead of the files, whatever failed
\* or died, unless a run for an earlier date has cut a file short; nor of the
\* factors the adjusted bars were computed with, unless a fetch of the factors
\* had failed then and left them behind.
SkippedIsDone ==
    \A r \in Requests, e \in 1 .. day :
        pc = "idle" /\ Skipped(r, e) /\ ~cut =>
            Stored(r, e) /\ (stale \/ Adjusted(r, e))

\* The same without the last exception: README.md:163 says that adjusted bars
\* are computed after the factors of the day have been updated.
SkippedIsAdjusted ==
    \A r \in Requests, e \in 1 .. day :
        pc = "idle" /\ Skipped(r, e) /\ ~cut => Adjusted(r, e)

\* Once the provider is quiet and nothing fails, the runs of the last day end
\* with its bars stored and adjusted, and are passed over.
UpToDate == cut \/ stale \/ \A r \in Requests : Stored(r, day) /\ Adjusted(r, day)

EventuallyDone == <>[]UpToDate

=============================================================================
