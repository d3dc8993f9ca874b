------------------------- MODULE BaostockDailyProofs -------------------------
(***************************************************************************)
(* Proofs about BaostockDaily, for every number of days, lookback window,  *)
(* set of requests and number of troubles: what the files and the          *)
(* checkpoints of a code say holds however many runs fail, die or are      *)
(* asked for an earlier date.                                              *)
(***************************************************************************)
EXTENDS BaostockDaily, TLAPS

Statuses == {"none", "success", "failed"}
Rows == [Keys -> Statuses]
Pages == [bars : Bars, by : SUBSET Days]

Asked == [targets : SUBSET Datasets, mode : Modes, force : BOOLEAN]

TypeOK ==
    /\ day \in Days /\ bars \in [Days -> Versions] /\ dividends \subseteq Days
    /\ unadj \in Bars
    /\ adj = None \/ adj \in Pages
    /\ fac = None \/ fac \subseteq Days
    /\ ckpt \in Rows /\ batch \in Rows
    /\ pc \in {"idle", "factor", "daily", "compare", "refetch", "write", "flush"}
    /\ req \in Asked
    /\ end \in 0 .. day /\ (pc # "idle" => end # 0)
    /\ got \in Bars
    /\ factors \in {None, NoFactors} \/ factors \subseteq Days
    /\ todo \subseteq {"U", "Q"} /\ results \in [Datasets -> Statuses]
    /\ alone \in BOOLEAN /\ local \in BOOLEAN /\ stale \in BOOLEAN /\ cut \in BOOLEAN
    /\ troubles \in Nat

-----------------------------------------------------------------------------
(* The invariant                                                           *)

\* A frame that may replace a file: no hole in it, and every day of the run.
Covers(b) == Whole(b) /\ \A d \in 1 .. end : b[d] # None

\* What a run has in hand.  Before it writes, it has reported no success; while it writes,
\* its frame covers its days, whichever way it got it; and what it has reported is what is
\* on disk.
FirstDay == IF req.mode = "full" THEN 1 ELSE WindowStart

Unreported == results["U"] # "success" /\ results["Q"] # "success"

Frames ==
    /\ pc \in {"idle", "factor", "daily", "compare", "refetch"} => Unreported
    /\ pc = "compare" => Has(got) = FirstDay .. end
    /\ pc = "write" => Covers(got)

Reported ==
    pc = "write" =>
        /\ results["U"] = "success" => "U" \notin todo /\ unadj = got
        /\ results["Q"] = "success" => todo = {} /\ adj = [bars |-> got, by |-> fac]

\* The factors in hand are those on disk, and all there are unless a fetch has failed.
Priced ==
    /\ pc \in {"idle", "factor"} => ~ local
    /\ pc \in {"daily", "compare", "refetch", "write"} /\ "Q" \in req.targets =>
        \/ factors = NoFactors
        \/ /\ factors = fac /\ fac # None
           /\ cut \/ local \/ FetchedFactors \subseteq fac
    /\ pc \in {"refetch", "write"} => todo \subseteq Active

\* The factors on disk are those of the adjusted bars, and others.
Based == adj # None => fac # None /\ (cut \/ adj.by \subseteq fac)

\* What a row of the checkpoints that says "success" says of the files.
Claim(k) ==
    /\ k[3] <= day
    /\ k[1] = "U" => unadj[k[3]] # None
    /\ k[1] = "Q" => /\ adj # None /\ adj.bars[k[3]] # None
                     /\ stale \/ dividends \cap (1 .. k[3]) \subseteq adj.by
    /\ k[1] = "F" => fac # None /\ dividends \cap (1 .. k[3]) \subseteq fac

Honest ==
    ~ cut => \A k \in Keys : "success" \in {ckpt[k], batch[k]} => Claim(k)

DailyInv ==
    /\ TypeOK /\ NoGaps /\ Frames /\ Reported /\ SuccessAgrees
    /\ Priced /\ Based /\ Honest

-----------------------------------------------------------------------------
(* Rows and frames                                                         *)

LEMMA DatasetNames ==
    ASSUME TypeOK
    PROVE  /\ req.targets \subseteq Datasets /\ req.mode \in Modes
           /\ BarTargets \subseteq {"U", "Q"} /\ Active \subseteq BarTargets
           /\ pc # "idle" => end \in 1 .. day /\ end \in Days
<1>1. req.targets \subseteq Datasets /\ req.mode \in Modes
    BY DEF TypeOK, Asked
<1>2. BarTargets \subseteq {"U", "Q"} /\ Active \subseteq BarTargets
    BY <1>1 DEF BarTargets, Active, Datasets
<1>3. pc # "idle" => end \in 1 .. day /\ end \in Days
    BY ConstantsAssumption DEF TypeOK, Days
<1>4. QED
    BY <1>1, <1>2, <1>3

LEMMA KeyTypes ==
    ASSUME NEW t \in Datasets, NEW mode \in Modes, NEW e \in Days
    PROVE  /\ Key(t, mode, e) \in Keys
           /\ Key(t, mode, e)[1] = t /\ Key(t, mode, e)[3] = e
BY DEF Key, Keys, Modes

\* What a run begins with.
LEMMA Blank ==
    /\ NoBars \in Bars /\ NoRows \in Rows /\ NoRequest \in Asked
    /\ NoResults \in [Datasets -> Statuses]
    /\ \A k \in Keys : NoRows[k] = "none"
    /\ \A t \in Datasets : NoResults[t] = "none"
<1>1. NoBars \in Bars /\ NoRows \in Rows /\ NoResults \in [Datasets -> Statuses]
    BY DEF NoBars, Bars, NoRows, Rows, NoResults, Statuses
<1>2. NoRequest \in Asked
    BY DEF NoRequest, Asked, Modes
<1>3. QED
    BY <1>1, <1>2 DEF NoRows, NoResults

\* The rows of a run: one for each dataset it speaks of.
LEMMA Noted ==
    ASSUME TypeOK, NEW T \in SUBSET Datasets, NEW status \in Statuses, Note(T, status)
    PROVE  /\ batch' \in Rows /\ results' \in [Datasets -> Statuses]
           /\ \A t \in Datasets : results'[t] = IF t \in T THEN status ELSE results[t]
           /\ \A k \in Keys : batch'[k] = "success" =>
                \/ batch[k] = "success"
                \/ status = "success" /\ \E t \in T : k = Key(t, req.mode, end)
BY DEF Note, TypeOK, Rows, Statuses

LEMMA NotedOne ==
    ASSUME TypeOK, NEW t \in Datasets, NEW status \in Statuses, Note({t}, status)
    PROVE  /\ batch' \in Rows /\ results' \in [Datasets -> Statuses]
           /\ results'[t] = status
           /\ \A u \in Datasets : u # t => results'[u] = results[u]
           /\ \A k \in Keys : batch'[k] = "success" =>
                batch[k] = "success" \/ (status = "success" /\ k = Key(t, req.mode, end))
<1>1. batch' \in Rows /\ results' \in [Datasets -> Statuses]
    BY DEF Note, TypeOK, Rows, Statuses
<1>2. results'[t] = status /\ \A u \in Datasets : u # t => results'[u] = results[u]
    BY DEF Note
<1>3. ASSUME NEW k \in Keys, batch'[k] = "success"
      PROVE  batch[k] = "success" \/ (status = "success" /\ k = Key(t, req.mode, end))
    <2>1. batch'[k] = IF k = Key(t, req.mode, end) THEN status ELSE batch[k]
        BY DEF Note
    <2>2. QED
        BY <1>3, <2>1
<1>4. QED
    BY <1>1, <1>2, <1>3

LEMMA FrameTypes ==
    ASSUME TypeOK, end \in Days
    PROVE  /\ \A from \in Int : Frame(from) \in Bars
           /\ \A from \in Int : 1 <= from => Has(Frame(from)) = from .. end
           /\ NoBars \in Bars /\ Merged \in Bars
           /\ WindowStart \in 1 .. end /\ Window \subseteq Days
<1>1. end \in 1 .. MaxDay /\ MaxDay \in Nat /\ Lookback \in Nat
    BY ConstantsAssumption DEF Days
<1>2. WindowStart \in 1 .. end /\ Window \subseteq Days
    BY <1>1 DEF WindowStart, Window, Days
<1>3. ASSUME NEW from \in Int
      PROVE  /\ Frame(from) \in Bars
             /\ 1 <= from => Has(Frame(from)) = from .. end
    <2>1. \A d \in Days : bars[d] \in Versions /\ bars[d] # None
        BY ConstantsAssumption DEF TypeOK
    <2>2. Frame(from) \in Bars
        BY <2>1 DEF Frame, Bars
    <2>3. \A d \in Days : Frame(from)[d] # None <=> d \in from .. end
        BY <2>1 DEF Frame
    <2>4. 1 <= from => \A d \in from .. end : d \in Days
        BY <1>1 DEF Days
    <2>5. QED
        BY <2>2, <2>3, <2>4 DEF Has
<1>4. NoBars \in Bars /\ Merged \in Bars
    BY DEF NoBars, Merged, Bars, TypeOK
<1>5. QED
    BY <1>2, <1>3, <1>4

\* A frame from the first day on covers the run.
LEMMA FromTheStart ==
    ASSUME TypeOK, end \in Days, NEW b \in Bars, Has(b) = 1 .. end
    PROVE  Covers(b)
<1>1. end \in 1 .. MaxDay /\ MaxDay \in Nat
    BY ConstantsAssumption DEF Days
<1>2. \A d \in Days : b[d] # None <=> d \in 1 .. end
    BY DEF Has
<1>3. QED
    BY <1>1, <1>2 DEF Covers, Whole, Days

\* So does the stored history with the window merged in, when they overlap.
LEMMA MergedCovers ==
    ASSUME TypeOK, end \in Days, Whole(unadj), Has(got) = WindowStart .. end,
           InWindow(unadj) # {}
    PROVE  Covers(Merged)
<1>1. /\ end \in 1 .. MaxDay /\ MaxDay \in Nat
      /\ WindowStart \in 1 .. end /\ Window \subseteq Days
    BY FrameTypes, ConstantsAssumption DEF Days
<1>2. \A d \in Days : got[d] # None <=> d \in WindowStart .. end
    BY DEF Has
<1>3. PICK w \in Window : unadj[w] # None
    BY DEF InWindow
<1>4. \A d \in 1 .. w : unadj[d] # None
    BY <1>1, <1>3 DEF Whole
<1>5. w \in WindowStart .. end
    BY DEF Window
<1>6. \A d \in 1 .. end : d \in Days /\ (d \in WindowStart .. end \/ d \in 1 .. w)
    BY <1>1, <1>5 DEF Days
<1>7. \A d \in 1 .. end : Merged[d] # None
    BY <1>2, <1>4, <1>6 DEF Merged
<1>8. Whole(Merged)
    <2> SUFFICES ASSUME NEW d \in Days, Merged[d] # None, NEW e \in 1 .. d
                 PROVE  Merged[e] # None
        BY DEF Whole
    <2>1. d \in Nat /\ e \in Nat /\ e \in Days
        BY ConstantsAssumption DEF Days
    <2>2. CASE e <= end
        BY <1>7, <2>1, <2>2
    <2>3. CASE ~ (e <= end)
        <3>1. d \notin WindowStart .. end /\ e \notin WindowStart .. end
            BY <1>1, <2>1, <2>3
        <3>2. unadj[d] # None
            BY <1>2, <3>1 DEF Merged
        <3>3. unadj[e] # None
            BY <3>2 DEF Whole
        <3>4. QED
            BY <1>2, <2>1, <3>1, <3>3 DEF Merged
    <2>4. QED
        BY <2>2, <2>3
<1>9. QED
    BY <1>7, <1>8 DEF Covers

\* Without a new row that says "success", or another file, the claims stand.
LEMMA FilesKept ==
    ASSUME DailyInv, UNCHANGED <<day, dividends, fileVars, stale, cut>>,
           \A k \in Keys : "success" \in {ckpt'[k], batch'[k]} => "success" \in {ckpt[k], batch[k]}
    PROVE  NoGaps' /\ Based' /\ Honest'
<1>1. UNCHANGED <<unadj, adj, fac>>
    BY DEF fileVars
<1>2. \A k \in Keys : Claim(k)' = Claim(k)
    BY <1>1 DEF Claim
<1>3. NoGaps' /\ Based'
    BY <1>1 DEF DailyInv, NoGaps, Whole, Based
<1>4. QED
    BY <1>2, <1>3 DEF DailyInv, Honest

-----------------------------------------------------------------------------
(* Steps that write no file                                                *)

LEMMA DailyInitially == Init => DailyInv
<1> SUFFICES ASSUME Init PROVE DailyInv
    OBVIOUS
<1>1. (CHOOSE v \in Versions : TRUE) \in Versions
    BY ConstantsAssumption
<1>2. 1 \in Days /\ \A k \in Keys : NoRows[k] = "none"
    BY ConstantsAssumption DEF Days, NoRows
<1>3. TypeOK
    <2>1. bars \in [Days -> Versions]
        BY <1>1 DEF Init
    <2>2. 0 \in 0 .. day /\ 0 \in Nat
        BY <1>2 DEF Init
    <2>3. QED
        BY <1>2, <2>1, <2>2, Blank DEF Init, TypeOK
<1>4. NoGaps /\ Frames /\ Reported /\ SuccessAgrees /\ Priced /\ Based
    BY DEF Init, NoGaps, Whole, NoBars, Frames, Unreported, NoResults, Datasets, Reported,
           SuccessAgrees, Priced, Based
<1>5. Honest
    BY <1>2 DEF Init, Honest
<1>6. QED
    BY <1>3, <1>4, <1>5 DEF DailyInv

LEMMA StartStep ==
    ASSUME DailyInv, NEW r \in Requests, NEW e \in 1 .. day, Start(r, e)
    PROVE  DailyInv'
<1> USE DEF DailyInv
<1>1. /\ pc = "idle" /\ pc' = "factor" /\ req' = r /\ end' = e
      /\ troubles' = troubles \/ troubles' = troubles + 1
      /\ UNCHANGED <<day, bars, dividends, unadj, adj, fac, ckpt, batch, got, factors, todo,
                     alone, results, local, stale, cut>>
    BY DEF Start, Trouble, providerVars, fileVars, metaVars
<1>2. TypeOK'
    <2>1. r \in Asked
        BY ConstantsAssumption DEF Asked
    <2>2. e \in 0 .. day /\ e # 0
        BY ConstantsAssumption DEF TypeOK, Days
    <2>3. troubles' \in Nat
        BY <1>1 DEF TypeOK
    <2>4. QED
        BY <1>1, <2>1, <2>2, <2>3 DEF TypeOK
<1>3. NoGaps' /\ Based' /\ Honest'
    BY <1>1, FilesKept DEF fileVars
<1>4. Frames' /\ Reported' /\ SuccessAgrees' /\ Priced'
    BY <1>1 DEF Frames, Unreported, Reported, SuccessAgrees, Priced
<1>5. QED
    BY <1>2, <1>3, <1>4

LEMMA UseExistingFactorStep == DailyInv /\ UseExistingFactor => DailyInv'
<1> SUFFICES ASSUME DailyInv, UseExistingFactor PROVE DailyInv'
    OBVIOUS
<1> USE DEF DailyInv
<1>1. /\ pc = "factor" /\ pc' \in {"flush", "daily"} /\ ~ FetchesFactor
      /\ factors' = IF "Q" \in req.targets THEN fac ELSE None
      /\ UNCHANGED <<day, bars, dividends, unadj, adj, fac, ckpt, batch, req, end, got, todo,
                     alone, results, local, stale, cut, troubles>>
    BY DEF UseExistingFactor, AfterFactor, providerVars, fileVars, metaVars
<1>2. TypeOK'
    BY <1>1 DEF TypeOK
<1>3. NoGaps' /\ Based' /\ Honest'
    BY <1>1, FilesKept DEF fileVars
<1>4. Frames' /\ Reported' /\ SuccessAgrees'
    BY <1>1 DEF Frames, Unreported, Reported, SuccessAgrees
<1>5. Priced'
    <2>1. ASSUME "Q" \in req.targets
          PROVE  fac # None /\ (cut \/ FetchedFactors \subseteq fac)
        <3>1. ckpt[Key("F", req.mode, end)] = "success" /\ fac # None
            BY <1>1, <2>1 DEF FetchesFactor, Succeeded, FileOf
        <3>2. LET k == Key("F", req.mode, end) IN k \in Keys /\ k[1] = "F" /\ k[3] = end
            BY <1>1, DatasetNames, KeyTypes DEF Datasets
        <3>3. cut \/ Claim(Key("F", req.mode, end))
            BY <3>1, <3>2 DEF Honest
        <3>4. QED
            BY <3>1, <3>2, <3>3 DEF Claim, FetchedFactors
    <2>2. FetchedFactors' = FetchedFactors
        BY <1>1 DEF FetchedFactors
    <2>3. QED
        BY <1>1, <2>1, <2>2 DEF Priced
<1>6. QED
    BY <1>2, <1>3, <1>4, <1>5

LEMMA FetchDailyStep == DailyInv /\ FetchDaily => DailyInv'
<1> SUFFICES ASSUME DailyInv, FetchDaily PROVE DailyInv'
    OBVIOUS
<1> USE DEF DailyInv
<1>1. /\ pc = "daily" /\ pc' = "compare" /\ got' = Frame(FirstDay)
      /\ UNCHANGED <<day, bars, dividends, unadj, adj, fac, ckpt, batch, req, end, factors,
                     todo, alone, results, local, stale, cut, troubles>>
    BY DEF FetchDaily, FirstDay, providerVars, fileVars, metaVars
<1>2. end \in Days
    BY <1>1, DatasetNames
<1>3. FirstDay \in Int /\ 1 <= FirstDay /\ FirstDay' = FirstDay
    <2>1. WindowStart \in 1 .. end /\ WindowStart' = WindowStart
        BY <1>1, <1>2, FrameTypes DEF WindowStart
    <2>2. QED
        BY <1>1, <1>2, <2>1 DEF FirstDay, Days
<1>4. got' \in Bars /\ Has(got') = FirstDay .. end
    BY <1>1, <1>2, <1>3, FrameTypes
<1>5. TypeOK'
    BY <1>1, <1>4 DEF TypeOK
<1>6. NoGaps' /\ Based' /\ Honest'
    BY <1>1, FilesKept DEF fileVars
<1>7. Frames'
    BY <1>1, <1>3, <1>4 DEF Frames, Unreported, Has
<1>8. Reported' /\ SuccessAgrees' /\ Priced'
    BY <1>1 DEF Reported, SuccessAgrees, Priced, FetchedFactors
<1>9. QED
    BY <1>5, <1>6, <1>7, <1>8

\* Where a run gives up on the bars.
LEMMA GivesUp ==
    ASSUME DailyInv, pc \in {"daily", "compare", "refetch"}, NEW T \in SUBSET {"U", "Q"},
           Note(T, "failed"), pc' = "flush", NoLocals, troubles' \in Nat,
           UNCHANGED <<providerVars, fileVars, ckpt, req, end, local, stale, cut>>
    PROVE  DailyInv'
<1> USE DEF DailyInv
<1>1. UNCHANGED <<day, bars, dividends, unadj, adj, fac>>
    BY DEF providerVars, fileVars
<1>2. /\ batch' \in Rows /\ results' \in [Datasets -> Statuses]
      /\ \A k \in Keys : batch'[k] = "success" => batch[k] = "success"
      /\ \A t \in Datasets : results'[t] = IF t \in T THEN "failed" ELSE results[t]
    BY Noted DEF Datasets, Statuses
<1>3. TypeOK'
    BY <1>1, <1>2, FrameTypes, DatasetNames DEF TypeOK, NoLocals
<1>4. NoGaps' /\ Based' /\ Honest'
    BY <1>1, <1>2, FilesKept
<1>5. Unreported'
    BY <1>2 DEF Frames, Unreported, Datasets
<1>6. Frames' /\ Reported' /\ SuccessAgrees' /\ Priced'
    BY <1>5 DEF Frames, Unreported, Reported, SuccessAgrees, Priced
<1>7. QED
    BY <1>3, <1>4, <1>6

LEMMA FetchFailsStep == DailyInv /\ (DailyFails \/ RefetchFails) => DailyInv'
<1> SUFFICES ASSUME DailyInv, DailyFails \/ RefetchFails PROVE DailyInv'
    OBVIOUS
<1>1. BarTargets \in SUBSET {"U", "Q"} /\ todo \in SUBSET {"U", "Q"} /\ troubles \in Nat
    BY DatasetNames DEF DailyInv, TypeOK
<1>2. troubles' \in Nat
    BY <1>1 DEF DailyFails, RefetchFails, Trouble
<1>3. QED
    BY <1>1, <1>2, GivesUp DEF DailyFails, RefetchFails

LEMMA CompareStep == DailyInv /\ Compare => DailyInv'
<1> SUFFICES ASSUME DailyInv, Compare PROVE DailyInv'
    OBVIOUS
<1> USE DEF DailyInv
<1>1. /\ pc = "compare" /\ Note(BarTargets \ Active, "failed") /\ todo' = Active
      /\ pc' = IF Active = {} THEN "flush" ELSE IF AsksAgain THEN "refetch" ELSE "write"
      /\ alone' = (req.mode = "full")
      /\ got' = IF req.mode = "partial" /\ ~ AsksAgain THEN Merged ELSE got
      /\ UNCHANGED <<day, bars, dividends, unadj, adj, fac, ckpt, req, end, factors, local,
                     stale, cut, troubles>>
    BY DEF Compare, NoteInactive, providerVars, fileVars
<1>2. end \in Days /\ req.mode \in Modes /\ BarTargets \subseteq {"U", "Q"}
      /\ Active \subseteq BarTargets
    BY <1>1, DatasetNames
<1>3. /\ batch' \in Rows /\ results' \in [Datasets -> Statuses]
      /\ \A k \in Keys : batch'[k] = "success" => batch[k] = "success"
      /\ \A t \in Datasets :
            results'[t] = IF t \in BarTargets \ Active THEN "failed" ELSE results[t]
    <2>1. BarTargets \ Active \in SUBSET Datasets
        BY <1>2 DEF Datasets
    <2>2. QED
        BY <1>1, <2>1, Noted DEF Statuses
<1>4. TypeOK'
    BY <1>1, <1>2, <1>3, FrameTypes DEF TypeOK
<1>5. NoGaps' /\ Based' /\ Honest'
    BY <1>1, <1>3, FilesKept DEF fileVars
<1>6. Unreported'
    BY <1>1, <1>3 DEF Frames, Unreported, Datasets
<1>7. Active' = Active /\ BarTargets' = BarTargets /\ FetchedFactors' = FetchedFactors
    BY <1>1 DEF Active, BarTargets, FetchedFactors
<1>8. Priced'
    BY <1>1, <1>7 DEF Priced
<1>9. pc' = "write" => Covers(got')
    <2>1. CASE req.mode = "full"
        <3>1. got' = got
            BY <1>1, <2>1
        <3>2. Has(got) = 1 .. end
            BY <1>1, <2>1 DEF Frames, FirstDay
        <3>3. QED
            BY <1>2, <3>1, <3>2, FromTheStart DEF TypeOK
    <2>2. CASE req.mode # "full"
        <3>1. Has(got) = WindowStart .. end
            BY <1>1, <2>2 DEF Frames, FirstDay
        <3>2. ASSUME pc' = "write" PROVE got' = Merged /\ InWindow(unadj) # {}
            BY <1>1, <1>2, <2>2, <3>2 DEF AsksAgain, Modes
        <3>3. Whole(unadj)
            BY DEF NoGaps
        <3>4. QED
            BY <1>2, <3>1, <3>2, <3>3, MergedCovers
    <2>3. QED
        BY <2>1, <2>2
<1>10. Frames'
    <2>1. pc' = "write" => Covers(got)'
        BY <1>1, <1>9 DEF Covers, Whole
    <2>2. QED
        BY <1>1, <1>6, <2>1 DEF Frames
<1>11. Reported' /\ SuccessAgrees'
    BY <1>1, <1>6 DEF Unreported, Reported, SuccessAgrees
<1>12. QED
    BY <1>4, <1>5, <1>8, <1>10, <1>11

LEMMA RefetchAllStep == DailyInv /\ RefetchAll => DailyInv'
<1> SUFFICES ASSUME DailyInv, RefetchAll PROVE DailyInv'
    OBVIOUS
<1> USE DEF DailyInv
<1>1. /\ pc = "refetch" /\ pc' = "write" /\ got' = Frame(1) /\ alone' = TRUE
      /\ UNCHANGED <<day, bars, dividends, unadj, adj, fac, ckpt, batch, req, end, factors,
                     todo, results, local, stale, cut, troubles>>
    BY DEF RefetchAll, providerVars, fileVars, metaVars
<1>2. end \in Days
    BY <1>1, DatasetNames
<1>3. got' \in Bars /\ Has(got') = 1 .. end
    BY <1>1, <1>2, FrameTypes
<1>4. TypeOK'
    BY <1>1, <1>3 DEF TypeOK
<1>5. NoGaps' /\ Based' /\ Honest'
    BY <1>1, FilesKept DEF fileVars
<1>6. Covers(got')
    BY <1>2, <1>3, FromTheStart
<1>7. Frames'
    BY <1>1, <1>6 DEF Frames, Covers, Whole
<1>8. Reported' /\ SuccessAgrees'
    BY <1>1 DEF Frames, Unreported, Reported, SuccessAgrees
<1>9. Priced'
    BY <1>1 DEF Priced, Active, BarTargets, FetchedFactors
<1>10. QED
    BY <1>4, <1>5, <1>7, <1>8, <1>9

LEMMA WrittenStep == DailyInv /\ Written => DailyInv'
<1> SUFFICES ASSUME DailyInv, Written PROVE DailyInv'
    OBVIOUS
<1> USE DEF DailyInv
<1>1. /\ pc = "write" /\ todo = {} /\ pc' = "flush"
      /\ got' = NoBars /\ factors' = None /\ todo' = {} /\ alone' = FALSE
      /\ UNCHANGED <<day, bars, dividends, unadj, adj, fac, ckpt, batch, req, end, results,
                     local, stale, cut, troubles>>
    BY DEF Written, NoLocals, providerVars, fileVars, metaVars
<1>2. TypeOK'
    BY <1>1, FrameTypes, DatasetNames DEF TypeOK
<1>3. NoGaps' /\ Based' /\ Honest'
    BY <1>1, FilesKept DEF fileVars
<1>4. Frames' /\ Reported' /\ Priced'
    BY <1>1 DEF Frames, Reported, Priced
<1>5. SuccessAgrees'
    BY <1>1 DEF Reported, SuccessAgrees
<1>6. QED
    BY <1>2, <1>3, <1>4, <1>5

LEMMA FlushStep == DailyInv /\ Flush => DailyInv'
<1> SUFFICES ASSUME DailyInv, Flush PROVE DailyInv'
    OBVIOUS
<1> USE DEF DailyInv
<1>1. /\ ckpt' = Flushed /\ batch' = NoRows
      /\ UNCHANGED <<day, bars, dividends, unadj, adj, fac, pc, req, end, got, factors, todo,
                     alone, results, local, stale, cut, troubles>>
    BY DEF Flush, providerVars, fileVars, runVars
<1>2. /\ ckpt' \in Rows /\ batch' \in Rows
      /\ \A k \in Keys : "success" \in {ckpt'[k], batch'[k]} => "success" \in {ckpt[k], batch[k]}
    BY <1>1 DEF Flushed, NoRows, Rows, Statuses, TypeOK
<1>3. TypeOK'
    BY <1>1, <1>2 DEF TypeOK
<1>4. NoGaps' /\ Based' /\ Honest'
    BY <1>1, <1>2, FilesKept DEF fileVars
<1>5. Frames' /\ Reported' /\ SuccessAgrees' /\ Priced'
    BY <1>1 DEF Frames, Unreported, FirstDay, WindowStart, Covers, Whole, Has, Reported,
                SuccessAgrees, Priced, Active, BarTargets, FetchedFactors
<1>6. QED
    BY <1>3, <1>4, <1>5

LEMMA RunOverStep == DailyInv /\ (Return \/ Crash) => DailyInv'
<1> SUFFICES ASSUME DailyInv, Return \/ Crash PROVE DailyInv'
    OBVIOUS
<1> USE DEF DailyInv
<1>1. /\ ckpt' \in {ckpt, Flushed} /\ batch' = NoRows /\ pc' = "idle"
      /\ req' = NoRequest /\ end' = 0 /\ results' = NoResults /\ local' = FALSE
      /\ got' = NoBars /\ factors' = None /\ todo' = {} /\ alone' = FALSE
      /\ troubles' = troubles \/ troubles' = troubles + 1
      /\ UNCHANGED <<day, bars, dividends, unadj, adj, fac, stale, cut>>
    BY DEF Return, Crash, RunOver, NoLocals, Trouble, providerVars, fileVars
<1>2. /\ ckpt' \in Rows /\ batch' \in Rows
      /\ \A k \in Keys : "success" \in {ckpt'[k], batch'[k]} => "success" \in {ckpt[k], batch[k]}
    BY <1>1 DEF Flushed, NoRows, Rows, Statuses, TypeOK
<1>3. TypeOK'
    <2>1. 0 \in 0 .. day /\ troubles' \in Nat
        BY <1>1, ConstantsAssumption DEF TypeOK, Days
    <2>2. QED
        BY <1>1, <1>2, <2>1, Blank DEF TypeOK
<1>4. NoGaps' /\ Based' /\ Honest'
    BY <1>1, <1>2, FilesKept DEF fileVars
<1>5. Frames' /\ Reported' /\ SuccessAgrees' /\ Priced'
    BY <1>1 DEF Frames, Unreported, NoResults, Datasets, Reported, SuccessAgrees, Priced
<1>6. QED
    BY <1>3, <1>4, <1>5

\* A new day has no row yet, and what the rows of the others say is not touched by its
\* dividends.
LEMMA NewDayStep == DailyInv /\ NewDay => DailyInv'
<1> SUFFICES ASSUME DailyInv, NewDay PROVE DailyInv'
    OBVIOUS
<1> USE DEF DailyInv
<1>1. /\ pc = "idle" /\ day < MaxDay /\ day' = day + 1
      /\ dividends' \in {dividends, dividends \cup {day + 1}}
      /\ UNCHANGED <<bars, unadj, adj, fac, ckpt, batch, pc, req, end, got, factors, todo,
                     alone, results, local, stale, cut, troubles>>
    BY DEF NewDay, fileVars, metaVars, runVars
<1>2. day \in Nat /\ day + 1 \in Days /\ \A k \in Keys : k[3] \in Nat
    BY <1>1, ConstantsAssumption DEF TypeOK, Days, Keys
<1>3. TypeOK'
    BY <1>1, <1>2 DEF TypeOK
<1>4. NoGaps' /\ Based' /\ Frames' /\ Reported' /\ SuccessAgrees' /\ Priced'
    BY <1>1 DEF NoGaps, Whole, Based, Frames, Unreported, Reported, SuccessAgrees, Priced
<1>5. ASSUME NEW k \in Keys, Claim(k) PROVE Claim(k)'
    <2>1. k[3] <= day' /\ dividends' \cap (1 .. k[3]) = dividends \cap (1 .. k[3])
        BY <1>1, <1>2, <1>5 DEF Claim
    <2>2. QED
        BY <1>1, <1>5, <2>1 DEF Claim
<1>6. Honest'
    BY <1>1, <1>5 DEF Honest
<1>7. QED
    BY <1>3, <1>4, <1>6

LEMMA ReviseStep ==
    ASSUME DailyInv, NEW d \in 1 .. day, Revise(d)
    PROVE  DailyInv'
<1> USE DEF DailyInv
<1>1. /\ bars' \in [Days -> Versions] /\ troubles' \in Nat
      /\ UNCHANGED <<day, dividends, unadj, adj, fac, ckpt, batch, pc, req, end, got, factors,
                     todo, alone, results, local, stale, cut>>
    <2>1. bars' \in [Days -> Versions]
        BY DEF Revise, TypeOK
    <2>2. troubles' \in Nat
        BY DEF Revise, Trouble, TypeOK
    <2>3. QED
        BY <2>1, <2>2 DEF Revise, fileVars, metaVars, runVars
<1>2. TypeOK'
    BY <1>1 DEF TypeOK
<1>3. NoGaps' /\ Based' /\ Honest'
    BY <1>1, FilesKept DEF fileVars
<1>4. Frames' /\ Reported' /\ SuccessAgrees' /\ Priced'
    BY <1>1 DEF Frames, Unreported, FirstDay, WindowStart, Covers, Whole, Has, Reported,
                SuccessAgrees, Priced, Active, BarTargets, FetchedFactors
<1>5. QED
    BY <1>2, <1>3, <1>4

-----------------------------------------------------------------------------
(* Steps that write a file                                                 *)

\* The factors on disk only grow, unless a run for an earlier date has replaced them.
LEMMA FactorsReplaced ==
    ASSUME DailyInv, pc = "factor", NEW f \in {fac, FetchedFactors}, fac' = f,
           cut' = (cut \/ Fewer(fac, f)),
           UNCHANGED <<day, dividends, unadj, adj, stale, ckpt>>,
           \A k \in Keys : batch'[k] = "success" =>
                \/ batch[k] = "success"
                \/ k = Key("F", req.mode, end) /\ f = FetchedFactors
    PROVE  NoGaps' /\ Based' /\ Honest'
<1> USE DEF DailyInv
<1>1. NoGaps'
    BY DEF NoGaps, Whole
<1>2. /\ FetchedFactors \subseteq Days /\ FetchedFactors # None
      /\ fac # None => f # None
      /\ ~ cut' => ~ cut /\ (fac # None => fac \subseteq f)
    <2>1. FetchedFactors \subseteq Days
        BY DEF FetchedFactors, TypeOK
    <2>2. FetchedFactors # None
        BY <2>1, ConstantsAssumption
    <2>3. QED
        BY <2>1, <2>2 DEF Fewer
<1>3. Based'
    BY <1>2 DEF Based
<1>4. ASSUME ~ cut', NEW k \in Keys, "success" \in {ckpt'[k], batch'[k]}
      PROVE  Claim(k)'
    <2>1. CASE "success" \in {ckpt[k], batch[k]}
        <3>1. Claim(k)
            BY <1>2, <1>4, <2>1 DEF Honest
        <3>2. QED
            BY <1>2, <1>4, <3>1 DEF Claim
    <2>2. CASE k = Key("F", req.mode, end) /\ f = FetchedFactors
        <3>1. k[1] = "F" /\ k[3] = end /\ end <= day
            <4>1. "F" \in Datasets /\ req.mode \in Modes /\ end \in Days /\ end \in 1 .. day
                BY DatasetNames DEF Datasets
            <4>2. day \in Nat
                BY ConstantsAssumption DEF TypeOK, Days
            <4>3. QED
                BY <2>2, <4>1, <4>2, KeyTypes
        <3>2. QED
            BY <1>2, <2>2, <3>1 DEF Claim, FetchedFactors
    <2>3. QED
        BY <1>4, <2>1, <2>2
<1>5. Honest'
    BY <1>4 DEF Honest
<1>6. QED
    BY <1>1, <1>3, <1>5

LEMMA StoreFactorStep == DailyInv /\ StoreFactor => DailyInv'
<1> SUFFICES ASSUME DailyInv, StoreFactor PROVE DailyInv'
    OBVIOUS
<1> USE DEF DailyInv
<1>1. /\ pc = "factor" /\ pc' \in {"flush", "daily"}
      /\ fac' = FetchedFactors /\ factors' = FetchedFactors
      /\ cut' = (cut \/ Fewer(fac, FetchedFactors))
      /\ Note({"F"}, "success")
      /\ UNCHANGED <<day, bars, dividends, unadj, adj, ckpt, req, end, got, todo, alone, local,
                     stale, troubles>>
    BY DEF StoreFactor, AfterFactor, providerVars
<1>2. /\ batch' \in Rows /\ results' \in [Datasets -> Statuses]
      /\ results'["F"] = "success"
      /\ \A u \in Datasets : u # "F" => results'[u] = results[u]
      /\ \A k \in Keys : batch'[k] = "success" =>
            batch[k] = "success" \/ k = Key("F", req.mode, end)
    <2>1. "F" \in Datasets /\ "success" \in Statuses
        BY DEF Datasets, Statuses
    <2>2. QED
        BY <1>1, <2>1, NotedOne
<1>3. FetchedFactors \subseteq Days /\ FetchedFactors # None /\ FetchedFactors' = FetchedFactors
    <2>1. FetchedFactors \subseteq Days /\ FetchedFactors' = FetchedFactors
        BY <1>1 DEF FetchedFactors, TypeOK
    <2>2. QED
        BY <2>1, ConstantsAssumption
<1>4. TypeOK'
    BY <1>1, <1>2, <1>3 DEF TypeOK
<1>5. NoGaps' /\ Based' /\ Honest'
    BY <1>1, <1>2, FactorsReplaced
<1>6. Unreported'
    BY <1>1, <1>2 DEF Frames, Unreported, Datasets
<1>7. Frames' /\ Reported' /\ SuccessAgrees'
    BY <1>1, <1>6 DEF Frames, Unreported, Reported, SuccessAgrees
<1>8. Priced'
    BY <1>1, <1>3 DEF Priced
<1>9. QED
    BY <1>4, <1>5, <1>7, <1>8

LEMMA FactorFailsStep == DailyInv /\ FactorFails => DailyInv'
<1> SUFFICES ASSUME DailyInv, FactorFails PROVE DailyInv'
    OBVIOUS
<1> USE DEF DailyInv
<1>1. PICK f \in {fac, FetchedFactors} :
        /\ fac' = f
        /\ factors' = IF f \in {None, {}} THEN NoFactors ELSE f
        /\ cut' = (cut \/ Fewer(fac, f))
        /\ local' = (f # FetchedFactors)
    BY DEF FactorFails
<1>2. /\ pc = "factor" /\ pc' \in {"flush", "daily"} /\ Note({"F"}, "failed")
      /\ troubles' = troubles + 1
      /\ UNCHANGED <<day, bars, dividends, unadj, adj, ckpt, req, end, got, todo, alone, stale>>
    BY DEF FactorFails, AfterFactor, Trouble, providerVars
<1>3. /\ batch' \in Rows /\ results' \in [Datasets -> Statuses]
      /\ results'["F"] = "failed"
      /\ \A u \in Datasets : u # "F" => results'[u] = results[u]
      /\ \A k \in Keys : batch'[k] = "success" => batch[k] = "success"
    <2>1. "F" \in Datasets /\ "failed" \in Statuses
        BY DEF Datasets, Statuses
    <2>2. QED
        BY <1>2, <2>1, NotedOne
<1>4. FetchedFactors \subseteq Days /\ FetchedFactors' = FetchedFactors
    BY <1>2 DEF FetchedFactors, TypeOK
<1>5. TypeOK'
    <2>1. f = None \/ f \subseteq Days
        BY <1>4 DEF TypeOK
    <2>2. factors' \in {None, NoFactors} \/ factors' \subseteq Days
        BY <1>1, <2>1
    <2>3. cut' \in BOOLEAN /\ local' \in BOOLEAN /\ troubles' \in Nat
        BY <1>1, <1>2 DEF TypeOK, Fewer
    <2>4. QED
        BY <1>1, <1>2, <1>3, <2>1, <2>2, <2>3 DEF TypeOK
<1>6. NoGaps' /\ Based' /\ Honest'
    BY <1>1, <1>2, <1>3, FactorsReplaced
<1>7. Unreported'
    BY <1>2, <1>3 DEF Frames, Unreported, Datasets
<1>8. Frames' /\ Reported' /\ SuccessAgrees'
    BY <1>2, <1>7 DEF Frames, Unreported, Reported, SuccessAgrees
<1>9. Priced'
    BY <1>1, <1>2, <1>4 DEF Priced
<1>10. QED
    BY <1>5, <1>6, <1>8, <1>9

LEMMA UnadjustedReplaced ==
    ASSUME DailyInv, pc = "write", PutUnadjusted, UNCHANGED <<day, dividends, fac, ckpt, end>>,
           \A k \in Keys : batch'[k] = "success" =>
                batch[k] = "success" \/ k = Key("U", req.mode, end)
    PROVE  NoGaps' /\ Based' /\ Honest'
<1> USE DEF DailyInv
<1>1. unadj' = got /\ UNCHANGED <<adj, stale>> /\ Covers(got)
      /\ (~ cut' => ~ cut /\ ~ Shorter(unadj, got))
    BY DEF PutUnadjusted, Frames
<1>2. NoGaps' /\ Based'
    BY <1>1 DEF NoGaps, Covers, Whole, Based, PutUnadjusted
<1>3. ASSUME ~ cut', NEW k \in Keys, "success" \in {ckpt'[k], batch'[k]}
      PROVE  Claim(k)'
    <2>1. CASE "success" \in {ckpt[k], batch[k]}
        <3>1. Claim(k) /\ k[3] \in Days
            BY <1>1, <1>3, <2>1 DEF Honest, Keys
        <3>2. unadj[k[3]] # None => got[k[3]] # None
            BY <1>1, <1>3, <3>1 DEF Shorter, Has
        <3>3. QED
            BY <1>1, <3>1, <3>2 DEF Claim
    <2>2. CASE k = Key("U", req.mode, end)
        <3>1. "U" \in Datasets /\ req.mode \in Modes /\ end \in Days /\ end \in 1 .. day
            BY DatasetNames DEF Datasets
        <3>2. day \in Nat
            BY ConstantsAssumption DEF TypeOK, Days
        <3>3. k[1] = "U" /\ k[3] = end /\ end <= day
            BY <2>2, <3>1, <3>2, KeyTypes
        <3>4. got[end] # None
            BY <1>1, <3>1 DEF Covers
        <3>5. QED
            BY <1>1, <3>3, <3>4 DEF Claim
    <2>3. QED
        BY <1>3, <2>1, <2>2
<1>4. QED
    BY <1>2, <1>3 DEF Honest

\* The factors of new adjusted bars are those of the old ones and others, and, if the run has
\* fetched them, all there are.
LEMMA AdjustedReplaced ==
    ASSUME DailyInv, pc = "write", "Q" \in todo, PutAdjusted,
           UNCHANGED <<day, dividends, fac, ckpt, end>>,
           \A k \in Keys : batch'[k] = "success" =>
                batch[k] = "success" \/ k = Key("Q", req.mode, end)
    PROVE  /\ NoGaps' /\ Based' /\ Honest'
           /\ adj' = [bars |-> got, by |-> fac] /\ adj' \in Pages /\ adj' # None
<1> USE DEF DailyInv
<1>1. /\ factors = fac /\ fac # None /\ fac \subseteq Days
      /\ cut \/ local \/ FetchedFactors \subseteq fac
    <2>1. "Q" \in req.targets /\ factors # NoFactors
        BY DEF Priced, Active, BarTargets
    <2>2. QED
        BY <2>1 DEF Priced, TypeOK
<1>2. adj' = [bars |-> got, by |-> fac]
    BY <1>1 DEF PutAdjusted
<1>3. adj' \in Pages /\ adj' # None /\ adj'.bars = got /\ adj'.by = fac
    <2>1. adj' \in Pages
        BY <1>1, <1>2 DEF Pages, TypeOK
    <2>2. QED
        BY <1>2, <2>1, ConstantsAssumption DEF Pages
<1>4. /\ unadj' = unadj /\ Covers(got)
      /\ ~ cut' => ~ cut /\ (adj # None => ~ Shorter(adj.bars, got))
      /\ stale' = (local \/ (stale /\ end < day))
    BY DEF PutAdjusted, Frames
<1>5. NoGaps'
    BY <1>3, <1>4 DEF NoGaps, Covers, Whole
<1>6. Based'
    BY <1>1, <1>3 DEF Based
<1>7. end \in Days /\ end \in 1 .. day /\ day \in Nat
    BY DatasetNames, ConstantsAssumption DEF TypeOK, Days
<1>8. ASSUME ~ cut', NEW k \in Keys, "success" \in {ckpt'[k], batch'[k]}
      PROVE  Claim(k)'
    <2>1. CASE "success" \in {ckpt[k], batch[k]}
        <3>1. Claim(k) /\ k[3] \in Days /\ k[3] \in Nat
            BY <1>4, <1>8, <2>1, ConstantsAssumption DEF Honest, Keys, Days
        <3>2. adj # None /\ adj.bars[k[3]] # None => got[k[3]] # None
            BY <1>4, <1>8, <3>1 DEF Shorter, Has
        <3>3. ASSUME k[1] = "Q" PROVE stale' \/ dividends \cap (1 .. k[3]) \subseteq fac
            <4>1. CASE ~ stale
                <5>1. dividends \cap (1 .. k[3]) \subseteq adj.by /\ adj # None
                    BY <3>1, <3>3, <4>1 DEF Claim
                <5>2. adj.by \subseteq fac
                    BY <1>4, <1>8, <5>1 DEF Based
                <5>3. QED
                    BY <5>1, <5>2
            <4>2. CASE stale /\ ~ stale'
                <5>1. ~ local /\ ~ (end < day)
                    BY <1>4, <4>2
                <5>2. 1 .. k[3] \subseteq 1 .. end
                    BY <1>7, <3>1, <5>1 DEF Claim
                <5>3. FetchedFactors \subseteq fac
                    BY <1>1, <1>4, <1>8, <5>1
                <5>4. QED
                    BY <5>2, <5>3 DEF FetchedFactors
            <4>3. QED
                BY <4>1, <4>2
        <3>4. QED
            BY <1>3, <1>4, <3>1, <3>2, <3>3 DEF Claim
    <2>2. CASE k = Key("Q", req.mode, end)
        <3>1. k[1] = "Q" /\ k[3] = end /\ end <= day
            <4>1. "Q" \in Datasets /\ req.mode \in Modes
                BY DatasetNames DEF Datasets
            <4>2. QED
                BY <1>7, <2>2, <4>1, KeyTypes
        <3>2. got[end] # None
            BY <1>4, <1>7 DEF Covers
        <3>3. stale' \/ FetchedFactors \subseteq fac
            BY <1>1, <1>4, <1>8
        <3>4. QED
            BY <1>3, <3>1, <3>2, <3>3 DEF Claim, FetchedFactors
    <2>3. QED
        BY <1>8, <2>1, <2>2
<1>9. QED
    BY <1>2, <1>3, <1>5, <1>6, <1>8 DEF Honest

LEMMA WriteUnadjustedStep == DailyInv /\ WriteUnadjusted => DailyInv'
<1> SUFFICES ASSUME DailyInv, WriteUnadjusted PROVE DailyInv'
    OBVIOUS
<1> USE DEF DailyInv
<1>1. /\ pc = "write" /\ "U" \in todo /\ PutUnadjusted /\ Note({"U"}, "success")
      /\ unadj' = got /\ cut' \in BOOLEAN /\ todo' = todo \ {"U"}
      /\ UNCHANGED <<day, bars, dividends, adj, stale, fac, ckpt, pc, req, end, got, factors,
                     alone, local, troubles>>
    BY DEF WriteUnadjusted, PutUnadjusted, providerVars, Shorter, TypeOK
<1>2. /\ batch' \in Rows /\ results' \in [Datasets -> Statuses]
      /\ results'["U"] = "success"
      /\ \A u \in Datasets : u # "U" => results'[u] = results[u]
      /\ \A k \in Keys : batch'[k] = "success" =>
            batch[k] = "success" \/ k = Key("U", req.mode, end)
    <2>1. "U" \in Datasets /\ "success" \in Statuses
        BY DEF Datasets, Statuses
    <2>2. QED
        BY <1>1, <2>1, NotedOne
<1>3. TypeOK'
    BY <1>1, <1>2 DEF TypeOK
<1>4. NoGaps' /\ Based' /\ Honest'
    BY <1>1, <1>2, UnadjustedReplaced
<1>5. Frames' /\ SuccessAgrees'
    BY <1>1 DEF Frames, Covers, Whole, SuccessAgrees
<1>6. results'["Q"] = results["Q"] /\ results'["Q"] # "success"
    BY <1>1, <1>2 DEF Reported, Datasets
<1>7. Reported'
    BY <1>1, <1>6 DEF Reported
<1>8. Priced'
    BY <1>1, <1>4 DEF Priced, Active, BarTargets, FetchedFactors, PutUnadjusted
<1>9. QED
    BY <1>3, <1>4, <1>5, <1>7, <1>8

LEMMA WriteAdjustedStep == DailyInv /\ WriteAdjusted => DailyInv'
<1> SUFFICES ASSUME DailyInv, WriteAdjusted PROVE DailyInv'
    OBVIOUS
<1> USE DEF DailyInv
<1>1. /\ pc = "write" /\ todo = {"Q"} /\ PutAdjusted /\ Note({"Q"}, "success")
      /\ cut' \in BOOLEAN /\ stale' \in BOOLEAN /\ todo' = {}
      /\ UNCHANGED <<day, bars, dividends, unadj, fac, ckpt, pc, req, end, got, factors, alone,
                     local, troubles>>
    BY DEF WriteAdjusted, PutAdjusted, providerVars, Shorter, TypeOK
<1>2. /\ batch' \in Rows /\ results' \in [Datasets -> Statuses]
      /\ results'["Q"] = "success"
      /\ \A u \in Datasets : u # "Q" => results'[u] = results[u]
      /\ \A k \in Keys : batch'[k] = "success" =>
            batch[k] = "success" \/ k = Key("Q", req.mode, end)
    <2>1. "Q" \in Datasets /\ "success" \in Statuses
        BY DEF Datasets, Statuses
    <2>2. QED
        BY <1>1, <2>1, NotedOne
<1>3. /\ NoGaps' /\ Based' /\ Honest'
      /\ adj' = [bars |-> got, by |-> fac] /\ adj' \in Pages
    BY <1>1, <1>2, AdjustedReplaced
<1>4. TypeOK'
    BY <1>1, <1>2, <1>3 DEF TypeOK
<1>5. Frames' /\ SuccessAgrees'
    BY <1>1 DEF Frames, Covers, Whole, SuccessAgrees
<1>6. Reported'
    BY <1>1, <1>2, <1>3 DEF Reported, Datasets
<1>7. Priced'
    BY <1>1 DEF Priced, Active, BarTargets, FetchedFactors, PutAdjusted
<1>8. QED
    BY <1>3, <1>4, <1>5, <1>6, <1>7

\* A write that fails may still have replaced the file; of its dataset no success is
\* reported, and in a partial run of none.
LEMMA WriteFailsStep == DailyInv /\ WriteFails => DailyInv'
<1> SUFFICES ASSUME DailyInv, WriteFails PROVE DailyInv'
    OBVIOUS
<1> USE DEF DailyInv
<1>1. /\ pc = "write" /\ todo # {} /\ troubles' = troubles + 1
      /\ UNCHANGED <<day, bars, dividends, fac, ckpt, pc, req, end, got, factors, alone, local>>
    BY DEF WriteFails, Trouble, providerVars
<1>2. PICK T \in SUBSET BarTargets :
        /\ Note(T, "failed") /\ todo' \subseteq todo
        /\ "U" \in todo => "U" \in T
        /\ "U" \notin todo => "Q" \in T
        /\ T = BarTargets \/ todo' = todo \ T
    <2>1. todo \subseteq BarTargets
        BY <1>1, DatasetNames DEF Priced
    <2>2. "U" \in todo \/ "Q" \in todo
        BY <1>1 DEF TypeOK
    <2>3. CASE alone
        <3>1. CASE "U" \in todo
            BY <2>1, <2>3, <3>1 DEF WriteFails
        <3>2. CASE "U" \notin todo
            BY <2>1, <2>2, <2>3, <3>2 DEF WriteFails
        <3>3. QED
            BY <3>1, <3>2
    <2>4. CASE ~ alone
        BY <2>1, <2>2, <2>4 DEF WriteFails
    <2>5. QED
        BY <2>3, <2>4
<1>3. /\ batch' \in Rows /\ results' \in [Datasets -> Statuses]
      /\ \A t \in Datasets : results'[t] = IF t \in T THEN "failed" ELSE results[t]
      /\ \A k \in Keys : batch'[k] = "success" => batch[k] = "success"
    <2>1. T \in SUBSET Datasets
        BY DatasetNames DEF Datasets
    <2>2. "failed" \in Statuses /\ "failed" # "success"
        BY DEF Statuses
    <2>3. Note(T, "failed")
        BY <1>2
    <2>4. \A k \in Keys : batch'[k] = "success" =>
            \/ batch[k] = "success"
            \/ "failed" = "success" /\ \E t \in T : k = Key(t, req.mode, end)
        BY <2>1, <2>2, <2>3, Noted
    <2>5. /\ batch' \in Rows /\ results' \in [Datasets -> Statuses]
          /\ \A t \in Datasets : results'[t] = IF t \in T THEN "failed" ELSE results[t]
        BY <2>1, <2>2, <2>3, Noted
    <2>6. QED
        BY <2>2, <2>4, <2>5
<1>4. results'["Q"] # "success"
    <2>1. results["Q"] # "success"
        BY <1>1 DEF Reported
    <2>2. QED
        BY <1>3, <2>1 DEF Datasets
<1>5. results'["U"] = "success" => results["U"] = "success" /\ "U" \notin todo /\ unadj = got
    <2>1. results'["U"] = "success" => results["U"] = "success"
        BY <1>3 DEF Datasets
    <2>2. QED
        BY <1>1, <2>1 DEF Reported
<1>6. CASE UNCHANGED <<unadj, adj, stale, cut>>
    <2>1. TypeOK'
        BY <1>1, <1>2, <1>3, <1>6 DEF TypeOK
    <2>2. NoGaps' /\ Based' /\ Honest'
        BY <1>1, <1>3, <1>6, FilesKept DEF fileVars
    <2>3. Frames' /\ SuccessAgrees'
        BY <1>1 DEF Frames, Covers, Whole, SuccessAgrees
    <2>4. Reported'
        BY <1>1, <1>2, <1>4, <1>5, <1>6 DEF Reported
    <2>5. Priced'
        BY <1>1, <1>2, <1>6 DEF Priced, Active, BarTargets, FetchedFactors
    <2>6. QED
        BY <2>1, <2>2, <2>3, <2>4, <2>5
<1>7. CASE "U" \in todo /\ PutUnadjusted
    <2>1. unadj' = got /\ cut' \in BOOLEAN /\ UNCHANGED <<adj, stale>>
        BY <1>7 DEF PutUnadjusted, Shorter, TypeOK
    <2>2. TypeOK'
        BY <1>1, <1>2, <1>3, <2>1 DEF TypeOK
    <2>3. NoGaps' /\ Based' /\ Honest'
        BY <1>1, <1>3, <1>7, UnadjustedReplaced
    <2>4. Frames' /\ SuccessAgrees'
        BY <1>1 DEF Frames, Covers, Whole, SuccessAgrees
    <2>5. Reported'
        BY <1>1, <1>4, <1>5, <1>7 DEF Reported
    <2>6. Priced'
        BY <1>1, <1>2, <1>7 DEF Priced, Active, BarTargets, FetchedFactors, PutUnadjusted
    <2>7. QED
        BY <2>2, <2>3, <2>4, <2>5, <2>6
<1>8. CASE todo = {"Q"} /\ PutAdjusted
    <2>1. unadj' = unadj /\ cut' \in BOOLEAN /\ stale' \in BOOLEAN
        BY <1>8 DEF PutAdjusted, Shorter, TypeOK
    <2>2. /\ NoGaps' /\ Based' /\ Honest'
          /\ adj' \in Pages
        BY <1>1, <1>3, <1>8, AdjustedReplaced
    <2>3. TypeOK'
        BY <1>1, <1>2, <1>3, <2>1, <2>2 DEF TypeOK
    <2>4. Frames' /\ SuccessAgrees'
        BY <1>1 DEF Frames, Covers, Whole, SuccessAgrees
    <2>5. Reported'
        BY <1>1, <1>2, <1>4, <1>5, <2>1 DEF Reported
    <2>6. Priced'
        BY <1>1, <1>2, <1>8 DEF Priced, Active, BarTargets, FetchedFactors, PutAdjusted
    <2>7. QED
        BY <2>2, <2>3, <2>4, <2>5, <2>6
<1>9. QED
    BY <1>6, <1>7, <1>8 DEF WriteFails

LEMMA DailyStep == DailyInv /\ [Next]_vars => DailyInv'
<1>1. DailyInv /\ UNCHANGED vars => DailyInv'
    <2> SUFFICES ASSUME DailyInv, UNCHANGED vars PROVE DailyInv'
        OBVIOUS
    <2>1. UNCHANGED <<day, bars, dividends, unadj, adj, fac, ckpt, batch, pc, req, end, got,
                      factors, todo, alone, results, local, stale, cut, troubles>>
        BY DEF vars, providerVars, fileVars, metaVars, runVars
    <2>2. TypeOK'
        BY <2>1 DEF DailyInv, TypeOK
    <2>3. NoGaps' /\ Based' /\ Honest'
        BY <2>1, FilesKept DEF fileVars
    <2>4. Frames' /\ Reported' /\ SuccessAgrees' /\ Priced'
        BY <2>1 DEF DailyInv, Frames, Unreported, FirstDay, WindowStart, Covers, Whole, Has,
                    Reported, SuccessAgrees, Priced, Active, BarTargets, FetchedFactors
    <2>5. QED
        BY <2>2, <2>3, <2>4 DEF DailyInv
<1>2. DailyInv /\ (Advance \/ Fails) => DailyInv'
    BY UseExistingFactorStep, StoreFactorStep, FetchDailyStep, CompareStep, RefetchAllStep,
       WriteUnadjustedStep, WriteAdjustedStep, WrittenStep, RunOverStep, FactorFailsStep,
       FetchFailsStep, WriteFailsStep
    DEF Advance, Fails
<1>3. QED
    BY <1>1, <1>2, StartStep, FlushStep, NewDayStep, ReviseStep DEF Next

LEMMA DailyCorrect == Spec => []DailyInv
BY DailyInitially, DailyStep, PTL DEF Spec

-----------------------------------------------------------------------------

\* Whatever the lookback window, the days without a run and the bars that were revised, a
\* stored history has every day up to its last one: where the window does not reach the
\* stored bars, they are fetched from the start (update_daily_worker.py:348).
THEOREM HistoriesAreWhole == Spec => []NoGaps
BY DailyCorrect, PTL DEF DailyInv

\* Two successes in one run mean that the adjusted bars are the unadjusted ones on disk under
\* the factors on disk, also when a write in between has failed
\* (update_daily_worker.py:368).
THEOREM SuccessMeansAgreement == Spec => []SuccessAgrees
BY DailyCorrect, PTL DEF DailyInv

\* A code that a run passes over has its bars up to the date of the run and every dividend in
\* its adjusted bars, whatever has failed or died before; but for the runs for an earlier date
\* and the fetches of factors that the property names (update_daily.py:401).
THEOREM PassedOverIsStored == Spec => []SkippedIsDone
<1>1. DailyInv => SkippedIsDone
    <2> SUFFICES ASSUME DailyInv, NEW r \in Requests, NEW e \in 1 .. day,
                        pc = "idle", Skipped(r, e), ~ cut
                 PROVE  Stored(r, e) /\ (stale \/ Adjusted(r, e))
        BY DEF SkippedIsDone
    <2>1. r.targets \subseteq Datasets /\ r.mode \in Modes
        BY ConstantsAssumption
    <2>2. e \in Days
        BY ConstantsAssumption DEF DailyInv, TypeOK, Days
    <2>3. ASSUME NEW t \in r.targets
          PROVE  LET k == Key(t, r.mode, e) IN k[1] = t /\ k[3] = e /\ Claim(k)
        <3>1. ckpt[Key(t, r.mode, e)] = "success"
            BY DEF Skipped, Complete, Succeeded
        <3>2. LET k == Key(t, r.mode, e) IN k \in Keys /\ k[1] = t /\ k[3] = e
            BY <2>1, <2>2, KeyTypes
        <3>3. QED
            BY <3>1, <3>2 DEF DailyInv, Honest
    <2>4. Stored(r, e)
        BY <2>3 DEF Stored, Claim
    <2>5. stale \/ Adjusted(r, e)
        BY <2>3 DEF Adjusted, Claim
    <2>6. QED
        BY <2>4, <2>5
<1>2. QED
    BY <1>1, DailyCorrect, PTL

\* No step of a run, and no other, takes away a stored day that the run covers
\* (update_daily_worker.py:352).
THEOREM DaysAreKept == Spec => KeepsItsDays
<1> DEFINE Kept ==
        \A d \in 1 .. end :
            /\ unadj[d] # None => unadj'[d] # None
            /\ adj # None /\ adj.bars[d] # None => adj'.bars[d] # None
<1>1. DailyInv /\ [Next]_vars => Kept \/ UNCHANGED vars
    <2> SUFFICES ASSUME DailyInv, Next PROVE Kept
        OBVIOUS
    <2>1. CASE UNCHANGED <<unadj, adj>>
        BY <2>1
    <2>2. ASSUME pc = "write", unadj' = got, adj' = adj PROVE Kept
        BY <2>2 DEF DailyInv, Frames, Covers
    <2>3. ASSUME pc = "write", unadj' = unadj, adj'.bars = got PROVE Kept
        BY <2>3 DEF DailyInv, Frames, Covers
    <2>4. CASE WriteUnadjusted \/ WriteAdjusted \/ WriteFails
        BY <2>1, <2>2, <2>3, <2>4
        DEF WriteUnadjusted, WriteAdjusted, WriteFails, PutUnadjusted, PutAdjusted
    <2>5. \/ WriteUnadjusted \/ WriteAdjusted \/ WriteFails
          \/ UNCHANGED <<unadj, adj>>
        BY DEF Next, Advance, Fails, Start, UseExistingFactor, StoreFactor, FetchDaily, Compare,
               RefetchAll, Written, Return, Flush, FactorFails, DailyFails, RefetchFails, Crash,
               NewDay, Revise, fileVars
    <2>6. QED
        BY <2>1, <2>4, <2>5
<1>2. QED
    BY <1>1, DailyCorrect, PTL DEF Spec, KeepsItsDays

=============================================================================
