------------------------------ MODULE MCRecords ------------------------------
(***************************************************************************)
(* What the updates of the other sources and the stores share, each part   *)
(* on an instance of its own: upserts of two processes into two data sets, *)
(* a batch two threads fill, three Qlib releases of which the second lacks *)
(* a symbol, percentiles of up to three bars over two years, a client that *)
(* asks for results of one, two and too many pages, and the financial      *)
(* reports of a code over four dates.                                      *)
(* They share no state, so a behaviour is one of the part it is about, and *)
(* the others stand still.                                                 *)
(***************************************************************************)
EXTENDS DatasetStore, MetadataBatch, QlibSync, ValuationPercentile, BaostockClient,
        FinancialReport, TLC

CONSTANTS p1, p2, d1, d2, r1, r2, k1, k2, t1, t2, s1, s2, q1, q2, q3, c1

ThreeReleases ==
    << [latest |-> 1, size |-> 2, symbols |-> {s1, s2}],
       [latest |-> 2, size |-> 2, symbols |-> {s1}],
       [latest |-> 3, size |-> 3, symbols |-> {s1, s2}] >>

\* The processes and the data sets of the store are alike.
\* (So are the keys of rows, but every further permutation slows down the other parts.)
Alike == Permutations({p1, p2}) \cup Permutations({d1, d2})

SmallValues == {-2, -1, 1, 2}

OneTwoThree == [q \in {q1, q2, q3} |-> IF q = q1 THEN 1 ELSE IF q = q2 THEN 2 ELSE 3]

VARIABLE part       \* the part this behaviour is about

allVars == <<part, storeVars, batchVars, qlibVars, percentileVars, clientVars, reportVars>>

Init ==
    /\ part \in {"store", "batch", "qlib", "percentile", "client", "report"}
    /\ StoreInit /\ BatchInit /\ QlibInit /\ PercentileInit /\ ClientInit /\ ReportInit

StorePart ==
    /\ part = "store" /\ StoreNext
    /\ UNCHANGED <<part, batchVars, qlibVars, percentileVars, clientVars, reportVars>>
BatchPart ==
    /\ part = "batch" /\ BatchNext
    /\ UNCHANGED <<part, storeVars, qlibVars, percentileVars, clientVars, reportVars>>
QlibPart ==
    /\ part = "qlib" /\ QlibNext
    /\ UNCHANGED <<part, storeVars, batchVars, percentileVars, clientVars, reportVars>>
PercentilePart ==
    /\ part = "percentile" /\ PercentileNext
    /\ UNCHANGED <<part, storeVars, batchVars, qlibVars, clientVars, reportVars>>
ClientPart ==
    /\ part = "client" /\ ClientNext
    /\ UNCHANGED <<part, storeVars, batchVars, qlibVars, percentileVars, reportVars>>
ReportPart ==
    /\ part = "report" /\ ReportNext
    /\ UNCHANGED <<part, storeVars, batchVars, qlibVars, percentileVars, clientVars>>

Next == StorePart \/ BatchPart \/ QlibPart \/ PercentilePart \/ ClientPart \/ ReportPart

Spec == Init /\ [][Next]_allVars

=============================================================================
