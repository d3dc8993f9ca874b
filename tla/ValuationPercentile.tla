-------------------------- MODULE ValuationPercentile --------------------------
(***************************************************************************)
(* The valuation percentiles of one security and one field (file           *)
(* src/sources/baostock/valuation_percentile.py): the two ways they are    *)
(* computed from the daily bars, all at once with rolling windows or only  *)
(* for the new rows, and the update that plans, computes and merges them,  *)
(* while the bars grow or are restated behind it.                          *)
(*                                                                         *)
(* A date is 3 * year + day: day 0 or 1, and 2 in a leap year only.  A     *)
(* percentile is <<part, whole>>.  Securities are updated one after the    *)
(* other and the fields are computed apart.                                *)
(***************************************************************************)
EXTENDS Integers, Sequences, FiniteSets

CONSTANTS
    LeapYears,
    LastYear,       \* years are 0 .. LastYear
    BarValues,      \* of the field in a new bar
    RestatedValues, \* and in one that changes; 0 is a missing value or a zero
    Windows,        \* the lengths of the fixed windows, in years
    MaxBars,        \* bound: rows of the source
    MaxRestated,    \* bound: bars that change behind the last one
    MaxRuns         \* bound: runs planned

ASSUME PercentileAssumption ==
    /\ LastYear \in Nat /\ LeapYears \subseteq 0..LastYear
    /\ BarValues \cup RestatedValues \subseteq Int /\ Windows \subseteq Nat \ {0}
    /\ {MaxBars, MaxRestated, MaxRuns} \subseteq Nat

BarDates == {3 * y + d : y \in 0..LastYear, d \in 0..1} \cup {3 * y + 2 : y \in LeapYears}

VARIABLES
    bars,           \* the source: from dates to values
    percentiles,    \* the output: from dates to the percentile of each window
    covered,        \* the checkpoints that say success, <<start, end>>
    pctTask,        \* the task of a run that was planned, or NoTask
    restated,       \* how many bars changed behind the last one
    pctRuns,        \* how many runs were planned
    outdated        \* history: dates whose row the update has not computed since a bar
                    \* at or before them changed, or since a forced start passed over them

percentileVars == <<bars, percentiles, covered, pctTask, restated, pctRuns, outdated>>

NoDate == -1
NoTask == [mode |-> "none", start |-> NoDate, end |-> NoDate, first |-> NoDate]
Undefined == <<0, 0>>
AllHistory == 0     \* beside the windows of some years

PercentileInit ==
    /\ bars = <<>> /\ percentiles = <<>> /\ covered = {} /\ pctTask = NoTask
    /\ restated = 0 /\ pctRuns = 0 /\ outdated = {}

FirstOf(S) == CHOOSE d \in S : \A e \in S : d <= e
LastOf(S) == CHOOSE d \in S : \A e \in S : d >= e

\* _subtract_years: the last day of a leap year has no anniversary in other years.
SubtractYears(d, years) ==
    IF d % 3 = 2 /\ (d \div 3) - years \notin LeapYears THEN d - 3 * years - 1 ELSE d - 3 * years

\* _is_valid_valuation
ValidDates == {d \in DOMAIN bars : bars[d] # 0}

\* The dates in order, and the place of each value among the distinct ones.
Ordered == [n \in 1..Cardinality(DOMAIN bars) |->
              CHOOSE d \in DOMAIN bars : Cardinality({e \in DOMAIN bars : e <= d}) = n]
Distinct == {bars[d] : d \in ValidDates}
IndexOf(v) == Cardinality({u \in Distinct : u <= v})

-----------------------------------------------------------------------------
(* _FenwickTree: node n of a tree holds the sum of the LowBit(n) indexes   *)
(* that end at n.                                                          *)

\* index & -index
LowBit(n) ==
    LET bit[m \in 1..n] == IF m % 2 = 1 THEN 1 ELSE 2 * bit[m \div 2] IN bit[n]

TreeSize == Cardinality(Distinct)

EmptyTree == [n \in 1..TreeSize |-> 0]

\* add
TreeAdd(tree, index, delta) ==
    LET path[n \in 1..2 * TreeSize] == IF n > TreeSize THEN {} ELSE {n} \cup path[n + LowBit(n)]
        nodes == path[index]
    IN [n \in 1..TreeSize |-> IF n \in nodes THEN tree[n] + delta ELSE tree[n]]

\* prefix_sum
PrefixSum(tree, index) ==
    LET sum[n \in 0..TreeSize] == IF n = 0 THEN 0 ELSE tree[n] + sum[n - LowBit(n)] IN sum[index]

-----------------------------------------------------------------------------
(* _RollingCounts: the samples of a window and their counts.               *)

NewCounts == [samples |-> <<>>, all |-> EmptyTree, positive |-> EmptyTree, negative |-> EmptyTree]

\* _add_sample
Counted(c, d, delta) ==
    LET v == bars[d] tree(t) == TreeAdd(t, IndexOf(v), delta) IN
    [c EXCEPT !.all = tree(@),
              !.positive = IF v > 0 THEN tree(@) ELSE @,
              !.negative = IF v < 0 THEN tree(@) ELSE @]

\* add
SampleAdded(c, d) == [Counted(c, d, 1) EXCEPT !.samples = Append(@, d)]

\* Mutant: the sample at the threshold leaves the window.
EvictedThrough(c, threshold) ==
    LET drop[n \in 0..Len(c.samples)] ==
          IF n = 0 THEN c
          ELSE IF c.samples[n] <= threshold
               THEN [Counted(drop[n - 1], c.samples[n], -1) EXCEPT !.samples = Tail(@)]
               ELSE drop[n - 1]
    IN drop[Len(c.samples)]

\* evict_before: samples are in the order of their dates.
EvictedBefore(c, threshold) ==
    LET drop[n \in 0..Len(c.samples)] ==
          IF n = 0 THEN c
          ELSE IF c.samples[n] < threshold
               THEN [Counted(drop[n - 1], c.samples[n], -1) EXCEPT !.samples = Tail(@)]
               ELSE drop[n - 1]
    IN drop[Len(c.samples)]

\* percentile
CountedPercentile(c, v) ==
    LET total(t) == PrefixSum(t, TreeSize)
        upTo(t) == PrefixSum(t, IndexOf(v))
        below == PrefixSum(c.negative, IndexOf(v) - 1)
    IN CASE v < 0 -> <<total(c.positive) + total(c.negative) - below, total(c.all)>>
         [] v > 0 /\ total(c.negative) > 0 -> <<upTo(c.positive), total(c.positive)>>
         [] OTHER -> <<upTo(c.all), total(c.all)>>

-----------------------------------------------------------------------------
(* compute_valuation_percentiles                                           *)

\* _compute_all_history_percentiles: ranks among the positive values, and from the
\* other end among the negative ones.
AllHistoryPercentile(d) ==
    LET v == bars[d]
        until == {e \in ValidDates : e <= d}
        positive == {e \in until : bars[e] > 0}
        atMost == {e \in positive : bars[e] <= v}
        atLeast == {e \in until \ positive : bars[e] >= v}
    IN IF v > 0 THEN <<Cardinality(atMost), Cardinality(positive)>>
       ELSE <<Cardinality(positive) + Cardinality(atLeast), Cardinality(until)>>

\* _compute_field_percentiles: the windows roll over the rows.
CountsAt(w) ==
    LET counts[n \in 0..Len(Ordered)] ==
          IF n = 0 THEN NewCounts
          ELSE LET d == Ordered[n]
                   c == EvictedBefore(counts[n - 1], SubtractYears(d, w))
               IN IF bars[d] = 0 THEN c ELSE SampleAdded(c, d)
    IN counts

\* A window has a percentile once it is as long as the history.
LongEnough(d, w) == FirstOf(ValidDates) <= SubtractYears(d, w)

Computed ==
    LET counts == [w \in Windows |-> CountsAt(w)]
        row(n, w) == LET d == Ordered[n] IN
            CASE bars[d] = 0 -> Undefined
              [] bars[d] # 0 /\ w = AllHistory -> AllHistoryPercentile(d)
              [] OTHER -> IF LongEnough(d, w) THEN CountedPercentile(counts[w][n], bars[d])
                          ELSE Undefined
        at(d) == CHOOSE n \in DOMAIN Ordered : Ordered[n] = d
    IN [d \in DOMAIN bars |-> [w \in Windows \cup {AllHistory} |-> row(at(d), w)]]

\* _percentile_from_values, of the values at these dates
PercentileFromValues(dates, v) ==
    LET positive == {e \in dates : bars[e] > 0}
        negative == {e \in dates : bars[e] < 0}
        notAbove(S) == Cardinality({e \in S : bars[e] <= v})
    IN CASE dates = {} -> Undefined
         [] dates # {} /\ v < 0 -> <<Cardinality(positive) + Cardinality({e \in negative : bars[e] >= v}),
                                      Cardinality(dates)>>
         [] v > 0 /\ negative # {} -> <<notAbove(positive), Cardinality(positive)>>
         [] OTHER -> <<notAbove(dates), Cardinality(dates)>>

\* _compute_append_only_valuation_percentiles: only the rows after the last one stored,
\* each from its own samples.
AppendOnly(fresh) ==
    LET sample(d, w) == {e \in ValidDates : e <= d /\ (w # AllHistory => e >= SubtractYears(d, w))}
        row(d, w) == IF bars[d] # 0 /\ (w # AllHistory => LongEnough(d, w))
                     THEN PercentileFromValues(sample(d, w), bars[d]) ELSE Undefined
    IN [d \in fresh |-> [w \in Windows \cup {AllHistory} |-> row(d, w)]]

-----------------------------------------------------------------------------
(* The update                                                              *)

\* The daily update adds a bar.
BarAdded(d, v) ==
    /\ Cardinality(DOMAIN bars) < MaxBars
    /\ \A e \in DOMAIN bars : e < d
    /\ bars' = [e \in DOMAIN bars \cup {d} |-> IF e = d THEN v ELSE bars[e]]
    /\ UNCHANGED <<percentiles, covered, pctTask, restated, pctRuns, outdated>>

\* A repair, or a download that overlaps the history, changes or adds an earlier one.
BarRestated(d, v) ==
    /\ restated < MaxRestated /\ restated' = restated + 1
    /\ percentiles # <<>>     \* before that it is the same as other bars from the start
    /\ d <= LastOf(DOMAIN bars)
    /\ d \notin DOMAIN bars => Cardinality(DOMAIN bars) < MaxBars
    /\ bars' = [e \in DOMAIN bars \cup {d} |-> IF e = d THEN v ELSE bars[e]]
    /\ outdated' = outdated \cup {e \in DOMAIN bars' : e >= d}
    /\ UNCHANGED <<percentiles, covered, pctTask, pctRuns>>

\* _partial_existing_covers_source
Covers(mode, start, end) ==
    mode = "partial" /\ start = NoDate /\ percentiles # <<>> /\ LastOf(DOMAIN percentiles) >= end

\* _checkpoint_start_date
CheckpointStart(mode, start) ==
    CASE mode = "full" -> FirstOf(DOMAIN bars)
      [] mode = "partial" /\ start # NoDate -> start
      [] OTHER -> IF percentiles = <<>> THEN FirstOf(DOMAIN bars) ELSE LastOf(DOMAIN percentiles)

\* _prefilter_valuation_percentile_tasks: the ranges of source and output are read, and
\* unless forced a task is left out whose range is covered or has succeeded before.
PlanPercentiles(mode, start, force) ==
    /\ pctTask = NoTask /\ bars # <<>>
    /\ pctRuns < MaxRuns /\ pctRuns' = pctRuns + 1
    /\ start # NoDate => mode = "partial" /\ force
    /\ LET end == LastOf(DOMAIN bars)
           first == CheckpointStart(mode, start)
       IN /\ ~force => ~ Covers(mode, start, end)
                       /\ ~ (percentiles # <<>> /\ <<first, end>> \in covered)
          /\ pctTask' = [mode |-> mode, start |-> start, end |-> end, first |-> first]
    /\ UNCHANGED <<bars, percentiles, covered, restated, outdated>>

\* _select_rows_for_mode, or the rows of the append-only computation
SelectedDates(t) ==
    CASE t.mode = "partial" /\ t.start # NoDate -> {d \in DOMAIN bars : d >= t.start}
      [] t.mode = "partial" /\ t.start = NoDate /\ percentiles # <<>> ->
           {d \in DOMAIN bars : d > LastOf(DOMAIN percentiles)}
      [] OTHER -> DOMAIN bars

Selected(t) ==
    LET rows == IF t.mode = "partial" /\ t.start = NoDate /\ percentiles # <<>>
                THEN AppendOnly(SelectedDates(t)) ELSE Computed
    IN [d \in SelectedDates(t) |-> rows[d]]

\* _merge_output_for_mode
Merged(t, rows) ==
    LET old == CASE t.mode = "full" -> {}
                 [] t.mode = "partial" /\ t.start = NoDate -> DOMAIN percentiles
                 [] OTHER -> {d \in DOMAIN percentiles : d < t.start}
    IN [d \in old \cup DOMAIN rows |-> IF d \in DOMAIN rows THEN rows[d] ELSE percentiles[d]]

\* Nothing to add: the row of the checkpoint says skipped_existing.
TaskSkipped ==
    /\ pctTask # NoTask
    /\ Covers(pctTask.mode, pctTask.start, pctTask.end) \/ SelectedDates(pctTask) = {}
    /\ covered' = covered \ {<<pctTask.first, pctTask.end>>}
    /\ pctTask' = NoTask
    /\ UNCHANGED <<bars, percentiles, restated, pctRuns, outdated>>

\* The bars after the output and before a forced start, which no row is computed for.
PassedOver(t) ==
    {d \in DOMAIN bars : d < t.start /\ \A e \in DOMAIN percentiles : e < d}

\* The output is written and the task succeeds.
TaskWritten ==
    /\ pctTask # NoTask
    /\ ~ Covers(pctTask.mode, pctTask.start, pctTask.end)
    /\ LET rows == Selected(pctTask) IN
       /\ DOMAIN rows # {}
       /\ percentiles' = Merged(pctTask, rows)
       /\ covered' = covered \cup {<<FirstOf(DOMAIN rows), pctTask.end>>}
       /\ outdated' = (outdated \cup PassedOver(pctTask)) \ DOMAIN rows
    /\ pctTask' = NoTask
    /\ UNCHANGED <<bars, restated, pctRuns>>

\* A read, the computation or the write fails, or the run is killed.
TaskFails ==
    /\ pctTask # NoTask
    /\ covered' = covered \ {<<pctTask.start, pctTask.start>>}
    /\ pctTask' = NoTask
    /\ UNCHANGED <<bars, percentiles, restated, pctRuns, outdated>>

PercentileNext ==
    \/ \E d \in BarDates :
          \/ \E v \in BarValues : BarAdded(d, v)
          \/ \E v \in RestatedValues : BarRestated(d, v)
    \/ \E mode \in {"full", "partial"}, start \in BarDates \cup {NoDate}, force \in BOOLEAN :
          PlanPercentiles(mode, start, force)
    \/ TaskSkipped \/ TaskWritten \/ TaskFails

PercentileSpec == PercentileInit /\ [][PercentileNext]_percentileVars

-----------------------------------------------------------------------------

\* What a percentile is: among the positive values of the window for a positive one, and
\* for a negative one among all of them, the negative ones being the dearest and the
\* dearer the further from zero.
PercentileOf(d, w) ==
    LET v == bars[d]
        first == FirstOf(ValidDates)
        from == IF w = AllHistory THEN first ELSE SubtractYears(d, w)
        sample == {e \in ValidDates : from <= e /\ e <= d}
        ranked == IF v > 0 THEN {e \in sample : bars[e] > 0} ELSE sample
        notDearer == {e \in ranked : IF v > 0 THEN bars[e] <= v ELSE bars[e] > 0 \/ bars[e] >= v}
    IN IF v = 0 \/ first > from THEN Undefined ELSE <<Cardinality(notDearer), Cardinality(ranked)>>

\* Whatever sequence of full, partial and forced runs computed them, over whatever bars
\* and leap days, all at once (valuation_percentile.py:214) or appended (line 265), the
\* rows from the first to the last one stored are there and are the percentiles of the
\* bars as they are, but those a later change of an earlier bar has outdated and those a
\* forced start behind the output passed over (line 714).
PercentilesAreFull ==
    percentiles # <<>> =>
        \A d \in DOMAIN bars \ outdated :
            FirstOf(DOMAIN percentiles) <= d /\ d <= LastOf(DOMAIN percentiles) =>
                /\ d \in DOMAIN percentiles
                /\ \A w \in Windows \cup {AllHistory} : percentiles[d][w] = PercentileOf(d, w)

=============================================================================
