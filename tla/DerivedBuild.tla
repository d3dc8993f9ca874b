---------------------------- MODULE DerivedBuild ----------------------------
(***************************************************************************)
(* The incremental build of one curated dataset (cn_stock_daily_bar or     *)
(* cn_stock_valuation; src/sources/derived/) and the write ledger          *)
(* dataset_partition_manifest that tells it what has changed.              *)
(*                                                                         *)
(* A source partition is a file and a ledger row that holds the hash of    *)
(* its content; a writer replaces the file first and the row second.  A    *)
(* derived partition is a directory and a ledger row that holds the        *)
(* signature (the hashes in the source rows, and the security's master     *)
(* row) it was built from; the builder renames the old directory away,     *)
(* renames the new one in, and writes the row last.  The planner rebuilds  *)
(* a security only when its current signature differs from that row.       *)
(*                                                                         *)
(* What a partition was built from is remembered in the partition itself,  *)
(* which the code cannot see: `part` is data, `sig` is the code's record   *)
(* of it, and the properties compare the two.                              *)
(***************************************************************************)
EXTENDS Naturals, FiniteSets

CONSTANTS
    Securities,     \* the security_ids the master may list
    Sources,        \* source partitions: a dataset and a provider code
    SourcesOf,      \* the source partitions that feed each security
    Versions,       \* contents of a source partition, told apart by semantic_hash
    Rows,           \* contents of a row of cn_security_master
    Modes,          \* kinds of build requested: "incremental", "full", "explicit"
    Orchestrated,   \* builds start, and sources change, as the daily workflow
                    \* orders them: not while the other is unfinished
    Nothing,        \* no file, no row, no partition
    Unsigned,       \* the empty signature of a row the ledger rebuild wrote
    MaxChanges,     \* bound: source writes, master changes, derived ledger rebuilds
    MaxFaults       \* bound: builds and writers that fail

Provenance(s) ==
    [src : [SourcesOf[s] -> Versions \cup {Nothing}], row : Rows]   \* what a derived partition may be built from

\* A staged partition and the signature its ledger row will carry.
Staged(s) == [from : Provenance(s), claim : Provenance(s)]

ASSUME ConstantsAssumption ==
    /\ SourcesOf \in [Securities -> SUBSET Sources]
    /\ Nothing \notin Versions \cup Rows /\ Nothing # Unsigned
    /\ \A s \in Securities :
        /\ Nothing \notin Provenance(s) /\ Unsigned \notin Provenance(s)
        /\ Nothing \notin Staged(s)
    /\ Modes \subseteq {"incremental", "full", "explicit"}
    /\ Orchestrated \in BOOLEAN
    /\ MaxChanges \in Nat /\ MaxFaults \in Nat

VARIABLES
    content,    \* content of each source partition's file
    entry,      \* content each source partition's ledger row was computed from
    writing,    \* source partitions replaced, their ledger row not yet written
    owed,       \* those whose writer failed there: its step will be run again
    master,     \* row of each security in cn_security_master
    part,       \* provenance of each derived partition on disk
    sig,        \* provenance each derived ledger row claims
    pc,         \* where the builder is
    mode,       \* the kind of build it is doing
    todo,       \* securities still to materialise
    cache,      \* source partitions listed when the target's build began
    made,       \* what the last materialisation read: a security, a provenance
    staged,     \* provenance and signature of what is staged
    aside,      \* partitions renamed to the backup directory
    unrec,      \* promoted securities whose ledger row is not yet written
    torn,       \* history: promoted, and the builder failed before the row
    changes, faults

sourceVars == <<content, entry, writing, owed>>
ledgerVars == <<part, sig, torn>>
jobVars == <<mode, todo, cache, made, staged, aside, unrec>>
vars == <<sourceVars, master, ledgerVars, pc, jobVars, changes, faults>>

-----------------------------------------------------------------------------
(* Provenances                                                             *)

\* Source partitions of a security that exist (source_partition_pairs_for_security).
Pairs(s) == {x \in SourcesOf[s] : content[x] # Nothing}

Listed == {s \in Securities : master[s] # Nothing}

\* What a security's partition is built from if it is built now.
Now(s) == [src |-> [x \in SourcesOf[s] |-> content[x]], row |-> master[s]]

\* What the partition should hold; a security with no source has none.
Wanted(s) == IF Pairs(s) = {} THEN Nothing ELSE Now(s)

\* A ledger row that is missing is computed from the file (rebuild_missing).
EntryOrRebuilt(x) == IF entry[x] = Nothing THEN content[x] ELSE entry[x]

\* current_source_signature_for_security: what the ledger says of the sources.
Signature(s) ==
    [src |-> [x \in SourcesOf[s] |->
                IF content[x] = Nothing THEN Nothing ELSE EntryOrRebuilt(x)],
     row |-> master[s]]

\* Rows that computing the signatures of the securities in S adds to the ledger.
RebuiltFor(S) ==
    [x \in Sources |-> IF \E s \in S : x \in Pairs(s)
                       THEN EntryOrRebuilt(x) ELSE entry[x]]

-----------------------------------------------------------------------------
(* The planner                                                             *)

\* Mutant: only the hash of the master row is compared.
ChangedMaster(s) ==
    IF Pairs(s) = {} THEN part[s] # Nothing
    ELSE \/ part[s] = Nothing \/ sig[s] \in {Nothing, Unsigned}
         \/ sig[s].row # master[s]

\* Mutant: the ledger row is trusted without looking for the partition.
ChangedSignature(s) ==
    IF Pairs(s) = {} THEN part[s] # Nothing ELSE sig[s] # Signature(s)

\* _changed_security_ids_for_target, for one listed security.
Changed(s) ==
    IF Pairs(s) = {} THEN part[s] # Nothing
                     ELSE part[s] = Nothing \/ sig[s] # Signature(s)

Skipped(s) == s \in Listed /\ ~Changed(s)

-----------------------------------------------------------------------------
Init ==
    /\ content \in [Sources -> Versions \cup {Nothing}]
    /\ \E known \in SUBSET Sources :    \* a checkout from before the ledger has no rows
        entry = [x \in Sources |-> IF x \in known THEN content[x] ELSE Nothing]
    /\ writing = {} /\ owed = {}
    /\ master = [s \in Securities |-> Nothing]
    /\ part = [s \in Securities |-> Nothing]
    /\ sig = [s \in Securities |-> Nothing]
    /\ torn = {}
    /\ pc = "idle" /\ mode = "incremental"
    /\ todo = {} /\ cache = {} /\ made = Nothing
    /\ staged = [s \in Securities |-> Nothing]
    /\ aside = [s \in Securities |-> Nothing]
    /\ unrec = {}
    /\ changes = 0 /\ faults = 0

-----------------------------------------------------------------------------
(* Source writers                                                          *)

\* No source is half written.
SourcesAtRest == writing = {} /\ owed = {}

\* Under the daily workflow no source step runs beside the derived step.
MayWrite == Orchestrated => pc = "idle"

\* atomic_write: the file is replaced; the ledger row still has the old hash.
WriteFile(x, v) ==
    /\ MayWrite /\ changes < MaxChanges
    /\ x \notin writing
    /\ content' = [content EXCEPT ![x] = v]
    /\ writing' = writing \cup {x}
    /\ changes' = changes + 1
    /\ UNCHANGED <<entry, owed, master, ledgerVars, pc, jobVars, faults>>

\* _upsert_partition_manifest_after_write: the row of what was just written.
WriteEntry(x) ==
    /\ x \in writing
    /\ entry' = [entry EXCEPT ![x] = content[x]]
    /\ writing' = writing \ {x}
    /\ owed' = owed \ {x}
    /\ UNCHANGED <<content, master, ledgerVars, pc, jobVars, changes, faults>>

\* The writer dies, or the ledger cannot be opened, between the two.
WriterFails(x) ==
    /\ x \in writing /\ faults < MaxFaults
    /\ writing' = writing \ {x}
    /\ owed' = owed \cup {x}
    /\ faults' = faults + 1
    /\ UNCHANGED <<content, entry, master, ledgerVars, pc, jobVars, changes>>

\* Its step is run again: no checkpoint was saved, so the same rows are
\* fetched and merged, and the file is replaced by the same content.
WriteAgain(x) ==
    /\ MayWrite
    /\ x \in owed \ writing
    /\ writing' = writing \cup {x}
    /\ UNCHANGED <<content, entry, owed, master, ledgerVars, pc, jobVars, changes, faults>>

\* qdc rebuild-partition-manifest: a row recomputed from its file, when it is
\* missing or --force is given.
RebuildEntry(x) ==
    /\ MayWrite
    /\ content[x] # Nothing
    /\ entry' = [entry EXCEPT ![x] = content[x]]
    /\ UNCHANGED <<content, writing, owed, master, ledgerVars, pc, jobVars, changes, faults>>

\* The same with --include-derived: the row of a derived partition is written
\* with an empty signature.
RebuildDerivedEntry(s) ==
    /\ MayWrite /\ changes < MaxChanges
    /\ part[s] # Nothing
    /\ sig' = [sig EXCEPT ![s] = Unsigned]
    /\ changes' = changes + 1
    /\ UNCHANGED <<sourceVars, master, part, torn, pc, jobVars, faults>>

-----------------------------------------------------------------------------
(* The builder.  The build-derived lock admits one at a time.              *)

\* build_derived_datasets takes the lock.
StartBuild(m) ==
    /\ pc = "idle"
    /\ Orchestrated => SourcesAtRest
    /\ mode' = m
    /\ pc' = "master"
    /\ UNCHANGED <<sourceVars, master, ledgerVars, todo, cache, made, staged, aside,
                   unrec, changes, faults>>

\* build_security_master: rewritten in full from the basics and the quotes,
\* which may have changed since the last build.
BuildMaster ==
    /\ pc = "master"
    /\ \/ UNCHANGED <<master, changes>>
       \/ /\ changes < MaxChanges
          /\ master' \in [Securities -> Rows \cup {Nothing}] \ {master}
          /\ changes' = changes + 1
    /\ pc' = "plan"
    /\ UNCHANGED <<sourceVars, ledgerVars, jobVars, faults>>

\* Start of a target: what to build, and the source partitions that exist.
Begin(S) ==
    /\ todo' = S
    /\ cache' = {x \in Sources : content[x] # Nothing}
    /\ pc' = "read"

\* _resolve_incremental_plan, from the ledger.
PlanIncremental ==
    /\ pc = "plan" /\ mode = "incremental" /\ Listed # {}
    /\ Begin({s \in Listed : Changed(s)})
    /\ entry' = RebuiltFor({s \in Listed : part[s] # Nothing})
    /\ UNCHANGED <<content, writing, owed, master, ledgerVars, mode, made, staged,
                   aside, unrec, changes, faults>>

\* --security-id: the planner is not asked.
PlanExplicit ==
    /\ pc = "plan" /\ mode = "explicit"
    /\ \E S \in SUBSET Listed : Begin(S)
    /\ UNCHANGED <<sourceVars, master, ledgerVars, mode, made, staged, aside, unrec,
                   changes, faults>>

\* --mode full, and the fallback when the master is empty: every listed
\* security that has a source partition.
PlanFull ==
    /\ pc = "plan"
    /\ mode = "full" \/ (mode = "incremental" /\ Listed = {})
    /\ mode' = "full"
    /\ Begin({s \in Listed : Pairs(s) # {}})
    /\ UNCHANGED <<sourceVars, master, ledgerVars, made, staged, aside, unrec,
                   changes, faults>>

\* Partitions that one swap replaces: all of them, or the one just staged.
Unit == IF mode = "full" THEN Securities ELSE {s \in Securities : staged[s] # Nothing}

NoneOf == [s \in Securities |-> Nothing]

\* What the cached listing lets the builder read for a security.
Readable(s) ==
    [src |-> [x \in SourcesOf[s] |-> IF x \in cache THEN content[x] ELSE Nothing],
     row |-> master[s]]

\* _materialize_security_*: the source files are read, some rows come out.
Materialize(s) ==
    /\ pc = "read" /\ s \in todo
    /\ cache \cap Pairs(s) # {}
    /\ made' = [sec |-> s, from |-> Readable(s)]
    /\ todo' = todo \ {s}
    /\ pc' = "sign"
    /\ UNCHANGED <<sourceVars, master, ledgerVars, mode, cache, staged, aside, unrec,
                   changes, faults>>

\* Only then is the ledger read for the signature, and the partition staged.
SignAndStage ==
    /\ pc = "sign"
    /\ entry' = RebuiltFor({made.sec})
    /\ staged' = [staged EXCEPT ![made.sec] =
                    [from |-> made.from, claim |-> Signature(made.sec)]]
    /\ pc' = IF mode = "full" THEN "read" ELSE "swap"
    /\ UNCHANGED <<content, writing, owed, master, ledgerVars, mode, todo, cache, made,
                   aside, unrec, changes, faults>>

\* Nothing to read: a full build passes the security over; an incremental
\* one removes its partition ...
MaterializeEmpty(s) ==
    /\ pc = "read" /\ s \in todo
    /\ cache \cap Pairs(s) = {}
    /\ todo' = todo \ {s}
    /\ IF mode = "full"
       THEN UNCHANGED <<pc, part, torn, unrec>>
       ELSE /\ part' = [part EXCEPT ![s] = Nothing]
            /\ torn' = torn \ {s}
            /\ unrec' = {s}
            /\ pc' = "forget"
    /\ UNCHANGED <<sourceVars, master, sig, mode, cache, made, staged, aside,
                   changes, faults>>

\* ... and then its ledger row.
Forget ==
    /\ pc = "forget"
    /\ sig' = [s \in Securities |-> IF s \in unrec THEN Nothing ELSE sig[s]]
    /\ unrec' = {}
    /\ pc' = "read"
    /\ UNCHANGED <<sourceVars, master, part, torn, mode, todo, cache, made, staged, aside,
                   changes, faults>>

\* commit_derived_*_staging, first rename: what is there goes to the backup.
SwapAway ==
    /\ \/ pc = "swap"
       \/ pc = "read" /\ mode = "full" /\ todo = {}
    /\ aside' = [s \in Securities |-> IF s \in Unit THEN part[s] ELSE Nothing]
    /\ part' = [s \in Securities |-> IF s \in Unit THEN Nothing ELSE part[s]]
    /\ pc' = "promote"
    /\ UNCHANGED <<sourceVars, master, sig, torn, mode, todo, cache, made, staged, unrec,
                   changes, faults>>

\* Second rename: what is staged takes its place, and the backup is removed.
Promote ==
    /\ pc = "promote"
    /\ part' = [s \in Securities |-> IF staged[s] # Nothing THEN staged[s].from ELSE part[s]]
    /\ unrec' = {s \in Securities : staged[s] # Nothing}
    /\ torn' = torn \ Unit
    /\ aside' = NoneOf
    /\ pc' = "record"
    /\ UNCHANGED <<sourceVars, master, sig, mode, todo, cache, made, staged, changes,
                   faults>>

\* What is local to build_derived_datasets goes with it.
DropLocals ==
    /\ mode' = "incremental"
    /\ todo' = {} /\ cache' = {} /\ made' = Nothing
    /\ staged' = NoneOf /\ aside' = NoneOf /\ unrec' = {}

\* The second rename raises: the backup is renamed back if it can be, and is
\* removed with the staging directory otherwise.
PromoteFails ==
    /\ pc = "promote" /\ faults < MaxFaults
    /\ \/ part' = [s \in Securities |-> IF s \in Unit THEN aside[s] ELSE part[s]]
       \/ UNCHANGED part
    /\ pc' = "idle" /\ DropLocals
    /\ faults' = faults + 1
    /\ UNCHANGED <<sourceVars, master, sig, torn, changes>>

\* Mutant: the row is written with the signature of the last security of the
\* loop before.
RecordLast(s) ==
    /\ pc = "record" /\ s \in unrec
    /\ sig' = [sig EXCEPT ![s] = staged[made.sec].claim]
    /\ unrec' = unrec \ {s}
    /\ UNCHANGED <<sourceVars, master, part, torn, pc, mode, todo, cache, made, staged, aside,
                   changes, faults>>

\* upsert_derived_partition_manifest
Record(s) ==
    /\ pc = "record" /\ s \in unrec
    /\ sig' = [sig EXCEPT ![s] = staged[s].claim]
    /\ unrec' = unrec \ {s}
    /\ UNCHANGED <<sourceVars, master, part, torn, pc, mode, todo, cache, made, staged, aside,
                   changes, faults>>

\* The last row is written: on to the next security, or to the cleanup.
Recorded ==
    /\ pc = "record" /\ unrec = {}
    /\ staged' = NoneOf
    /\ pc' = IF mode = "full" THEN "cleanup" ELSE "read"
    /\ UNCHANGED <<sourceVars, master, ledgerVars, mode, todo, cache, made, aside, unrec,
                   changes, faults>>

\* Mutant: only the rows of securities that are still listed are looked at.
StaleListed == {s \in Listed : sig[s] # Nothing /\ part[s] = Nothing}

\* cleanup_stale_derived_manifests, one row at a time.
Stale == {s \in Securities : sig[s] # Nothing /\ part[s] = Nothing}

CleanUp(s) ==
    /\ pc = "cleanup" /\ s \in Stale
    /\ sig' = [sig EXCEPT ![s] = Nothing]
    /\ UNCHANGED <<sourceVars, master, part, torn, pc, jobVars, changes, faults>>

FinishBuild ==
    /\ \/ pc = "read" /\ mode # "full" /\ todo = {}
       \/ pc = "cleanup" /\ Stale = {}
    /\ pc' = "idle" /\ DropLocals
    /\ UNCHANGED <<sourceVars, master, ledgerVars, changes, faults>>

\* The builder dies, or a step raises: staging is dropped, and what was
\* promoted but not recorded keeps its old ledger row.
BuildFails ==
    /\ pc # "idle" /\ faults < MaxFaults
    /\ torn' = IF pc = "record" THEN torn \cup unrec ELSE torn
    /\ pc' = "idle" /\ DropLocals
    /\ faults' = faults + 1
    /\ UNCHANGED <<sourceVars, master, part, sig, changes>>

-----------------------------------------------------------------------------
Write(x) ==
    \/ \E v \in Versions : WriteFile(x, v)
    \/ WriteEntry(x)
    \/ WriterFails(x)
    \/ WriteAgain(x)
    \/ RebuildEntry(x)

BuildOne(s) ==
    \/ Materialize(s)
    \/ MaterializeEmpty(s)
    \/ Record(s)
    \/ CleanUp(s)

BuildStep ==
    \/ BuildMaster
    \/ PlanIncremental \/ PlanExplicit \/ PlanFull
    \/ \E s \in Securities : BuildOne(s)
    \/ SignAndStage \/ Forget
    \/ SwapAway \/ Promote
    \/ Recorded \/ FinishBuild

Next ==
    \/ \E x \in Sources : Write(x)
    \/ \E s \in Securities : RebuildDerivedEntry(s)
    \/ \E m \in Modes : StartBuild(m)
    \/ BuildStep
    \/ PromoteFails
    \/ BuildFails

Spec == Init /\ [][Next]_vars

\* A build that is running goes on; the scheduler starts one every day, and
\* manual builds do not hold the lock every time it does; a failed source step
\* is run again.
Fairness ==
    /\ WF_vars(BuildStep)
    /\ SF_vars(StartBuild("incremental"))
    /\ \A x \in Sources : WF_vars(WriteEntry(x)) /\ WF_vars(WriteAgain(x))

FairSpec == Spec /\ Fairness

-----------------------------------------------------------------------------
(* Properties                                                              *)

Places == {"idle", "master", "plan", "read", "sign", "swap", "promote", "record",
           "forget", "cleanup"}

MaybeProvenance(s) == Provenance(s) \cup {Nothing}

\* Type invariant: a partition on disk and a signed ledger row each hold one
\* master row and one version, or the absence, of every source partition of
\* their own security, never those of another one.
TypeOK ==
    /\ content \in [Sources -> Versions \cup {Nothing}]
    /\ entry \in [Sources -> Versions \cup {Nothing}]
    /\ writing \subseteq Sources /\ owed \subseteq Sources
    /\ master \in [Securities -> Rows \cup {Nothing}]
    /\ DOMAIN part = Securities /\ DOMAIN sig = Securities
    /\ \A s \in Securities :
        /\ part[s] \in MaybeProvenance(s)
        /\ sig[s] \in MaybeProvenance(s) \cup {Unsigned}
    /\ pc \in Places /\ mode \in {"incremental", "full", "explicit"}
    /\ todo \subseteq Securities /\ cache \subseteq Sources
    /\ unrec \subseteq Securities /\ torn \subseteq Securities
    /\ changes \in 0..MaxChanges /\ faults \in 0..MaxFaults

\* When nothing is running and no source is half written, every listed
\* security the planner would pass over (update.py:192-235) already has the
\* partition its sources and its master row call for, unless a builder failed
\* between promoting it and recording it.
SkippedIsCurrent ==
    pc = "idle" /\ SourcesAtRest =>
        \A s \in Securities \ torn : Skipped(s) => part[s] = Wanted(s)

\* The same without the exception: what README.md:78 says of the change
\* detection, that it rebuilds the changed partitions.
PlannerSeesEveryChange ==
    pc = "idle" /\ SourcesAtRest =>
        \A s \in Securities : Skipped(s) => part[s] = Wanted(s)

\* A full build that ends leaves exactly the partitions the sources and the
\* master call for, each with the row that says so, and no row without its
\* partition (stock_daily_bar.py:67-112): the manual repair path.
FullBuildRepairs ==
    [][pc = "cleanup" /\ pc' = "idle" /\ faults' = faults =>
        \A s \in Securities :
            /\ part'[s] = IF s \in Listed THEN Wanted(s) ELSE Nothing
            /\ sig'[s] = part'[s]
            /\ s \notin torn']_vars

\* Once the sources and the master stop changing, the daily incremental builds
\* bring every listed security's partition up to date, and no later build of any
\* kind leaves it otherwise, whatever failed before, unless a builder failed
\* between promoting and recording it.
EventuallyCurrent ==
    <>[](pc = "idle" => \A s \in Listed \ torn : part[s] = Wanted(s))

=============================================================================
