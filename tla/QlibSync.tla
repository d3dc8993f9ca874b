------------------------------- MODULE QlibSync -------------------------------
(***************************************************************************)
(* The sync of the Qlib data set (file src/sources/qlib/sync.py): the      *)
(* latest release is downloaded, replaces the local source directory and   *)
(* is converted to parquet, first the calendar and the instruments, then   *)
(* one partition per symbol.  A run is over when its deadline is; a kill   *)
(* leaves the archive, no source directory or a partly converted one.      *)
(*                                                                         *)
(* A release is a number; it has a last day, a size and a set of symbols.  *)
(***************************************************************************)
EXTENDS Integers, Sequences, FiniteSets

CONSTANTS
    Releases,       \* the releases, in order: [latest, size, symbols]
    QlibSymbols,
    MaxTarget       \* bound on the target date

ReleaseType == [latest : Nat \ {0}, size : Nat \ {0}, symbols : SUBSET QlibSymbols]

\* The provider adds days: a later release does not end earlier.
ASSUME QlibAssumption ==
    /\ MaxTarget \in Nat
    /\ Releases \in Seq(ReleaseType) /\ Releases # <<>>
    /\ \A r, q \in DOMAIN Releases : r <= q => Releases[r].latest <= Releases[q].latest

NoRelease == 0
Latest(r) == IF r = NoRelease THEN 0 ELSE Releases[r].latest
Symbols(r) == IF r = NoRelease THEN {} ELSE Releases[r].symbols

VARIABLES
    upstream,       \* the release the provider offers
    archive,        \* qlib_bin.tar.gz: the releases its bytes are of, and how many
    source,         \* the release in the source directory
    projectLatest,  \* last day of qlib_cn_calendar_day
    features,       \* per symbol: the release its partition is of
    lastRow,        \* the last row of the state file
    syncAt, sync,   \* the run: where it is, [target, release, stream, rest]
    unsynced,       \* history: a run touched the source or the calendar, and no sync has
                    \* come to its end since
    misled          \* history: a killed run left its archive

qlibVars == <<upstream, archive, source, projectLatest, features, lastRow, syncAt, sync,
              unsynced, misled>>

NoArchive == [of |-> {}, bytes |-> 0]
NoSync == [target |-> 0, release |-> NoRelease, stream |-> NoRelease, rest |-> {}]

QlibInit ==
    /\ upstream = 1 /\ archive = NoArchive /\ source = NoRelease
    /\ projectLatest = 0 /\ features = [s \in QlibSymbols |-> NoRelease]
    /\ lastRow = [status |-> "none", release |-> NoRelease, target |-> 0]
    /\ syncAt = "idle" /\ sync = NoSync
    /\ unsynced = FALSE /\ misled = FALSE

-----------------------------------------------------------------------------
(* What a run finds                                                        *)

\* _record_state, and the run returns.
Recorded(status, release, target) ==
    /\ lastRow' = [status |-> status, release |-> release, target |-> target]
    /\ syncAt' = "idle" /\ sync' = NoSync

SourceCovers(target) == Latest(source) >= target

\* _same_stale_asset
SameStaleAsset(release, target) ==
    /\ ~SourceCovers(target)
    /\ lastRow.status = "upstream_not_ready" /\ lastRow.release = release

CheckedCurrent(target) ==
    /\ syncAt = "idle"
    /\ SourceCovers(target) /\ projectLatest >= target
    /\ Recorded("checked_current", NoRelease, target)
    /\ UNCHANGED <<upstream, archive, source, projectLatest, features, unsynced, misled>>

\* The release metadata is as before, and so is the answer.
StillNotReady(target) ==
    /\ syncAt = "idle" /\ SameStaleAsset(upstream, target)
    /\ Recorded("upstream_not_ready", upstream, target)
    /\ UNCHANGED <<upstream, archive, source, projectLatest, features, unsynced, misled>>

StartDownload(target, force) ==
    /\ syncAt = "idle"
    /\ force \/ ~(SourceCovers(target) \/ SameStaleAsset(upstream, target))
    /\ syncAt' = "open"
    /\ sync' = [NoSync EXCEPT !.target = target, !.release = upstream]
    /\ UNCHANGED <<upstream, archive, source, projectLatest, features, lastRow, unsynced,
                   misled>>

StartSync(target) ==
    /\ syncAt = "idle"
    /\ SourceCovers(target) /\ projectLatest < target
    /\ syncAt' = "calendar"
    /\ sync' = [NoSync EXCEPT !.target = target]
    /\ UNCHANGED <<upstream, archive, source, projectLatest, features, lastRow, unsynced,
                   misled>>

-----------------------------------------------------------------------------
(* download_and_extract_qlib_asset                                         *)

\* _download_file asks for what the archive lacks.  The answer is that nothing is missing
\* (416), the rest, or all of it whatever was asked.
OpenDownload ==
    /\ syncAt = "open"
    /\ sync' = [sync EXCEPT !.stream = upstream]
    /\ \/ /\ archive # NoArchive /\ archive.bytes >= Releases[upstream].size
          /\ syncAt' = "extract" /\ UNCHANGED archive
       \/ /\ archive # NoArchive /\ archive.bytes < Releases[upstream].size
          /\ syncAt' = "download" /\ UNCHANGED archive
       \/ syncAt' = "download" /\ archive' = NoArchive
    /\ UNCHANGED <<upstream, source, projectLatest, features, lastRow, unsynced, misled>>

DownloadByte ==
    /\ syncAt = "download"
    /\ archive' = [of |-> archive.of \cup {sync.stream}, bytes |-> archive.bytes + 1]
    /\ syncAt' = IF archive'.bytes = Releases[sync.stream].size THEN "extract" ELSE "download"
    /\ UNCHANGED <<upstream, source, projectLatest, features, lastRow, sync, unsynced,
                   misled>>

\* The bytes are those of one release, all of them: tarfile can open it.
Sound(a) == \E r \in DOMAIN Releases : a.of = {r} /\ a.bytes = Releases[r].size

\* The archive is extracted; the old source directory is renamed ...
MoveSourceAway ==
    /\ syncAt = "extract" /\ Sound(archive)
    /\ source' = NoRelease /\ unsynced' = TRUE
    /\ syncAt' = "replace"
    /\ UNCHANGED <<upstream, archive, projectLatest, features, lastRow, sync, misled>>

\* ... and the new one put in its place; the archive is removed.
ReplaceSource ==
    /\ syncAt = "replace"
    /\ source' = CHOOSE r \in archive.of : TRUE
    /\ archive' = NoArchive
    /\ IF Latest(source') >= sync.target
       THEN /\ syncAt' = "calendar"
            /\ UNCHANGED <<lastRow, sync>>
       ELSE Recorded("upstream_not_ready", sync.release, sync.target)
    /\ UNCHANGED <<upstream, projectLatest, features, unsynced, misled>>

\* An error or the deadline: the finally clauses restore the directory and remove the
\* archive.
DownloadFails ==
    /\ syncAt \in {"open", "download", "extract"}
    /\ archive' = NoArchive
    /\ syncAt' = "idle" /\ sync' = NoSync
    /\ UNCHANGED <<upstream, source, projectLatest, features, lastRow, unsynced, misled>>

-----------------------------------------------------------------------------
(* sync_source_to_parquet                                                  *)

WriteCalendar ==
    /\ syncAt = "calendar"
    /\ projectLatest' = Latest(source)
    /\ sync' = [sync EXCEPT !.rest = Symbols(source)]
    /\ syncAt' = "features" /\ unsynced' = TRUE
    /\ UNCHANGED <<upstream, archive, source, features, lastRow, misled>>

\* Mutant: a partition that is there is taken for current.
PartitionIsThere(s) == features[s] # NoRelease

\* _qlib_feature_partition_covers_date
PartitionCovers(s) == Latest(features[s]) >= Latest(source)

\* load_qlib_symbol_features: the values of the symbol, up to its last day in the release.
\* A symbol without any is not written; there is none here.
Converted == source

SyncSymbol(s) ==
    /\ syncAt = "features" /\ s \in sync.rest
    /\ features' = IF PartitionCovers(s) THEN features ELSE [features EXCEPT ![s] = Converted]
    /\ sync' = [sync EXCEPT !.rest = @ \ {s}]
    /\ UNCHANGED <<upstream, archive, source, projectLatest, lastRow, syncAt, unsynced,
                   misled>>

\* All symbols are done: _remove_stale_qlib_feature_partitions and _record_state.
CompleteSync ==
    /\ syncAt = "features" /\ sync.rest = {}
    /\ features' = [s \in QlibSymbols |-> IF s \in Symbols(source) THEN features[s] ELSE NoRelease]
    /\ Recorded(IF projectLatest >= sync.target THEN "synced" ELSE "synced_stale",
                sync.release, sync.target)
    /\ unsynced' = FALSE
    /\ UNCHANGED <<upstream, archive, source, projectLatest, misled>>

\* The deadline, or a symbol that cannot be converted.
SyncFails ==
    /\ syncAt \in {"calendar", "features"}
    /\ syncAt' = "idle" /\ sync' = NoSync
    /\ UNCHANGED <<upstream, archive, source, projectLatest, features, lastRow, unsynced,
                   misled>>

-----------------------------------------------------------------------------

QlibKilled ==
    /\ syncAt # "idle"
    /\ misled' = (misled \/ archive # NoArchive)
    /\ syncAt' = "idle" /\ sync' = NoSync
    /\ UNCHANGED <<upstream, archive, source, projectLatest, features, lastRow, unsynced>>

ReleasePublished ==
    /\ upstream < Len(Releases)
    /\ upstream' = upstream + 1
    /\ UNCHANGED <<archive, source, projectLatest, features, lastRow, syncAt, sync,
                   unsynced, misled>>

QlibNext ==
    \/ ReleasePublished \/ QlibKilled
    \/ \E target \in 1..MaxTarget :
        \/ CheckedCurrent(target) \/ StillNotReady(target) \/ StartSync(target)
        \/ \E force \in BOOLEAN : StartDownload(target, force)
    \/ OpenDownload \/ DownloadByte \/ MoveSourceAway \/ ReplaceSource \/ DownloadFails
    \/ WriteCalendar \/ CompleteSync \/ SyncFails
    \/ \E s \in QlibSymbols : SyncSymbol(s)

QlibSpec == QlibInit /\ [][QlibNext]_qlibVars

-----------------------------------------------------------------------------

\* The status of the last run is true of the data (sync.py:100), unless a run was cut off
\* between the replacement of the source and the end of its sync, and none has come to the
\* end of a sync since: with "synced" or "checked_current" the calendar reaches the target,
\* every symbol of the source has a partition that reaches its last day and no other symbol
\* has one; with "upstream_not_ready" the release the row names does not reach the target,
\* unless a killed run left its archive (line 500).  So a sync brought to its end makes good
\* what any run before it left undone; what a run says in between, InterruptedSyncResumed
\* is about.
QlibStatusHonest ==
    syncAt = "idle" =>
        /\ lastRow.status \in {"synced", "checked_current"} /\ ~unsynced =>
              /\ projectLatest >= lastRow.target
              /\ \A s \in Symbols(source) : Latest(features[s]) >= Latest(source)
              /\ \A s \in QlibSymbols \ Symbols(source) : features[s] = NoRelease
        /\ lastRow.status = "upstream_not_ready" /\ ~misled =>
              Latest(lastRow.release) < lastRow.target

\* A sync that was cut off is resumed (test_qlib_sync.py:219,
\* test_sync_qlib_resumes_feature_sync_without_rewriting_current_partitions): a run that
\* answers "checked_current" has found the partition of every symbol at its target.  The
\* code asks only the calendar, which is written first (line 102).
InterruptedSyncResumed ==
    syncAt = "idle" /\ lastRow.status = "checked_current" =>
        \A s \in Symbols(source) : Latest(features[s]) >= lastRow.target

=============================================================================
