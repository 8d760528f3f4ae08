---------------------------- MODULE Maintenance ----------------------------
(***************************************************************************)
(* A database directory over its life: the writer of BxDb, and between its *)
(* runs the offline tools to_btree and to_log (bxdb-core/src/convert.rs),  *)
(* purge (purge.rs) and check (check.rs), and the user who deletes one of  *)
(* the two index files.                                                    *)
(*                                                                         *)
(* The tools are processes of their own, run while no writer has the       *)
(* database open, and may be killed between any two changes of files.  A   *)
(* file that a tool rewrites is replaced by a rename, in one step.         *)
(***************************************************************************)
EXTENDS BxDb, Check

CONSTANTS
    Thresholds,         \* the snapshot ids that purge is called with
    MaxToolRuns,        \* bound: tools run, and files deleted, in a behaviour
    MaxToolCrashes      \* bound: tools killed in a behaviour

ASSUME MaintenanceAssumption ==
    /\ Thresholds \subseteq Nat
    /\ MaxToolRuns \in Nat
    /\ MaxToolCrashes \in Nat

VARIABLES
    has_index,      \* index.bxdb exists
    index,          \* its records, by key
    blob_files,     \* the workers that have a file in blobs/
    \* the purge that is running
    tool_pc,        \* "none", "truncate", "cleanup", "write_index", "write_log"
    kept,           \* the records that it keeps, by key
    to_truncate,    \* the worker files that it has yet to truncate
    threshold,
    \* history
    purged,         \* threshold of the purge that was the last to change the records
    unindexed,      \* the log was created or written while there was an index
    tool_runs, tool_crashes

purgeVars   == <<tool_pc, kept, to_truncate, threshold>>
historyVars == <<purged, unindexed, tool_runs, tool_crashes>>
dirVars     == <<diskVars, has_index, index, blob_files>>
writerVars  == <<configVars, handleVars, groupVars, resultVars, callVars, countVars>>
processVars == <<configVars, handleVars, groupVars, resultVars, callVars, sealed, crashes,
                 ioErrors>>     \* writerVars without torn, which is of the log
allVars     == <<vars, has_index, index, blob_files, purgeVars, historyVars>>

EmptyIndex == [key \in {} |-> Uninit]

InitMaintenance ==
    /\ Init
    /\ has_index = FALSE
    /\ index = EmptyIndex
    /\ blob_files = {}
    /\ tool_pc = "none"
    /\ kept = EmptyIndex
    /\ to_truncate = {}
    /\ threshold = 0
    /\ purged = None
    /\ unindexed = FALSE
    /\ tool_runs = 0
    /\ tool_crashes = 0

-----------------------------------------------------------------------------

\* A step of the writer.  Opening the database creates the worker files.
Writer ==
    /\ tool_pc = "none"
    /\ Next
    /\ blob_files' = IF isOpen' THEN blob_files \union 0..(blob_count' - 1) ELSE blob_files
    /\ purged' = IF <<log, blobs>>' = <<log, blobs>> THEN purged ELSE None
    /\ unindexed' = (unindexed \/ (has_index /\ <<header, log>>' # <<header, log>>))
    /\ UNCHANGED <<has_index, index, purgeVars, tool_runs, tool_crashes>>

\* The directory is at the disposal of the tools.
Offline == ~isOpen /\ tool_pc = "none"

RunTool ==
    /\ Offline
    /\ tool_runs < MaxToolRuns
    /\ tool_runs' = tool_runs + 1

has_log == header # None

-----------------------------------------------------------------------------
(* convert                                                                 *)

\* A tool that has to read a log which does not read fails before it has changed
\* anything, for which there is no action.
to_btree ==
    /\ RunTool /\ has_log /\ log_reads
    /\ has_index' = TRUE
    /\ index' = build_lazy_index(log)
    /\ purged' = None
    /\ unindexed' = FALSE
    /\ UNCHANGED <<vars, blob_files, purgeVars, tool_crashes>>

records_of(idx) == {idx[k] : k \in DOMAIN idx}

max_snap(idx) ==
    CHOOSE m \in {0} \union {snapshot_of(k) : k \in DOMAIN idx} :
        \A k \in DOMAIN idx : snapshot_of(k) <= m

\* The records of an index in an order of their keys: each comes after as many
\* others as there are before it.
ordered(idx, before(_, _)) ==
    [i \in 1..Cardinality(DOMAIN idx) |->
        idx[CHOOSE k \in DOMAIN idx : Cardinality({j \in DOMAIN idx : before(j, k)}) = i - 1]]

\* Mutant: the records of the index are written in the order of the index.
by_snapshot_unsorted(idx) == ordered(idx, LAMBDA j, k : j < k)

saved_before(j, k) ==
    \/ snapshot_of(j) < snapshot_of(k)
    \/ snapshot_of(j) = snapshot_of(k) /\ j < k

\* The order that the saves would have written the records in.
by_snapshot(idx) == ordered(idx, saved_before)

write_log_file(idx) ==
    /\ log' = by_snapshot(idx)
    /\ logOnDisk' = Cardinality(DOMAIN idx)
    /\ torn' = None
    /\ header' = max_snap(idx)

to_log ==
    /\ RunTool /\ has_index
    /\ write_log_file(index)
    /\ purged' = None
    /\ unindexed' = FALSE
    /\ UNCHANGED <<blobs, blobOnDisk, processVars, has_index, index, blob_files, purgeVars,
                   tool_crashes>>

-----------------------------------------------------------------------------
(* purge                                                                   *)

\* Mutants: the threshold is purged as well; the snapshot after it is kept.
kept_of_below(idx, T) == [k \in {j \in DOMAIN idx : snapshot_of(j) < T} |-> idx[k]]

kept_of_next(idx, T) == [k \in {j \in DOMAIN idx : snapshot_of(j) <= T + 1} |-> idx[k]]

kept_of(idx, T) == [k \in {j \in DOMAIN idx : snapshot_of(j) <= T} |-> idx[k]]

\* The records that purge reads: those of the index if there is one.
purge_input == IF has_index THEN index ELSE build_lazy_index(log)

purge_reads == has_index \/ (has_log /\ log_reads)

\* The worker files that a record other than Zero is kept of.
truncated_workers(idx) == {rec.worker_id : rec \in {r \in records_of(idx) : r.kind # "Zero"}}

\* Nothing is above the threshold: purge returns without a change.
PurgeNothing(T) ==
    /\ RunTool /\ purge_reads
    /\ DOMAIN kept_of(purge_input, T) = DOMAIN purge_input
    /\ purged' = T
    /\ UNCHANGED <<vars, has_index, index, blob_files, purgeVars, unindexed, tool_crashes>>

BeginPurge(T) ==
    /\ RunTool /\ purge_reads
    /\ DOMAIN kept_of(purge_input, T) # DOMAIN purge_input
    /\ tool_pc' = "truncate"
    /\ kept' = kept_of(purge_input, T)
    /\ to_truncate' = truncated_workers(kept')
    /\ threshold' = T
    /\ purged' = None
    /\ UNCHANGED <<vars, has_index, index, blob_files, unindexed, tool_crashes>>

\* Mutant: a file is cut at the end of its last Full chunk.
keep_len_full(w) ==
    CHOOSE len \in {0} \union {r.offset + r.len : r \in records_of(kept)} :
        \A r \in records_of(kept) : (r.kind = "Full" /\ r.worker_id = w) => r.offset + r.len <= len

\* worker_max_end: where the last kept chunk of worker w ends.
keep_len(w) ==
    CHOOSE len \in {0} \union {r.offset + r.len : r \in records_of(kept)} :
        /\ \A r \in records_of(kept) : (r.kind # "Zero" /\ r.worker_id = w) => r.offset + r.len <= len
        /\ \E r \in records_of(kept) : r.kind # "Zero" /\ r.worker_id = w /\ r.offset + r.len = len

\* Bytes that set_len fills in.  Zeros do not decompress, and are a patch that
\* changes nothing.
Hole == [kind |-> "Delta", data |-> <<>>]

\* set_len cuts the file or, where it is shorter, fills it up.
set_len(file, len) == [i \in 1..len |-> IF i <= Len(file) THEN file[i] ELSE Hole]

TruncateBlob(w) ==
    /\ tool_pc = "truncate"
    /\ w \in to_truncate
    /\ w \in blob_files
    /\ blobs' = [blobs EXCEPT ![w] = set_len(@, keep_len(w))]
    /\ blobOnDisk' = [blobOnDisk EXCEPT ![w] = keep_len(w)]
    /\ to_truncate' = to_truncate \ {w}
    /\ UNCHANGED <<header, log, logOnDisk, writerVars, has_index, index, blob_files,
                   tool_pc, kept, threshold, historyVars>>

\* The purge returns, or dies.
EndPurge ==
    /\ tool_pc' = "none"
    /\ kept' = EmptyIndex
    /\ to_truncate' = {}
    /\ threshold' = 0

\* A worker file is missing: the purge fails half way.
TruncateFail(w) ==
    /\ tool_pc = "truncate"
    /\ w \in to_truncate \ blob_files
    /\ EndPurge
    /\ UNCHANGED <<dirVars, writerVars, historyVars>>

TruncateDone ==
    /\ tool_pc = "truncate"
    /\ to_truncate = {}
    /\ tool_pc' = "cleanup"
    /\ UNCHANGED <<dirVars, writerVars, kept, to_truncate, threshold, historyVars>>

\* Mutant: Zero records, which name worker 0, do not count.
unused_blob_files_zero == blob_files \ truncated_workers(kept)

unused_blob_files == blob_files \ {r.worker_id : r \in records_of(kept)}

\* Worker files that no kept record names are removed.
CleanupBlob(w) ==
    /\ tool_pc = "cleanup"
    /\ w \in unused_blob_files
    /\ blob_files' = blob_files \ {w}
    /\ blobs' = [blobs EXCEPT ![w] = <<>>]
    /\ blobOnDisk' = [blobOnDisk EXCEPT ![w] = 0]
    /\ UNCHANGED <<header, log, logOnDisk, writerVars, has_index, index, purgeVars, historyVars>>

CleanupDone ==
    /\ tool_pc = "cleanup"
    /\ unused_blob_files = {}
    /\ tool_pc' = "write_index"
    /\ UNCHANGED <<dirVars, writerVars, kept, to_truncate, threshold, historyVars>>

\* Mutant: only the log is written anew.
PurgeIndex_skipped ==
    /\ tool_pc = "write_index"
    /\ tool_pc' = "write_log"
    /\ UNCHANGED <<dirVars, writerVars, kept, to_truncate, threshold, historyVars>>

\* Each format that was there is written anew.
PurgeIndex ==
    /\ tool_pc = "write_index"
    /\ tool_pc' = "write_log"
    /\ index' = IF has_index THEN kept ELSE index
    /\ UNCHANGED <<diskVars, writerVars, has_index, blob_files, kept, to_truncate, threshold,
                   historyVars>>

PurgeLog ==
    /\ tool_pc = "write_log"
    /\ IF has_log THEN write_log_file(kept) ELSE UNCHANGED <<header, log, logOnDisk, torn>>
    /\ EndPurge
    /\ purged' = threshold
    /\ unindexed' = FALSE
    /\ UNCHANGED <<blobs, blobOnDisk, processVars, has_index, index, blob_files,
                   tool_runs, tool_crashes>>

ToolCrash ==
    /\ tool_pc # "none"
    /\ tool_crashes < MaxToolCrashes
    /\ tool_crashes' = tool_crashes + 1
    /\ EndPurge
    /\ UNCHANGED <<dirVars, writerVars, purged, unindexed, tool_runs>>

-----------------------------------------------------------------------------
(* The user keeps one of two formats.                                      *)

DeleteLog ==
    /\ RunTool /\ has_log /\ has_index
    /\ header' = None
    /\ log' = <<>>
    /\ logOnDisk' = 0
    /\ torn' = None
    /\ purged' = None
    /\ unindexed' = FALSE
    /\ UNCHANGED <<blobs, blobOnDisk, processVars, has_index, index, blob_files, purgeVars,
                   tool_crashes>>

DeleteIndex ==
    /\ RunTool /\ has_log /\ has_index
    /\ has_index' = FALSE
    /\ index' = EmptyIndex
    /\ purged' = None
    /\ unindexed' = FALSE
    /\ UNCHANGED <<vars, blob_files, purgeVars, tool_crashes>>

-----------------------------------------------------------------------------

NextMaintenance ==
    \/ Writer
    \/ to_btree
    \/ to_log
    \/ \E T \in Thresholds : PurgeNothing(T) \/ BeginPurge(T)
    \/ \E w \in Workers : TruncateBlob(w) \/ TruncateFail(w) \/ CleanupBlob(w)
    \/ TruncateDone
    \/ CleanupDone
    \/ PurgeIndex
    \/ PurgeLog
    \/ ToolCrash
    \/ DeleteLog
    \/ DeleteIndex

SpecMaintenance == InitMaintenance /\ [][NextMaintenance]_allVars

-----------------------------------------------------------------------------
(* Properties.                                                             *)

\* What PageStore::open and load_page make of the directory.
loads ==
    IF ~(has_index \/ log_reads) THEN [pa \in Pas |-> [q \in Queries |-> Error]]
    ELSE CHOOSE table \in {[pa \in Pas |-> [q \in Queries |-> load_page(idx, files, pa, q)]] :
                          idx \in {IF has_index THEN index ELSE build_lazy_index(disk_log)},
                          files \in {disk_blobs}} : TRUE

\* A purge is invisible to the loads that succeed of the snapshots that it
\* keeps, at every one of its steps and wherever it fails or is killed: a Delta
\* stays with its base, and no file is cut before the end of the last kept blob.
PurgeKeepsPast ==
    [][\A pa \in Pas, q \in Queries :
          /\ \/ tool_pc # "none" /\ q <= threshold
             \/ tool_pc' # "none" /\ q <= threshold'
          /\ loads[pa][q] # Error
          => loads'[pa][q] = loads[pa][q]]_allVars

\* No purge has been killed and no save has gone past the index.
InStep == tool_crashes = 0 /\ ~unindexed

\* The two formats are interchangeable: as long as no save goes past the index,
\* conversions and purges keep them at the same records, so that a user may
\* delete either one.
FormatsAgree ==
    (InStep /\ tool_pc = "none" /\ has_index /\ has_log) => build_lazy_index(log) = index

AbovePurged ==
    {k \in DOMAIN index \union {log[i].key : i \in 1..Len(log)} :
        purged # None /\ snapshot_of(k) > purged}

\* When a purge returns, no record above its threshold is left in either format.
PurgeComplete == InStep => AbovePurged = {}

\* purge.rs: purge all records whose snapshot_id is strictly greater than
\* snapshot_threshold; if both formats are present, both are rewritten.
PurgeAlwaysComplete == AbovePurged = {}

\* The order that purge and the conversion to raw files rest on is still there
\* after purges, conversions and the saves that follow them.
OrderKept == tool_crashes = 0 => BlobsInSnapshotOrder /\ LogInOrder

check_errors == check(disk_log, disk_blobs, blob_files)

\* check reads the log to its end, and finds nothing to report.
check_accepts == log_reads /\ check_errors = {}

\* No crash, write error, kill or deleted log has touched the database.
Healthy == crashes = 0 /\ ioErrors = 0 /\ tool_crashes = 0

\* check finds nothing wrong in a database that was only ever saved to,
\* closed, converted and purged.
CheckAccepts == (Healthy /\ Offline) => check_accepts

\* No load from what is on disk fails; a page may have no version yet.
NoLoadFails == \A pa \in Pas, q \in Queries : answers(disk_log, disk_blobs)[pa][q] # Error

\* bxdb.rs: validate integrity of chunks.log and blob files.
CheckAlwaysFindsLoss == (Offline /\ check_accepts /\ KeysUnique) => NoLoadFails

\* What check passes over: an empty patch whose place in its file is lost.
unchecked ==
    {i \in DOMAIN disk_log : disk_log[i].len = 0 /\ ~in_range(disk_blobs, disk_log[i])}

\* Where there is none of these, check is to be trusted: when it finds nothing
\* wrong in a log without repeated keys, no load from that log fails, after
\* whatever crashes, write errors and killed purges, and while a writer is at work.
CheckFindsLoss == (unchecked = {} /\ check_accepts /\ KeysUnique) => NoLoadFails
=============================================================================
