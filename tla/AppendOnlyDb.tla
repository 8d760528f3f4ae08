---------------------------- MODULE AppendOnlyDb ----------------------------
(***************************************************************************)
(* The writer of a bxdb database (bxdb-core/src/append_only.rs): one       *)
(* process that opens a database directory, saves snapshots of guest       *)
(* memory into it, flushes and closes it, and may crash in between.        *)
(*                                                                         *)
(* A save runs in three phases.  In "pass", the groups of dirty pages are  *)
(* processed in parallel on the handle's thread pool: each page becomes a  *)
(* blob in a worker file, behind that file's mutex, and a record in the    *)
(* slot of records_buf that the prefix sum of the dirty counts gives it.   *)
(* In "write" the records go to chunks.log; in "header" the maximum        *)
(* snapshot id in the header of the log is overwritten.                    *)
(*                                                                         *)
(* Files are buffered: log and blobs[w] are what the handle has written,   *)
(* and their first logOnDisk and blobOnDisk[w] entries have reached the    *)
(* operating system, which survives a crash of the process.  A BufWriter   *)
(* empties its buffer before an entry that does not fit.  A write(2) of    *)
(* the buffer that fails, or is cut off by the death of the process, has   *)
(* put some of the entries into the file and may have torn the next one.   *)
(* What follows from a torn record of the log is kept in torn.  A torn     *)
(* blob counts as lost, and its rest as nothing: its record finds other    *)
(* bytes than its own either way.                                          *)
(*                                                                         *)
(* A page other than its append_blob is processed in one step: groups are  *)
(* disjoint sets of pages, and everything process_one touches besides the  *)
(* worker file belongs to its page.                                        *)
(***************************************************************************)
EXTENDS Chunk, Sequences

CONSTANTS
    MaxPages,           \* most pages of a guest memory
    PageCounts,         \* the total_page_counts that saves are called with
    PagesPerGroup,      \* PAGES_PER_GROUP, 4096 in the code
    WorkerCounts,       \* the worker_counts that the database is opened with
    MaxWorkers,         \* most workers, 255 in the code
    DeltaThresholds,    \* the delta_thresholds that it is opened with
    ShadowModes,        \* the values of use_shadow that it is opened with
    Snapshots,          \* the snapshot ids that saves are called with
    Contents,           \* the pages that guest memories are made of
    SpillChoices,       \* whether a buffer may (TRUE), or may not, run full
    MaxCrashes,         \* bound: crashes in a behaviour
    MaxIoErrors         \* bound: failed writes in a behaviour

ASSUME AppendOnlyDbAssumption ==
    /\ MaxPages \in Nat \ {0}
    /\ MaxPages <= PaLimit
    /\ PageCounts \subseteq 0..MaxPages
    /\ PagesPerGroup \in Nat \ {0}
    /\ MaxWorkers \in 1..255
    /\ WorkerCounts \subseteq 1..MaxWorkers
    /\ DeltaThresholds \subseteq Nat
    /\ ShadowModes \subseteq BOOLEAN
    /\ Snapshots \subseteq Nat
    /\ Contents \subseteq Page
    /\ SpillChoices \subseteq BOOLEAN
    /\ MaxCrashes \in Nat
    /\ MaxIoErrors \in Nat

VARIABLES
    \* the database directory
    header,         \* max_snapshot_id of chunks.log, None before the log exists
    log,            \* records of chunks.log
    logOnDisk,
    torn,           \* with so many records on disk, the log does not read any more
    blobs,          \* blobs/worker_N.blob for every N
    blobOnDisk,
    \* the handle
    isOpen,
    blob_count,
    delta_threshold,
    use_shadow,
    last_snapshot,  \* Option<u32>
    shadow,         \* the latest Full chunk of every page, key and image
    offset,         \* BlobFile::offset
    \* the call in progress
    pc,
    snapshot_id,
    memory,         \* the dirty pages of the call and their contents
    todo,           \* per group, the dirty pages not yet processed
    write_idx,      \* per group, the next slot of records_buf
    cur, at,        \* per group, the page and offset of the append it is in
    records_buf,
    next,           \* the next record, or worker file, to write
    failed,         \* some group has returned an error
    result,         \* what the last save on this handle has returned
    \* history
    sealed,         \* the header when a flush last completed with no blob lost
    crashes, ioErrors

diskVars   == <<header, log, logOnDisk, blobs, blobOnDisk>>
configVars == <<isOpen, blob_count, delta_threshold, use_shadow>>
handleVars == <<last_snapshot, shadow, offset>>
groupVars  == <<todo, write_idx, cur, at, records_buf>>
callVars   == <<snapshot_id, memory, next, failed>>
resultVars == <<pc, result>>
countVars  == <<torn, sealed, crashes, ioErrors>>
vars == <<diskVars, configVars, handleVars, groupVars, resultVars, callVars, countVars>>

-----------------------------------------------------------------------------

None == -1

Pas     == 0..(MaxPages - 1)
Workers == 0..(MaxWorkers - 1)
group_of(pa) == pa \div PagesPerGroup
Groups  == 0..group_of(MaxPages - 1)

DEFAULT_DELTA_THRESHOLD == 256

\* A slot of records_buf that reserve() has made room for and no task has
\* written yet.  What the memory holds is not a record of this call.
Uninit == [key |-> 0, kind |-> "Uninit", worker_id |-> 0,
           offset |-> 0, len |-> 0, base_key |-> 0]

Slot == [key : Nat, kind : ChunkKind \union {"Uninit"}, worker_id : Nat,
         offset : Nat, len : 0..1, base_key : Nat]

NoShadow == [key |-> None, page |-> ZeroPage]

EmptyShadow == [pa \in Pas |-> NoShadow]

\* The variables of a call before any call.
NoCall ==
    /\ snapshot_id = 0
    /\ memory = <<>>
    /\ todo = [g \in Groups |-> {}]
    /\ write_idx = [g \in Groups |-> 0]
    /\ cur = [g \in Groups |-> None]
    /\ at = [g \in Groups |-> 0]
    /\ records_buf = [i \in Pas |-> Uninit]
    /\ next = 0
    /\ failed = FALSE

Init ==
    /\ header = None
    /\ log = <<>>
    /\ logOnDisk = 0
    /\ torn = None
    /\ blobs = [w \in Workers |-> <<>>]
    /\ blobOnDisk = [w \in Workers |-> 0]
    /\ isOpen = FALSE
    /\ blob_count = 1
    /\ delta_threshold = 1
    /\ use_shadow = FALSE
    /\ last_snapshot = None
    /\ shadow = EmptyShadow
    /\ offset = [w \in Workers |-> 0]
    /\ pc = "idle"
    /\ result = "none"
    /\ NoCall
    /\ sealed = None
    /\ crashes = 0
    /\ ioErrors = 0

-----------------------------------------------------------------------------
(* open                                                                    *)

\* Mutant: the header is not read back.
opened_last_snapshot_none == None

\* What open makes of the header: None for a log it has just created.
opened_last_snapshot == header

\* Mutant: blob offsets start at 0 again.
opened_offset_zero(w, worker_count) == 0

opened_offset(w, worker_count) == IF w < worker_count THEN Len(blobs[w]) ELSE 0

Open(worker_count, threshold, shadow_mode) ==
    /\ ~isOpen
    /\ isOpen' = TRUE
    /\ blob_count' = worker_count
    /\ delta_threshold' = IF threshold = 0 THEN DEFAULT_DELTA_THRESHOLD ELSE threshold
    /\ use_shadow' = shadow_mode
    /\ header' = IF header = None THEN 0 ELSE header
    /\ last_snapshot' = opened_last_snapshot
    /\ shadow' = EmptyShadow
    /\ offset' = [w \in Workers |-> opened_offset(w, worker_count)]
    /\ result' = "none"
    /\ UNCHANGED <<log, logOnDisk, blobs, blobOnDisk, groupVars, pc, callVars, countVars>>

-----------------------------------------------------------------------------
(* The checks at the head of a save, and the ways it returns at once.      *)

\* Mutants: the last id is let through once more; ids above the 19 bits are;
\* ids of the past are.
accepts_again(s) == s <= MAX_SNAPSHOT_ID /\ (last_snapshot = None \/ s >= last_snapshot)
accepts_wide(s) == last_snapshot = None \/ s > last_snapshot
accepts_any(s) == s <= MAX_SNAPSHOT_ID

accepts(s) == s <= MAX_SNAPSHOT_ID /\ (last_snapshot = None \/ s > last_snapshot)

\* The memory or the bitmap has the wrong length: the call fails, and the
\* snapshot id is used up.
SaveBadLength(s) ==
    /\ isOpen /\ pc = "idle"
    /\ accepts(s)
    /\ last_snapshot' = s
    /\ result' = "err"
    /\ UNCHANGED <<diskVars, configVars, shadow, offset, groupVars, pc, callVars, countVars>>

\* No page to save: the call succeeds and touches no file.
SaveNothing(s) ==
    /\ isOpen /\ pc = "idle"
    /\ accepts(s)
    /\ last_snapshot' = s
    /\ result' = "ok"
    /\ UNCHANGED <<diskVars, configVars, shadow, offset, groupVars, pc, callVars, countVars>>

-----------------------------------------------------------------------------
(* The start of a save: slots are dealt out to the groups.                 *)

pages_of(g, dirty) == {pa \in dirty : group_of(pa) = g}

\* Mutant: the inclusive prefix sum.
offsets_inclusive(dirty) ==
    [g \in Groups |-> Cardinality({pa \in dirty : group_of(pa) <= g})]

\* Passes 1a and 1b: the exclusive prefix sum of the groups' dirty counts.
offsets(dirty) ==
    [g \in Groups |-> Cardinality({pa \in dirty : group_of(pa) < g})]

BeginSave(s, mem, first) ==
    /\ isOpen /\ pc = "idle"
    /\ accepts(s)
    /\ DOMAIN mem # {}
    /\ pc' = "pass"
    /\ last_snapshot' = s
    /\ snapshot_id' = s
    /\ memory' = mem
    /\ todo' = [g \in Groups |-> pages_of(g, DOMAIN mem)]
    /\ write_idx' = first
    /\ UNCHANGED <<diskVars, configVars, shadow, offset, cur, at, records_buf,
                   next, failed, result, countVars>>

\* save_all_pages: group g writes from slot g * PAGES_PER_GROUP on.
BeginSaveAll(s, total, mem) ==
    /\ DOMAIN mem = 0..(total - 1)
    /\ BeginSave(s, mem, [g \in Groups |-> g * PagesPerGroup])

\* Bits of the last bitmap word beyond total_page_count are ignored.
mask_last_word(bitmap, total) == {pa \in bitmap : pa < total}

BeginSaveBitmap(s, total, bitmap, mem) ==
    /\ DOMAIN mem = mask_last_word(bitmap, total)
    /\ BeginSave(s, mem, offsets(DOMAIN mem))

-----------------------------------------------------------------------------
(* The parallel pass: process_one for every dirty page, lowest page of a   *)
(* group first.                                                            *)

wid(pa) == pa % blob_count

\* The thread pool has worker_count threads, as many as there are blob files.
Running == {g \in Groups : \/ cur[g] # None
                           \/ /\ todo[g] # {}
                              /\ todo[g] # pages_of(g, DOMAIN memory)}

CanRun(g) == g \in Running \/ Cardinality(Running) < blob_count

\* Group g turns to page pa.
Turns(g, pa) ==
    /\ pc = "pass"
    /\ cur[g] = None
    /\ pa \in todo[g]
    /\ \A q \in todo[g] : pa <= q
    /\ CanRun(g)

\* The record of page pa goes to the next slot of group g.
EmitRecord(g, pa, rec) ==
    /\ records_buf' = [records_buf EXCEPT ![write_idx[g]] = rec]
    /\ write_idx' = [write_idx EXCEPT ![g] = @ + 1]
    /\ todo' = [todo EXCEPT ![g] = @ \ {pa}]

\* Mutant: a zero page is passed over without moving on to the next page.
EmitZero_stuck(g, pa) ==
    /\ Turns(g, pa)
    /\ is_all_zero(memory[pa])
    /\ UNCHANGED vars

EmitZero(g, pa) ==
    /\ Turns(g, pa)
    /\ is_all_zero(memory[pa])
    /\ EmitRecord(g, pa, new_zero(encode_key(pa, snapshot_id)))
    /\ UNCHANGED <<diskVars, configVars, handleVars, cur, at, resultVars, callVars, countVars>>

\* Mutant: no mutex.
mutex_free_always(w) == TRUE

\* append_blob takes the mutex of the worker file and reads its offset.
mutex_free(w) == \A h \in Groups : cur[h] = None \/ wid(cur[h]) # w

LockBlob(g, pa) ==
    /\ Turns(g, pa)
    /\ ~is_all_zero(memory[pa])
    /\ mutex_free(wid(pa))
    /\ cur' = [cur EXCEPT ![g] = pa]
    /\ at' = [at EXCEPT ![g] = offset[wid(pa)]]
    /\ UNCHANGED <<diskVars, configVars, handleVars, todo, write_idx, records_buf,
                   resultVars, callVars, countVars>>

\* ... writes the blob, advances the offset and drops the mutex.  The buffer
\* may have to be emptied first to make room for the blob.
append_blob(g, w, blob, spill) ==
    /\ blobs' = [blobs EXCEPT ![w] = IF blob_len(blob) = 0 THEN @ ELSE Append(@, blob)]
    /\ blobOnDisk' = [blobOnDisk EXCEPT ![w] =
                          IF spill /\ blob_len(blob) # 0 THEN Len(blobs[w]) ELSE @]
    /\ offset' = [offset EXCEPT ![w] = @ + blob_len(blob)]
    /\ cur' = [cur EXCEPT ![g] = None]
    /\ at' = [at EXCEPT ![g] = 0]

patch_of(pa) == compute_xor_patch(memory[pa], shadow[pa].page)

\* Mutant: the zero page serves as base of a page that has none.
DeltaFits_unbased(pa) == use_shadow /\ patch_len(patch_of(pa)) <= delta_threshold

\* The page has a base in the shadow and differs little from it.
DeltaFits(pa) ==
    /\ use_shadow
    /\ shadow[pa].key # None
    /\ patch_len(patch_of(pa)) <= delta_threshold

EmitDelta(g, spill) ==
    LET pa   == cur[g]
        w    == wid(pa)
        blob == [kind |-> "Delta", data |-> patch_of(pa)]
    IN  /\ pc = "pass"
        /\ pa # None
        /\ DeltaFits(pa)
        /\ append_blob(g, w, blob, spill)
        /\ EmitRecord(g, pa, new_delta(encode_key(pa, snapshot_id), w, at[g],
                                       blob_len(blob), shadow[pa].key))
        /\ UNCHANGED <<header, log, logOnDisk, configVars, last_snapshot, shadow,
                       resultVars, callVars, countVars>>

\* Shadow::insert_if_newer
insert_if_newer(pa, key, page) ==
    shadow' = IF use_shadow /\ (shadow[pa].key = None \/ key > shadow[pa].key)
              THEN [shadow EXCEPT ![pa] = [key |-> key, page |-> page]]
              ELSE shadow

EmitFull(g, spill) ==
    LET pa   == cur[g]
        w    == wid(pa)
        key  == encode_key(pa, snapshot_id)
        blob == [kind |-> "Full", data |-> memory[pa]]
    IN  /\ pc = "pass"
        /\ pa # None
        /\ ~DeltaFits(pa)
        /\ append_blob(g, w, blob, spill)
        /\ EmitRecord(g, pa, new_full(key, w, at[g], blob_len(blob)))
        /\ insert_if_newer(pa, key, memory[pa])
        /\ UNCHANGED <<header, log, logOnDisk, configVars, last_snapshot,
                       resultVars, callVars, countVars>>

\* The task of group g returns an error.
GiveUp(g) ==
    /\ ioErrors < MaxIoErrors
    /\ ioErrors' = ioErrors + 1
    /\ failed' = TRUE
    /\ cur' = [cur EXCEPT ![g] = None]
    /\ at' = [at EXCEPT ![g] = 0]
    /\ todo' = [todo EXCEPT ![g] = {}]

\* The blob does not fit into the buffer, and emptying it fails with some of the
\* earlier blobs in the file: nothing is appended and the group gives up.  An
\* empty patch always fits.
AppendFail(g) ==
    LET w == wid(cur[g])
    IN  /\ pc = "pass"
        /\ cur[g] # None
        /\ DeltaFits(cur[g]) => patch_of(cur[g]) # <<>>
        /\ TRUE \in SpillChoices
        /\ blobOnDisk[w] < Len(blobs[w])
        /\ \E n \in blobOnDisk[w]..(Len(blobs[w]) - 1) :
              blobOnDisk' = [blobOnDisk EXCEPT ![w] = n]
        /\ GiveUp(g)
        /\ UNCHANGED <<header, log, logOnDisk, blobs, configVars, handleVars, write_idx,
                       records_buf, resultVars, snapshot_id, memory, next, torn, sealed,
                       crashes>>

-----------------------------------------------------------------------------
(* The end of the pass, the log and its header.                            *)

\* The variables of the call go out of scope.
EndCall ==
    /\ snapshot_id' = 0
    /\ memory' = <<>>
    /\ todo' = [g \in Groups |-> {}]
    /\ write_idx' = [g \in Groups |-> 0]
    /\ cur' = [g \in Groups |-> None]
    /\ at' = [g \in Groups |-> 0]
    /\ records_buf' = [i \in Pas |-> Uninit]
    /\ next' = 0
    /\ failed' = FALSE

Return(r) ==
    /\ pc' = "idle"
    /\ result' = r
    /\ EndCall

\* Mutants: the caller does not wait for all groups; it misses their errors.
PassDone_early ==
    /\ pc = "pass"
    /\ ~failed
    /\ \E g \in Groups : todo[g] = {}
    /\ pc' = "write"
    /\ UNCHANGED <<diskVars, configVars, handleVars, groupVars, result, callVars, countVars>>
PassDone_unchecked ==
    /\ pc = "pass"
    /\ \A g \in Groups : todo[g] = {}
    /\ pc' = "write"
    /\ UNCHANGED <<diskVars, configVars, handleVars, groupVars, result, callVars, countVars>>

PassDone ==
    /\ pc = "pass"
    /\ ~failed
    /\ \A g \in Groups : todo[g] = {}
    /\ pc' = "write"
    /\ UNCHANGED <<diskVars, configVars, handleVars, groupVars, result, callVars, countVars>>

\* try_for_each waits for the groups that have started and starts no other.
PassFail ==
    /\ pc = "pass"
    /\ failed
    /\ Running = {}
    /\ Return("err")
    /\ UNCHANGED <<diskVars, configVars, handleVars, countVars>>

total_dirty == Cardinality(DOMAIN memory)

WriteRecord(spill) ==
    /\ pc = "write"
    /\ next < total_dirty
    /\ log' = Append(log, records_buf[next])
    /\ logOnDisk' = IF spill THEN Len(log) ELSE logOnDisk
    /\ next' = next + 1
    /\ UNCHANGED <<header, blobs, blobOnDisk, configVars, handleVars, groupVars,
                   resultVars, snapshot_id, memory, failed, countVars>>

\* Seeking to the header empties the buffer of the log.
SeekHeader ==
    /\ pc = "write"
    /\ next >= total_dirty
    /\ logOnDisk' = Len(log)
    /\ pc' = "header"
    /\ UNCHANGED <<header, log, blobs, blobOnDisk, configVars, handleVars, groupVars,
                   result, callVars, countVars>>

\* The buffer of the log cannot be emptied, for the seek or for a record that
\* does not fit.  Some of the records in it are in the file, the rest stays in it.
\* Only the records that were not yet in it are given up.
WriteFail ==
    /\ pc = "write"
    /\ next >= total_dirty \/ TRUE \in SpillChoices
    /\ ioErrors < MaxIoErrors
    /\ ioErrors' = ioErrors + 1
    /\ logOnDisk < Len(log)
    /\ logOnDisk' \in logOnDisk..(Len(log) - 1)
    /\ Return("err")
    /\ UNCHANGED <<header, log, blobs, blobOnDisk, configVars, handleVars, torn, sealed,
                   crashes>>

UpdateHeader ==
    /\ pc = "header"
    /\ header' = snapshot_id
    /\ Return("ok")
    /\ UNCHANGED <<log, logOnDisk, blobs, blobOnDisk, configVars, handleVars, countVars>>

-----------------------------------------------------------------------------
(* flush, close and crash                                                  *)

BeginFlush ==
    /\ isOpen /\ pc = "idle"
    /\ pc' = "flush"
    /\ logOnDisk' = Len(log)
    /\ UNCHANGED <<header, log, blobs, blobOnDisk, configVars, handleVars, groupVars,
                   result, callVars, countVars>>

FlushBlob ==
    /\ pc = "flush"
    /\ next < blob_count
    /\ blobOnDisk' = [blobOnDisk EXCEPT ![next] = Len(blobs[next])]
    /\ next' = next + 1
    /\ UNCHANGED <<header, log, logOnDisk, blobs, configVars, handleVars, groupVars,
                   resultVars, snapshot_id, memory, failed, countVars>>

\* No record of the log has lost its blob in an earlier crash.
intact == \A i \in 1..Len(log) : log[i].offset + log[i].len <= Len(blobs[log[i].worker_id])

\* Mutant: the last worker file is left out.
Flushed_early ==
    /\ pc = "flush"
    /\ next = blob_count - 1
    /\ sealed' = IF last_snapshot # None /\ intact THEN header ELSE sealed
    /\ pc' = "idle"
    /\ next' = 0

\* Everything the handle has written is on disk.
Flushed ==
    /\ pc = "flush"
    /\ next = blob_count
    /\ sealed' = IF last_snapshot # None /\ intact THEN header ELSE sealed
    /\ pc' = "idle"
    /\ next' = 0

EndFlush ==
    /\ Flushed
    /\ UNCHANGED <<diskVars, configVars, handleVars, groupVars, result,
                   snapshot_id, memory, failed, torn, crashes, ioErrors>>

\* The handle is gone.
Dropped ==
    /\ isOpen' = FALSE
    /\ blob_count' = 1
    /\ delta_threshold' = 1
    /\ use_shadow' = FALSE
    /\ last_snapshot' = None
    /\ shadow' = EmptyShadow
    /\ offset' = [w \in Workers |-> 0]
    /\ result' = "none"

Close ==
    /\ Flushed
    /\ Dropped
    /\ UNCHANGED <<diskVars, groupVars, snapshot_id, memory, failed, torn, crashes, ioErrors>>

\* The values of torn after the process has died, perhaps while it emptied the
\* buffer of the log.  Part of a record at the end of the file is taken for its
\* end, and open appends behind it; the next record is then misread.  Of a Delta
\* so much may be there (22 of 30 bytes) that reading fails at once, and as much
\* may come together from what two processes have left.
torn_after ==
    {torn} \union
    {t \in {logOnDisk, logOnDisk + 1} :
        /\ logOnDisk < Len(log)
        /\ torn = None \/ t < torn
        /\ t = logOnDisk => torn # None \/ log[logOnDisk + 1].kind = "Delta"}

\* The log reads as what was written to it.
log_reads == torn = None \/ logOnDisk < torn

\* The process dies: what is still in its buffers is lost.
Crash ==
    /\ isOpen
    /\ crashes < MaxCrashes
    /\ crashes' = crashes + 1
    /\ log' = SubSeq(log, 1, logOnDisk)
    /\ torn' \in torn_after
    /\ blobs' = [w \in Workers |-> SubSeq(blobs[w], 1, blobOnDisk[w])]
    /\ Dropped
    /\ pc' = "idle"
    /\ EndCall
    /\ UNCHANGED <<header, logOnDisk, blobOnDisk, sealed, ioErrors>>

-----------------------------------------------------------------------------

Call ==
    \/ \E n \in WorkerCounts, t \in DeltaThresholds, sh \in ShadowModes : Open(n, t, sh)
    \/ \E s \in Snapshots : SaveBadLength(s) \/ SaveNothing(s)
    \/ \E s \in Snapshots, total \in PageCounts :
          \E mem \in [0..(total - 1) -> Contents] : BeginSaveAll(s, total, mem)
    \/ \E s \in Snapshots, total \in PageCounts, bitmap \in SUBSET Pas :
          \E mem \in [mask_last_word(bitmap, total) -> Contents] :
            BeginSaveBitmap(s, total, bitmap, mem)
    \/ BeginFlush

Step ==
    \/ \E g \in Groups :
          \/ \E pa \in Pas : EmitZero(g, pa) \/ LockBlob(g, pa)
          \/ \E spill \in SpillChoices : EmitDelta(g, spill) \/ EmitFull(g, spill)
    \/ PassDone
    \/ PassFail
    \/ \E spill \in SpillChoices : WriteRecord(spill)
    \/ SeekHeader
    \/ UpdateHeader
    \/ FlushBlob
    \/ EndFlush
    \/ Close

Fault ==
    \/ \E g \in Groups : AppendFail(g)
    \/ WriteFail
    \/ Crash

Next == Call \/ Step \/ Fault

Spec == Init /\ [][Next]_vars

\* A call that has started is run by the threads of the pool and the caller,
\* which the scheduler does not starve.  Nobody has to call anything.
FairSpec == Spec /\ WF_vars(Step)

-----------------------------------------------------------------------------
(* Properties.                                                             *)

\* Every variable has its type.
TypeOK ==
    /\ header \in Nat \union {None}
    /\ log \in Seq(Slot)
    /\ logOnDisk \in 0..Len(log)
    /\ blobs \in [Workers -> Seq(Blob)]
    /\ blobOnDisk \in [Workers -> Nat]
    /\ \A w \in Workers : blobOnDisk[w] <= Len(blobs[w])
    /\ isOpen \in BOOLEAN
    /\ blob_count \in 1..MaxWorkers
    /\ delta_threshold \in Nat
    /\ use_shadow \in BOOLEAN
    /\ last_snapshot \in Nat \union {None}
    /\ shadow \in [Pas -> [key : Nat \union {None}, page : Page]]
    /\ offset \in [Workers -> Nat]
    /\ pc \in {"idle", "pass", "write", "header", "flush"}
    /\ snapshot_id \in Nat /\ snapshot_id <= MAX_SNAPSHOT_ID
    /\ DOMAIN memory \subseteq Pas
    /\ memory \in [DOMAIN memory -> Page]
    /\ todo \in [Groups -> SUBSET DOMAIN memory]
    /\ write_idx \in [Groups -> Nat]
    /\ cur \in [Groups -> Pas \union {None}]
    /\ \A g \in Groups : cur[g] # None => pc = "pass" /\ cur[g] \in todo[g]
    /\ at \in [Groups -> Nat]
    /\ records_buf \in [Pas -> Slot]
    /\ next \in Nat
    /\ failed \in BOOLEAN
    /\ result \in {"none", "ok", "err"}
    /\ torn \in Nat \union {None}
    /\ torn # None => crashes # 0
    /\ sealed \in Nat \union {None}
    /\ crashes \in Nat
    /\ ioErrors \in Nat

\* The unsafe set_len after the parallel pass is sound: slot i of records_buf
\* holds the record of the i-th dirty page, so no slot is left unwritten, none
\* is written by two groups, and the log gets the pages in ascending order.
SlotsWritten ==
    pc \in {"write", "header"} =>
        /\ \A i \in 0..(total_dirty - 1) :
              /\ records_buf[i].kind # "Uninit"
              /\ pa_of(records_buf[i].key) \in DOMAIN memory
              /\ snapshot_of(records_buf[i].key) = snapshot_id
        /\ \A i, j \in 0..(total_dirty - 1) :
              i < j => records_buf[i].key < records_buf[j].key

Disjoint(r1, r2) ==
    (r1.worker_id = r2.worker_id /\ r1.len # 0 /\ r2.len # 0) =>
        (r1.offset + r1.len <= r2.offset \/ r2.offset + r2.len <= r1.offset)

\* As long as the process has not crashed, no two records of the log locate
\* the same bytes of a worker file: parallel appends are kept apart by the
\* mutex, and a reopened file continues where its length ends, also after
\* saves that failed half way.
BlobsDisjoint ==
    crashes = 0 => \A i, j \in 1..Len(log) : i # j => Disjoint(log[i], log[j])

InOrder(r1, r2) ==
    ( /\ r1.worker_id = r2.worker_id
      /\ r1.len # 0 /\ r2.len # 0
      /\ snapshot_of(r1.key) < snapshot_of(r2.key) ) =>
        r1.offset + r1.len <= r2.offset

\* What purge's truncation of worker files rests on: in every worker file the
\* blobs of a snapshot lie before those of all later snapshots.
BlobsInSnapshotOrder ==
    (crashes = 0 /\ ioErrors = 0) => \A i, j \in 1..Len(log) : InOrder(log[i], log[j])

\* What the streaming conversion to raw files rests on: the log is strictly
\* ascending by snapshot and then by page.
LogInOrder ==
    (crashes = 0 /\ ioErrors = 0) =>
        \A i, j \in 1..Len(log) : i < j =>
            \/ snapshot_of(log[i].key) < snapshot_of(log[j].key)
            \/ /\ snapshot_of(log[i].key) = snapshot_of(log[j].key)
               /\ pa_of(log[i].key) < pa_of(log[j].key)

\* The base that record i of the log is a Delta of precedes it in the log, as
\* a Full chunk of the same page and of an earlier snapshot.
HasBase(i) ==
    \E j \in 1..(i - 1) :
        /\ log[j].key = log[i].base_key
        /\ log[j].kind = "Full"
        /\ pa_of(log[j].key) = pa_of(log[i].key)
        /\ snapshot_of(log[j].key) < snapshot_of(log[i].key)

\* architecture.md: versions of the same page form a two-level structure, a Full
\* base chunk and Delta chunks that each diff directly against that base.
DeltaAlwaysHasBase ==
    \A i \in 1..Len(log) : log[i].kind = "Delta" => HasBase(i)

\* Every Delta has its base in the log before it, crashes or not: one blob
\* read and one patch resolve it, and no purge that keeps the Delta drops the
\* base.
DeltaHasBase == ioErrors = 0 => DeltaAlwaysHasBase

\* Every version of a page has a key of its own, by which the index and the
\* Deltas refer to it.  A crash before the header is written ends this: the
\* snapshot id is accepted again.
KeysUnique == \A i, j \in 1..Len(log) : i # j => log[i].key # log[j].key
=============================================================================
