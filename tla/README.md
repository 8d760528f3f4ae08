# bxdb in TLA+

bxdb is an append-only store for the snapshots of a guest's physical memory. A
simulator saves the pages that are dirty at a snapshot; later, any page or the
whole memory can be loaded as it was at any snapshot. This directory holds TLA+
modules of the store, the TLC configurations that check them and theorems about
them that TLAPS checks. All paths below are relative to the repository.

    tlc -workers 2 -config pass.cfg MCBxDb      # any run: module and cfg in PROJECT.json
    tlapm AppendOnlyDb_proofs.tla               # any of the eight *_proofs modules

## 1. Inventory

A database directory holds `chunks.log` (a header with the greatest snapshot id,
then one record per page version), `blobs/worker_N.blob` (compressed pages and
XOR patches), and, after a conversion, `index.bxdb` (the records
sorted by key). The key of a version is page address and 19-bit snapshot id in
one word. A version is a **Zero** page, a **Full** page, or a **Delta**, a patch
against one Full version of the same page.

| Component | State | Operations | What makes it correct |
|---|---|---|---|
| Records, keys, patches (`bxdb-core/src/chunk.rs`) | none | encode and split keys; compute and apply patches | halves of a key can be read back; a patch leads from its base to its page |
| Writer, `AppendOnlyDb` (`append_only.rs`) | header, log and worker files with their buffers; last snapshot; shadow of the latest Full page of every page address; offset per worker file | open, save by bitmap, save all, flush, close | a save is atomic for readers and touches no past version; records fill `records_buf` exactly; blobs never overlap; log and worker files are in snapshot order; every Delta has its base |
| Read path, `PageStore`, `BtreeDb` (`btree.rs`) | mapped index or lazy index of the log, mapped worker files | open, `load_page` | answers the latest version up to the snapshot, also while the writer goes on |
| Bulk loads (`append_only.rs`) | none | load by scan of the log, load by index, on several threads | every page of the range once, each as `load_page` answers it |
| convert (`convert.rs`) | the two index formats | `to_btree`, `to_log` | the formats hold the same records |
| purge (`purge.rs`) | the two formats and the worker files | purge above a threshold | the kept past is unchanged at every step, the rest is gone |
| check (`check.rs`) | none | check | reports every loss, and nothing else |
| `SharedCache` (`cache.rs`) | a mapped file: identity, and sets of ways (keys, timestamps, pages), a robust mutex per metadata page | create, open, get, put, drop, delete | a hit answers the last put of the key; a key is in one place; the oldest page makes room; a dead process blocks nobody |
| `convert_to_raw` (`bin/convert_to_raw.rs`) | chain of raw files, memory image, pages of the current snapshot | stream the log into one file per snapshot | the chain loads as the database; needs the order of the log |
| C API (`c_api.rs`) | handles | open, save, load, close, cache create and delete | every error of a save aborts the process |
| `bxdb`, `bxdb-inspect`, timing counters | none that is read back | command line, viewer, statistics | |

How they interact. The writer is the only one to write while it is open. The
tasks of one save share the worker files (behind a mutex each), the shadow
(disjoint pages, behind shards) and `records_buf` (through raw pointers, slots
of their own). Readers and tools see only files; a reader maps the worker files
when it opens and reads the log at its first lookup. purge relies on the order
of the offsets that saves leave; `convert_to_raw` on the order of the log;
Deltas rely on a Full record that an earlier save has written, and the shadow is
how the writer remembers it. The cache is shared by processes only through its
file. `BtreeDb` is compiled without it (`DISABLE_SHARED_CACHE`, `btree.rs:32`),
so that nothing flows between the cache and a database at this commit.

What is hard, and where it bites, is the list "hazards" of `PROJECT.json`: the
parallel pass over uninitialised memory, appends that share files, saves that
fail half way, crashes with data in buffers, reopening what a crash left, a
reader whose mappings and index are of two times, two formats that may drift
apart, purges that are killed between two files, processes that die inside the
cache or while they create it, and the edges of the key (id 0, key 0, the last
19-bit id) and of a timestamp (it saturates at 0).

## 2. Modules

| Module | Stands for | Kind |
|---|---|---|
| `Chunk` | `chunk.rs`: keys, records, blobs, XOR patches | operators |
| `AppendOnlyDb` | the writer: its files, buffers and threads | state machine |
| `PageStore` | `btree.rs` and the bulk loads | operators on the files |
| `VersionedStore` | what a database promises: saves take effect at once and as a whole, and never change an earlier version | abstract specification |
| `BxDb` | writer and loads together; the refinement of `VersionedStore`; crash properties | composition |
| `RawChain` | `convert_to_raw.rs`: the conversion as a fold over the log, and the loader of a chain | operators |
| `Readers` | a reader that stays open beside the writer; the raw chain of what the writer leaves | composition |
| `Check` | `check.rs`: the set of records reported | operators |
| `Maintenance` | convert, purge, deletion of one format, between runs of the writer | composition |
| `PageCache` | what the cache promises: a hit answers the last put; it may forget; a death damages one key at most | abstract specification |
| `SharedCache` | `cache.rs`: the file, its mutexes and the processes; the refinement of `PageCache` | state machine |
| `MCBxDb`, `MCReaders`, `MCMaintenance`, `MCSharedCache` | page contents and hashes for TLC | instances |
| `AppendOnlyDb_proofs` | types of the writer, laws of `Chunk` | proofs |
| `AppendOnlyDb_blobs_proofs` | blobs never overlap; worker files are in snapshot order | proofs |
| `AppendOnlyDb_log_proofs` | every slot of `records_buf` is written; the log is in snapshot and page order; every Delta has its base | proofs |
| `BxDb_proofs` | what a flush has completed is never changed; all read paths agree | proofs |
| `BxDb_store_proofs` | without faults the writer implements `VersionedStore` | proofs |
| `Readers_proofs` | a reader sees what was complete when it opened; the raw chain is complete | proofs |
| `Maintenance_proofs` | the formats agree, purge is complete and keeps the past, the order and the bases outlast the tools, check finds every loss and accepts what is whole | proofs |
| `SharedCache_proofs` | types of the cache, creation, placement of keys, the page that makes room; the cache implements `PageCache` | proofs |

### State and actions against the code

*Pages and patches.* A page is a function from `Words` to sets of `Bits`, and
the XOR of two words is the symmetric difference: only which words differ, and
how many, decides between Full and Delta, and patch lengths are counted in
entries. A blob is one unit of its file, and an empty patch none, so offsets are
counted in blobs. What reading does with bytes of the wrong sort is kept: a Full
record over a patch does not decompress, a Delta record over a compressed page
has no patch.

*Files and buffers.* `log` and `blobs[w]` are what the handle has written; the
first `logOnDisk` and `blobOnDisk[w]` entries are with the operating system.
`SpillChoices` says whether a buffer may run full, so that it is emptied before
the next entry. Emptying it is a loop over `write(2)`. When that fails
(`AppendFail` for a worker file, `WriteFail` for the log, neither with an empty
buffer), some of the entries are in the file and the rest stays in the buffer, to
be written later if the process lives on; only what had not been put into the
buffer is given up, the pages left to the group (`GiveUp`) or the records left to
the save. A crash is one of the process: the rest of the buffers is lost. It may
come in the middle of a `write(2)`, or after one that was cut short, and then the
last entry in the file is torn. For the log, `torn` keeps what follows:

* less than 22 bytes of a record are taken for the end of the log. It reads until
  a writer has opened it and has appended one record behind that rest;
* with 22 to 29 of the 30 bytes of a Delta the log does not read at once.

`torn` is the number of records on disk from which on it does not read.

`log_reads` says that what is on disk reads as it was written. Where it does not,
lookups, bulk loads, check, purge and the conversions fail, which is how the model
has it: `FirstLookup`, `to_btree` and a purge without index do not happen,
`check_accepts` is false and `loads` are errors. A log that a tool has written
anew is whole again. A torn blob counts as lost, and its rest as nothing: the file
goes on where the last whole blob ends, here to the entry, in the code behind the
rest. A record of a lost blob finds other bytes than its own either way.

*A save* (`save_pages_using_bitmap`, `save_all_pages`) is `BeginSave...`, then
per page `EmitZero`, or `LockBlob` (the mutex is taken and the offset read)
followed by `EmitDelta` or `EmitFull` (blob written, offset advanced, mutex
dropped, shadow and record updated), then `PassDone` or `PassFail`,
`WriteRecord` for each record, `SeekHeader` (which empties the buffer of the
log) and `UpdateHeader`. The early returns are `SaveBadLength` and `SaveNothing`;
a rejected snapshot id changes nothing and is a stutter. The groups of
`PAGES_PER_GROUP` pages run on as many threads as there are worker files
(`CanRun`). Everything `process_one` does besides `append_blob` touches only
what belongs to its page, and is one step with it.

*flush and close* are `BeginFlush`, `FlushBlob` per file and `EndFlush` or
`Close`. An error in the C API aborts the process: `PassFail`, `WriteFail` or
`SaveBadLength` followed by `Crash`, which tears the log if the failed write has.
Other callers get the error and may go on with the handle.

*Loads* change nothing and are operators: `load_page` on an index and the worker
files, and the bulk loads, which divide a range of pages among threads
(`ReadPathsAgree` quantifies over every range and number of threads) and fail as
a whole when one page does.

*A reader* (`Readers`) is `OpenReader`, which maps every worker file that exists
with the length it has then, `FirstLookup`, which builds the index from the log
as it is at that time (if it does not read, the lookup fails and the next one
tries again), and `CloseReader`. A page of a worker whose file came
after the mapping makes the code panic; the model has an error there.

*The raw chain* is the fold of `stream` over the log: `enter` completes a
snapshot at the first record of another one, `apply_record` puts the resolved
page into the image, and the outcome is done, truncated (a page could not be
resolved) or panicked (the log goes back). The loader of the chain is not part
of bxdb; `load_raw` is how the comments of the converter say it works.

*The tools* run while no writer is open (`Offline`). `to_btree` and `to_log`
replace one file by a rename and are one step. purge is one action per file it
changes: `TruncateBlob` per worker file, `CleanupBlob` per removed file,
`PurgeIndex`, `PurgeLog`; it may be killed anywhere (`ToolCrash`) and fails at a
missing worker file (`TruncateFail`). `set_len` beyond the end of a file fills
it with zeros, which is `Hole`: it does not decompress and is a valid patch that
changes nothing. `DeleteLog` and `DeleteIndex` are the user keeping one format,
as the integration tests do.

*The cache* (`SharedCache`). A process runs one call at a time. `create` is
`Create` (the file exists from then on), `CreateNothing` or `Ftruncate`,
`ZeroMetadata`, `InitMeta` per metadata page, `WriteMagic`, `WritePath`. A `get`
is `Get`, `Lock`, then `GetHit` or `GetMiss`; a `put` is `Put`, `Lock`,
`PutFind`, `PutCopied`, `PutKey`; what was hit or put is then stamped (`Decay`,
`Stamp`), and every call ends with `Unlock`. A page is copied in two steps: in
between the slot holds `Torn`. `Kill` ends a process at any step and leaves the
mutex it owns to the next `Lock`, which finds `EOWNERDEAD`, makes the mutex
consistent and goes on with the sets as they are. `older` and `spoiled` are
history: the order in which ways were used, and the slots an owner died over.

*The refinements.* `content` of `VersionedStore` is what loads answer from all
records and blobs the handle has written, with the records of the save in
progress left out until its last one is there; `pending` is that save. `held` of
`PageCache` is what a lookup of a key finds, from the write of its key until a
put begins to overwrite the slot; a slot that an owner has died over is damaged.

## 3. Runs

Every module parameter is a constant; the instances use two words of one bit, so
that pages differ in zero, one or two words, on either side of a threshold of
one entry.

| Run | Instance and bounds | Shows |
|---|---|---|
| `pass` | 3 or 4 pages in two groups, 1 or 2 threads, every bitmap, every interleaving; one snapshot | slots are all written and in order, blobs do not overlap, a save is atomic (`SlotsWritten`, `BlobsDisjoint`, `RefinesStore`) and, under fairness, takes effect (`SaveTakesEffect`); bulk loads of every range on every number of threads agree with `load_page` (`ReadPathsAgree`) |
| `reopen` | 2 pages, 2 snapshots, reopened with 1 or 2 workers; a reader that opens, looks up and closes at any step | order of log and worker files (`LogInOrder`, `BlobsInSnapshotOrder`); the reader sees all that was flushed when it opened (`ReaderSeesSealed`); the raw chain is complete and loads as the database (`ChainAnswers`) |
| `history` | 1 page, ids 0, 1, 524287 and 524288, thresholds 0 (the default) and 1, shadow on and off | `TypeOK`; any mixture of Zero, Full, Delta answers what was saved (`RefinesStore`) |
| `faults` | 1 page, 3 snapshots, one crash and one failed write at any step, buffers that spill at any time, records torn in any way | `SealedHistory` while the log reads, `DeltaHasBase`, `SlotsWritten`, `BlobsDisjoint`, `ReadPathsAgree` |
| `maintain` | 2 pages with a file each, the second only ever A (`SecondPageHoldsA`), 2 snapshots, 2 tool runs, one killed | `FormatsAgree`, `PurgeComplete`, `OrderKept`, `CheckAccepts`, `DeltaHasBase`, `CheckFindsLoss`, `PurgeKeepsPast`; purges that are killed, repeated with another threshold, or fail at a missing file |
| `wreck` | 1 page, 3 snapshots, one crash of the writer, one tool run, one kill | check and purge on a damaged database (`CheckFindsLoss`, `PurgeKeepsPast`) |
| `cache` | 2 processes, 3 keys in a set of 2 ways, timestamps up to 2, 2 metadata pages, one process killed at any step | `TypeOK`, `KeysPlaced`, `OpenedIsInitialised`; a hit answers the last put (`RefinesCache`); the least used page makes room (`OldestMakesRoom`); a wait for a mutex ends, killed owners included (`MutexReleased`) |

Why these bounds are enough: the offsets of a worker file depend on the pages
that share it, which two groups of two pages and one or two files show in every
combination; a chain of versions is Full and Delta only, never deeper, so that
three snapshots hold a base, a Delta and a new base; the header, the log and a
worker file get out of step by one crash or one failed write, and the save, the
reopening and the other fault that follow meet what it left. `MaxToolRuns`
bounds the tools because orphaned bytes after killed purges otherwise grow without
bound; two tool runs are a conversion and a purge of what it made, or a killed
purge and its repetition. In `maintain` the second page is there for the
order among pages and for the second worker file, so that one content
does for it; the first takes all three. In the cache sets are independent but for the
mutex, so that one set with one key too many shows hits, misses, evictions and
races; timestamps up to 2 reach the saturation at 0 that takes 255 uses in the
code; the second metadata page is there for creates that stop between two.
`MaxKills` bounds the kills: a second one meets what the first left only over
another slot of the same kind. `MaxCreators` is 1 where nobody violates the rule
that whoever creates the cache is alone, and 2 in the run `create`.

### Fairness

`FairSpec` of `AppendOnlyDb` asks for weak fairness of `Step`, the steps of calls
that have begun: they are run by the threads of the pool and the caller, which
the scheduler does not starve; the mutex of a worker file is held over one
append only. `FairSpec` of `SharedCache` asks the same of the steps of each
process that has not been killed. Which of several waiting processes gets a
mutex is left open, so that `MutexReleased` promises only that a mutex does not
stay taken, not that a particular process gets it. No call has to be made, no
fault has to happen.

### Where code and documents disagree

Five runs of PROJECT.json expect a violation; "findings" quotes the sentence
and the lines for each.

| Run | What TLC shows |
|---|---|
| `torn` | a process that dies while a later save is on its way into the log leaves part of a Delta there; from then on no snapshot can be read from the log, those that a flush has completed included |
| `lostbase` | a save of two pages that fails at the second leaves the first in the shadow as a base that is in no record; later Deltas against it cannot be loaded |
| `stalepurge` | purge reads only an index that saves have gone past, and leaves the log as it is |
| `blindcheck` | check finds nothing wrong in a database that a load fails in: it does not look where an empty patch lies |
| `create` | two processes create the cache at once and one is killed: `open` then succeeds on a cache whose mutexes and sets are all zero |

The model shows more behaviour of this sort, which bounds or conditions of the
passing properties mention and no run is spent on:

* A save returns with its blobs still in the buffers of the process; a crash
  right after it leaves records without blobs, and a reader meets them before a
  flush (`architecture.md:13` and `:609` call a save durable on return). This is
  why `SealedHistory` and `ReaderSeesSealed` speak of what a flush has completed.
* A crash between the records and the header lets an id be saved again: two
  records share a key (`KeysUnique` says when they do not), and readers use the
  first (`architecture.md:606`). The streaming conversion lets the later one win
  in the image while it resolves Deltas by the index, which keeps the first. When
  the first is not a Full chunk and the second is, later Deltas of the page are
  against the second, which the log has and no index: their loads fail ("delta
  base is not a Full chunk"), and a purge or a conversion drops the base for good.
  This is why `DeltaHasBase` is claimed with crashes, or with tools, and not with
  both.
* A part of a record at the end of the log stays there until a tool writes the
  log anew, and no tool does so without an index: open does not look whether the
  log ends with a whole record (`append_only.rs:177`; the run `torn` shows the
  shortest way to it, a Delta cut after 22 bytes).
* A save without dirty pages returns before the header is written, so that a
  reopened database accepts the id again (`SaveNothing`; `architecture.md:89`).
* After a crash, open continues at the length of a worker file that records of
  lost blobs reach beyond, and later snapshots get their offsets; this is why
  `BlobsDisjoint` and `BlobsInSnapshotOrder` speak of `crashes = 0`
  (`architecture.md:206`).
* A save that fails while writing the log leaves records whose id is not in the
  header, and after a reopening an older id follows them; this is why
  `LogInOrder` speaks of `ioErrors = 0` (`architecture.md:203`).
* A raw chain that is truncated at snapshot 0 says in its metadata that it goes
  up to snapshot 0.
* A purge killed between index and log, run again, finds nothing to do in the
  index and leaves the log (`InStep` excludes it from `PurgeComplete`).
* When a crash has lost blobs, `set_len` makes a worker file longer instead of
  shorter. The zeros are a valid patch, so that a load of a Delta that failed
  before the purge answers the page of its base after it; this is why
  `PurgeKeepsPast` speaks of loads that succeed.
* `check.rs:107` takes key 0 for a missing base, so that check reports every
  Delta against page 0 of snapshot 0 in an intact database. The runs with
  `CheckAccepts` therefore start at snapshot 1.
* When only Zero records of worker 0 are kept, purge neither cuts nor removes
  `worker_0.blob`: a Zero record names worker 0 without having bytes there.
* The next owner of a mutex makes it consistent without looking at the sets, so
  that a put that is killed while it copies leaves a page half written, or
  whole, under the key that the slot had before. `PageCache` allows this damage
  for one key at a time.

The passing properties carry the conditions under which they hold, as these runs
and observations name them: no crash, no write error, no killed purge, no stale index.
`SealedHistory` counts a flush only when no record has lost its blob before, and
like `ReadPathsAgree` speaks of a log that reads; `ReaderSeesSealed` of a reader
that has made its index, which takes one; `CheckFindsLoss` of a check that comes
to the end of the log.
`CheckFindsLoss` leaves out the databases with an empty patch
beyond the end of its file (`unchecked`), which check passes over: a page that
is saved unchanged gets one, a failed save leaves blobs in the buffer in front
of it, and a crash loses both (`blindcheck`).

## 4. Proofs

The proof modules prove, for every number of pages, groups, workers and
snapshots, of processes, sets, ways and keys, and every bound on faults:

* `TypeCorrect` (of the writer): `TypeOK` is an invariant, and inductive as it
  stands. That a group's current page is among its pages still to do, and only
  during the pass, gives the page a worker file and a shadow entry; that the
  dirty pages are among `Pas` keeps `WriteRecord` inside `records_buf`.
* `BlobsNeverOverlap`: `BlobsDisjoint` is an invariant. It is not inductive. Its
  strengthening `Placed` adds that an open handle's offsets are the lengths of
  the files (`OffsetAtEnd`), that a group which is appending has its file to
  itself and has read an offset that is still right (`AppendAlone`, what the
  mutex is for), and that the slots of `records_buf` are apart from each other
  and, while unwritten, from the log (`Located`). An append then goes behind
  everything there is. A crash cuts files below what records say, so from then
  on `Placed` keeps only what the handle knows.
* `BlobsAscend`: `BlobsInSnapshotOrder` is an invariant. On top of `Placed`,
  `Ascending` says that no id of the log is above the header between saves, or
  above the last accepted id of an open handle, and that what is in
  `records_buf` is of the running save: a blob at the end of its file is then
  also of the latest snapshot. A failed write leaves records above the header,
  which is why the property stops there.
* `SlotsAllWritten`: `SlotsWritten` is an invariant, and with it the unsafe
  `set_len` after the pass is sound. The slot of a page is its rank, the number
  of dirty pages below it; lemmas on ranks say that they ascend, that they fill
  `0..total_dirty-1`, and that both ways of dealing out slots (whole groups for
  `save_all_pages`, the prefix sum for a bitmap) start a group at the rank of
  its first page. `Slotted` says that the next slot of a group is the rank of
  the first page it has still to do, and that a page that is done has its record
  in its slot.
* `LogAlwaysInOrder`: `LogInOrder` is an invariant. `Sorted`, on top of
  `Placed`, `Ascending` and `Slotted`, adds where the write of the records
  stands: what is in the log is before what is in the slots to come.
* `DeltasAlwaysHaveBase`: `DeltaHasBase` is an invariant, crashes included. The
  tasks of the pass change the shadow long before a record is in the log, so
  `Based` says for every page where its shadow entry is: in the log, or, for a
  page that is done in a save that goes on, in its slot of `records_buf`. A page
  that is not done yet still has the entry of an earlier save, whose record is
  in the log, and that is the base its Delta gets. The log loses its end in a
  crash, never its middle, so that what is left still has its bases; the shadow
  goes with the process. The invariant speaks of runs without a failed write,
  and the run `lostbase` shows why.
* `TypeCorrect` (of the cache): `TypeOK` is inductive as it stands.
* `OpenedAfterInitialisation`: with one create at a time (`MaxCreators <= 1`),
  `OpenedIsInitialised` is an invariant. `Creation` says that a valid magic is
  only over a metadata that is complete, whatever creates were killed before,
  that a create which writes has nobody attached, and how far it has come. The
  assumption is the duty of whoever calls create, since the code takes no lock;
  the run `create` shows what happens otherwise.
* `KeysAlwaysPlaced`: under the same assumption `KeysPlaced` is an invariant.
  `Exclusive` adds that a process in a call owns the mutex of its sets, death
  and `EOWNERDEAD` included (`OwnsMutex`), and that the way a put has found is
  the only one that may hold its key until the key is written (`PutsAlone`).
* `OldestAlwaysMakesRoom`: under the same assumption a put that evicts takes the
  page unused longest, as long as timestamps have not run down to 0. `Usage`
  relates timestamps to the order of use, also between the decay of a set and
  the stamp of its way, where a process may be killed.
* `PatchRoundTrip`: the patch from a base to a page, applied to the base, gives
  the page, for all words and bits.
* `KeyRoundTrip`: page and snapshot can be read back from a key, for page
  addresses below `PaLimit` and ids of 19 bits.
* `SealedIsFinal`: `SealedHistory` is an action property: what loads answered for
  the snapshots of a flush that completed, they answer from then on, through
  crashes, failed writes and reopenings, as long as the log on disk ends before
  the place where a crash has torn a record. `Sealed` says that the records of that
  flush are still the first of the log and that their blobs are where they were:
  the log and the worker files only grow or lose what the flush had not reached.
  A lemma then shows that the records behind them, all of ids above the sealed
  one, do not change an answer up to it.
* `ReadPathsAlwaysAgree`: `ReadPathsAgree` is an invariant, since it holds of every
  sequence of records: nothing of the writer is needed but its types. The scan of the log is a
  fold; `ScanFinds` gives what it computes in closed form, the first record of
  the highest snapshot, by showing that this solves the recursive equation of the
  fold and that two solutions agree on every beginning of the log (the least
  length at which they differ does not exist). `FloorFinds` shows the same of the
  search in the index, and `SharesCover` that the shares of the threads are all
  of the pages. The property speaks of a log that reads; the proof does not need it.
* `SavesAreAtomic`: without crashes and write errors, `RefinesStore`. `Exact`
  says for every page what a load answers: what the save wrote, read through its
  record, whether in the log or, for a page that is done, in its slot. The last
  record of a save then makes all its pages visible in one step, and every other
  step is a stutter of `VersionedStore`. With faults a save may be visible in
  part, and the theorem ends there: `MaxCrashes = 0` and `MaxIoErrors = 0` are
  its hypotheses.
* `ReaderAlwaysSeesSealed`: `ReaderSeesSealed` is an invariant of the writer
  with a reader beside it, faults included: of a reader that has its index, also
  when a crash tears the log later, and when the log it read was the whole records
  in front of a torn one. `Mapped`, on top of `Sealed`, says
  that what the reader has mapped holds all blobs of what was complete when it
  opened, and that the log it reads, at whatever later time, begins with those
  records.
* `ChainAlwaysAnswers`: `ChainAnswers` is an invariant. `RawAt` gives in closed
  form what the stream has made of any part of the log: the image has the last
  page at each address, the files those of each snapshot before the current one.
  `RawNext` shows that one record more is one step of the stream, for a log in
  the order of the saves; as with the scan, this solves the recursive equation of
  the fold. `RecordsHold`, on top of `Exact`, says that every record of the log
  resolves, so that the stream is never cut short, and `ChainLoads` that the
  newest file with a page has the page that the index finds. The order of the log
  (`Sorted`) is what makes both true: a version that came late would be in the
  image of the wrong snapshot.
* `CacheKeepsItsPromise`: with one create at a time, `RefinesCache`: every step
  of `SharedCache` is a step of `PageCache` or a stutter. `Carried` says what the
  slots hold relative to the last put of their keys, half copied pages and pages
  that an owner has died over included; each action is mapped in a lemma.
* `FormatsAlwaysAgree` and `PurgeIsComplete`: `FormatsAgree` and `PurgeComplete`
  are invariants of `SpecMaintenance`, all faults included. `Tooled` says that a
  log that a tool has written is that of an index in the order of the saves,
  what a purge in progress still has to do, and that the formats agree wherever
  `InStep` allows it. They rest on `LogOfIndex`: the index of the log written
  from an index is that index. The records of an index are placed by counting
  those that come before, and lemmas show that in a total order of a finite set
  this gives every record one place, and every place one record.
* `CheckFindsAllLoss`: `CheckFindsLoss` is an invariant of `SpecMaintenance`, all
  faults included, also while a writer is at work. `AllSound` says what every
  record and every record about to be written looks like (its kind, length, and
  base of its own page), which no crash or purge changes. A record that check
  has read and finds nothing wrong with has then a blob that reads as its kind says, and so
  has its base. `CheckAlwaysFindsLoss` without the condition is false, as
  `blindcheck` shows; the attempt to prove it is how that came to light.
* `PurgeAlwaysKeepsPast`: `PurgeKeepsPast` is an action property of
  `SpecMaintenance`, all faults included, wherever a purge fails or is killed.
  `Anchored` says that a Delta, in the log, in `records_buf`, in the index or in
  what a purge keeps, has its base in an earlier or the same version of its own
  page; that no handle is open and all is on disk while a tool runs; and that
  what a purge keeps is what it would keep if it read the records again. A base
  is then kept with its Delta (`KeptPreserves`), and the cut of a worker file is
  behind the last blob of both (`TruncateKeeps`). `set_len` may also lengthen a
  file that a crash has cut short, which turns a load that failed into one that
  reads what the cut has filled in; hence the property, and `LoadStays`, speak of
  the loads that succeed. Where there is neither an index nor a log that reads,
  none does (`LoadsFail`), and no purge takes away what loads read (`PurgeReads`).
* `OrderAlwaysKept`, `BasesOutlastTools` and `CheckAlwaysAccepts`: `OrderKept` is
  an invariant of `SpecMaintenance`, `DeltaHasBase` is one until a process is
  killed or a write fails (`Healthy`), and `CheckAccepts` is one if snapshot 0 is not saved.
  `Placed`, `Ascending`, `Sorted` and `Based` speak of the log and the handle,
  and a tool rewrites the log, so none of them survives as it stands. `Orderly`
  puts in between what holds of an index as well (`Apart`: blobs apart and in the
  order of the snapshots, every Delta with its Full base; `Held`: every record
  with its file and bytes of its sort). A closed database has it from the writer
  (`UprightRests`); building the index of a log, keeping the records up to a
  threshold and writing the log of an index preserve it (`IndexApart`,
  `KeptApart`, `LogOfApart`); and a log that has it is one that a writer may open
  (`Resting`). While a purge runs, the log may name bytes that are cut off, and
  the index too, until each is written anew; what is kept never does, and that is
  why `KeptHeld` needs the cut of a file to be behind its last kept blob. For
  check there is also `Kinds`: bytes are of the sort that their record says, and
  the files of records exist (`LogNamed`).

Each strengthening was also checked with TLC: `Placed`, `Ascending`, `Slotted`
and `Sorted` on the instances of `pass`, `faults` and `reopen`, `Based` and
`Sealed` on the first two, `Exact` on `pass` and `history`, `RecordsHold` on
`reopen`, `Mapped` on `reopen`, and on one page of it with a crash and a write error,
`AllSound`, `Tooled`, `Orderly` and `Anchored` on `maintain` and `wreck`,
`Creation`, `Exclusive`, `Usage` and `Carried` on that of `cache`.

Assumptions: `ChunkAssumption`, `AppendOnlyDbAssumption`,
`MaintenanceAssumption` and `SharedCacheAssumption`, the ranges of the
constants; the code justifies them by the types of the parameters,
`MaxPages <= PaLimit` by the size of an address space, and `0 \in Keys` by key 0
being page 0 of snapshot 0. TLC evaluates them in every run of their modules.
Some theorems have a hypothesis of their own, on a bound of faults or of
concurrent creates, as said above; that of `CheckAlwaysAccepts`, that 0 is not
among the snapshots, is needed: `check.rs:107` takes a `base_key` of 0 for none.

Only model-checked:

* `SaveTakesEffect` and `MutexReleased`: liveness is beyond the prover.

## 5. Not modelled

* Loss of power. flush and the tools call fsync, saves do not; the model has only
  crashes of the process, which what is with the operating system survives.
* Bytes: encodings of records, headers with magic and version, compression, the
  layout of raw files. Of a torn record the model has what follows from it, not
  its bytes: an entry stands for the many that fill a buffer, and where in them a
  write ends is left open. What a garbled log reads as is not followed either. The
  model takes every load from it for an error; read in the wrong place, bytes may
  by accident be records of a valid kind, and the loads are then of those.
* What others see of the log of a process that is alive while it ends with part of
  a record, in the middle of a `write(2)` or after one cut short that the process
  has survived: a first lookup may then fail at a Delta, and tries again later.
  The model lets readers see whole records.
* A failed write of the four bytes of the header, or part of it, and of flush and
  fsync themselves.
* Two writers, or a tool beside a writer, on one directory: the code has no lock
  against it and no document or test does it. Readers that stay open while tools
  replace and cut files: purge cuts files that the reader has mapped, and an
  access there is a fault of the process, which no property could describe.
* A bulk load on the writer's own handle before a flush meets records whose
  blobs are in the buffers, and fails; `ReadPathsAgree` reads what is on disk.
* In the cache: a process has one thread; zeroing the metadata, and the writing
  of the path, are one step each; errors of the mutex attributes. `Create` of
  another identity and `Delete` happen only while nobody is attached, and `Open`
  only while no create runs: the code leaves both to its callers. The accessors
  of the viewer (`slot_key` and its like) read without the mutex and only
  display what they find.
* The cache beside a database (a key that is purged and saved again while an
  older page is cached): `DISABLE_SHARED_CACHE` is `true` in `btree.rs:32`, and
  `load_page` passes the cache by.
* Timing counters, parsing of the command line, `bxdb-inspect`: input and output
  only.

## 6. Plan

Done, in this order: `Chunk`, `AppendOnlyDb`, `PageStore`, `VersionedStore`,
`BxDb`, `Check`, `Maintenance`; the theorems on types, blobs and their order;
`SharedCache` with `PageCache`; `Readers`, `RawChain` and the division of the
pages in bulk loads; the theorems on slots, the log, bases and the cache; both
refinements, the sealed history, the reader, the read paths, the raw chain, and
the formats, purge (complete, and keeping the past), check (finding all loss, and
accepting what is whole), and the order and the bases across the tools.

What would come next:

1. The cache in the read path, should `DISABLE_SHARED_CACHE` be switched off:
   a composition of `SharedCache`, `BxDb` and `Maintenance`, in which entries of
   purged snapshots outlive them.
