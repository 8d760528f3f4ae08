------------------------------- MODULE Readers -------------------------------
(***************************************************************************)
(* A reader that keeps the database open (PageStore::open and the lookups  *)
(* of bxdb-core/src/btree.rs) while a writer goes on saving, is closed and *)
(* opened again.  The reader maps the worker files, as long as they are,   *)
(* when it opens, and reads chunks.log at its first lookup: what it knows  *)
(* of the two is of different times, and of neither does it learn more.    *)
(***************************************************************************)
EXTENDS BxDb, RawChain

VARIABLES
    blob_files,     \* the workers that have a file
    \* the reader
    reader,         \* "none", "open", "indexed"
    mapped,         \* the lengths of its mappings, by worker
    index,          \* its lazy index
    \* history
    promised        \* sealed when it opened

readerVars  == <<reader, mapped, index, promised>>
sharedVars  == <<vars, blob_files, readerVars>>

NoMapping == [w \in {} |-> 0]
NoIndex   == [k \in {} |-> Uninit]

InitReaders ==
    /\ Init
    /\ blob_files = {}
    /\ reader = "none"
    /\ mapped = NoMapping
    /\ index = NoIndex
    /\ promised = None

\* A step of the writer.  Opening the database creates the worker files.
WriterStep ==
    /\ Next
    /\ blob_files' = IF isOpen' THEN blob_files \union 0..(blob_count' - 1) ELSE blob_files
    /\ UNCHANGED readerVars

OpenReader ==
    /\ reader = "none"
    /\ header # None
    /\ reader' = "open"
    /\ mapped' = [w \in blob_files |-> blobOnDisk[w]]
    /\ promised' = sealed
    /\ UNCHANGED <<vars, blob_files, index>>

\* ensure_lazy_index, at the first lookup.  If the log does not read, the lookup
\* fails and keeps nothing: the next one tries again.
FirstLookup ==
    /\ reader = "open"
    /\ log_reads
    /\ reader' = "indexed"
    /\ index' = build_lazy_index(disk_log)
    /\ UNCHANGED <<vars, blob_files, mapped, promised>>

CloseReader ==
    /\ reader # "none"
    /\ reader' = "none"
    /\ mapped' = NoMapping
    /\ index' = NoIndex
    /\ promised' = None
    /\ UNCHANGED <<vars, blob_files>>

NextReaders == WriterStep \/ OpenReader \/ FirstLookup \/ CloseReader

SpecReaders == InitReaders /\ [][NextReaders]_sharedVars

-----------------------------------------------------------------------------
(* Properties.                                                             *)

\* The bytes that the reader sees.  A file that came later is not mapped: the
\* code panics there, which is as good as a file of no bytes, an error.
mapped_blobs ==
    [w \in Workers |-> IF w \in DOMAIN mapped THEN SubSeq(blobs[w], 1, mapped[w]) ELSE <<>>]

\* Once a reader has its index, however far the writer has gone on since the
\* reader mapped the files, and between that and the first lookup: the snapshots
\* that had been flushed when it opened load as they do from all the records that
\* the writer has written, whether the log still reads or not.
ReaderSeesSealed ==
    reader = "indexed" =>
        \A pa \in Pas, q \in Queries : q <= promised =>
            load_page(index, mapped_blobs, pa, q) = load_page(build_lazy_index(log), blobs, pa, q)

\* The raw chain of a closed database that neither crash nor failed write has
\* touched is complete, and every page of it loads as from the database.
ChainAnswers ==
    (~isOpen /\ crashes = 0 /\ ioErrors = 0) =>
        \A chain \in {convert_to_raw(log, build_lazy_index(log), blobs)} :
            /\ chain.status = "done"
            /\ \A pa \in Pas, q \in Queries :
                  q <= chain.max => load_raw(chain.files, pa, q) = answers(log, blobs)[pa][q][2]
=============================================================================
