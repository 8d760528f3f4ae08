-------------------------------- MODULE BxDb --------------------------------
(***************************************************************************)
(* The writer and the readers of one database: what loads answer from the  *)
(* files that AppendOnlyDb leaves behind.                                  *)
(***************************************************************************)
EXTENDS AppendOnlyDb, PageStore

CONSTANT Queries    \* the snapshot ids that loads are called with

ASSUME QueriesAssumption == Queries \subseteq 0..MAX_SNAPSHOT_ID

\* The files as another process finds them.
disk_log   == SubSeq(log, 1, logOnDisk)
disk_blobs == [w \in Workers |-> SubSeq(blobs[w], 1, blobOnDisk[w])]

\* Every answer that load_page gives, from given files.  The index is bound by
\* a quantifier, which TLC evaluates once, where a LET would be evaluated anew
\* at every use in an action.
answers(recs, files) ==
    CHOOSE table \in {[pa \in Pas |-> [q \in Queries |-> load_page(idx, files, pa, q)]] :
                          idx \in {build_lazy_index(r) : r \in {recs}}} : TRUE

\* The pages as the scan of the log by load_all_pages finds them.
scanned(recs, files) ==
    CHOOSE table \in {[pa \in Pas |-> [q \in Queries |-> load_scanned(recs, idx, files, pa, q)]] :
                          idx \in {build_lazy_index(r) : r \in {recs}}} : TRUE

\* The outcome of a bulk load is that of the loads of its pages.
Agrees(bulk, loads) ==
    /\ bulk.status = "error" <=> \E j \in DOMAIN loads : loads[j] = Error
    /\ bulk.status = "ok"    <=> \A j \in DOMAIN loads : loads[j] \notin {Error, Missing}
    /\ bulk.status # "error"  => bulk.out = [j \in DOMAIN loads |-> loads[j][2]]

-----------------------------------------------------------------------------
(* The database implements VersionedStore.  The save in progress is        *)
(* pending until its call returns; its records do not count before.        *)

saving == pc \in {"pass", "write", "header"}

\* The last records of the log are those that the save in progress has written.
settled_log == IF saving THEN SubSeq(log, 1, Len(log) - next) ELSE log

content == answers(settled_log, blobs)

pending == IF saving THEN [snapshot |-> snapshot_id, memory |-> memory]
                     ELSE [snapshot |-> -1, memory |-> <<>>]

Store == INSTANCE VersionedStore WITH Answer <- Ok, NoAnswer <- Missing

\* Every save is atomic and exact, for all later loads and for good: a load
\* of (pa, q) from what the handle has written answers the contents that the
\* last save up to q gave pa, whatever mixture of Zero, Full and Delta chunks,
\* of worker files and of reopenings the versions of the page went through,
\* and in whatever order the threads of the pool did their work.
RefinesStore == Store!Safety

\* With the threads of the pool not starved, every accepted save takes effect.
SaveTakesEffect == Store!Spec

-----------------------------------------------------------------------------

\* Flushed history is final as long as the log reads: once a flush has returned
\* with all blobs in their files, no save, failed save, crash, reopening or
\* repeated snapshot id changes what the files answer for the snapshots up to the
\* header at that time.  A record torn by a crash takes all loads or none.
SealedHistory ==
    [][\A pa \in Pas, q \in Queries :
          (q <= sealed /\ log_reads /\ log_reads')
              => answers(disk_log, disk_blobs)'[pa][q]
               = answers(disk_log, disk_blobs)[pa][q]]_vars

\* architecture.md: fsync before returning from save guarantees durability; a crash
\* after return leaves a consistent state.  So what has been flushed can be read.
SealedAlwaysReads == sealed # None => log_reads

\* The read paths agree: load_page, and bulk loads by a scan of the log or by
\* an index made from it, answer the same for every query, every range of pages
\* and every number of threads, on every log that a crash can leave, records
\* with equal keys and blobs that are not there included.  Where the log does not
\* read, all of them fail.
ReadPathsAgree ==
    log_reads => \A table \in {answers(disk_log, disk_blobs)} :
        /\ scanned(disk_log, disk_blobs) = table
        /\ \A pa \in Pas, q \in Queries, n \in 1..(MaxPages + 1) :
              \A total \in 1..(MaxPages - pa) :
                  Agrees(load_all_pages([p \in Pas |-> table[p][q]], pa, total, n),
                         [j \in 0..(total - 1) |-> table[pa + j][q]])
=============================================================================
