----------------------------- MODULE PageStore -----------------------------
(***************************************************************************)
(* The read side of bxdb (bxdb-core/src/btree.rs and the bulk loads of     *)
(* append_only.rs), as operators on what is on disk: the records of        *)
(* chunks.log in file order and the contents of the worker files.          *)
(*                                                                         *)
(* A load answers a pair: <<"ok", page>>, <<"missing", zero page>> when no *)
(* record applies (the code returns false and leaves the page zero), or    *)
(* <<"error", zero page>> when the code returns an error.                  *)
(***************************************************************************)
EXTENDS Chunk, Sequences, SequencesExt

Ok(page) == <<"ok", page>>
Missing  == <<"missing", ZeroPage>>
Error    == <<"error", ZeroPage>>

-----------------------------------------------------------------------------
(* The index: a stable sort by key of which dedup keeps, of the records    *)
(* with one key, the first.  A sorted array of distinct keys is a function *)
(* from keys to records.                                                   *)

\* Mutant: of the records with one key the last is kept.
build_lazy_index_last(recs) ==
    [key \in {recs[i].key : i \in DOMAIN recs} |->
        recs[CHOOSE i \in DOMAIN recs :
                /\ recs[i].key = key
                /\ \A j \in (i + 1)..Len(recs) : recs[j].key # key]]

build_lazy_index(recs) ==
    [key \in {recs[i].key : i \in DOMAIN recs} |->
        recs[CHOOSE i \in DOMAIN recs :
                /\ recs[i].key = key
                /\ \A j \in 1..(i - 1) : recs[j].key # key]]

\* The record with the greatest key up to key, if it is of page pa: the set of
\* no or one record.
floor_sorted(idx, key, pa) ==
    {idx[k] : k \in {k \in DOMAIN idx : /\ k <= key
                                        /\ \A j \in DOMAIN idx : j <= key => j <= k
                                        /\ pa_of(k) = pa}}

exact_sorted(idx, key) == {idx[k] : k \in DOMAIN idx \intersect {key}}

-----------------------------------------------------------------------------
(* Blobs.                                                                  *)

in_range(blobs, rec) == rec.offset + rec.len <= Len(blobs[rec.worker_id])

\* A Full record whose bytes are those of a patch does not decompress.
decompress_blob_into(blobs, rec) ==
    IF /\ in_range(blobs, rec)
       /\ rec.len = 1
       /\ blobs[rec.worker_id][rec.offset + 1].kind = "Full"
    THEN Ok(blobs[rec.worker_id][rec.offset + 1].data)
    ELSE Error

\* The patch of a Delta record: the set of no or one patch.  A record whose
\* bytes are those of a compressed page has none: their number is no multiple
\* of 10, or a word index in them is out of range.
delta_patch_of(blobs, rec) ==
    IF ~in_range(blobs, rec) THEN {}
    ELSE IF rec.len = 0 THEN {<<>>}
    ELSE {b.data : b \in {x \in {blobs[rec.worker_id][rec.offset + 1]} : x.kind = "Delta"}}

\* The Full chunk that a Delta is applied to.
load_full(idx, blobs, base_key) ==
    IF \E base \in exact_sorted(idx, base_key) : base.kind = "Full"
    THEN decompress_blob_into(blobs, idx[base_key])
    ELSE Error

apply_delta(full, patches) ==
    IF full = Error \/ patches = {} THEN Error
    ELSE CHOOSE r \in {Ok(apply_delta_patch(full[2], patch)) : patch \in patches} : TRUE

resolve_uncached(idx, blobs, rec) ==
    CASE rec.kind = "Zero"  -> Ok(ZeroPage)
      [] rec.kind = "Full"  -> decompress_blob_into(blobs, rec)
      [] rec.kind = "Delta" -> apply_delta(load_full(idx, blobs, rec.base_key),
                                           delta_patch_of(blobs, rec))
      [] OTHER -> Error

\* What a load makes of the records that it has found, none or one.
resolve(idx, blobs, found) ==
    IF found = {} THEN Missing
    ELSE CHOOSE r \in {resolve_uncached(idx, blobs, rec) : rec \in found} : TRUE

-----------------------------------------------------------------------------
(* load_page of a BtreeDb, and load_all_pages by a scan of the log or by   *)
(* the index.                                                              *)

load_page(idx, blobs, pa, snapshot_id) ==
    resolve(idx, blobs, floor_sorted(idx, encode_key(pa, snapshot_id), pa))

\* The scan keeps, of the records of pa up to the snapshot, the first of the
\* highest snapshot.
scan_latest(recs, pa, snapshot_id) ==
    FoldLeft(LAMBDA latest, rec :
                 IF \/ pa_of(rec.key) # pa
                    \/ snapshot_of(rec.key) > snapshot_id
                    \/ \E prev \in latest : snapshot_of(prev.key) >= snapshot_of(rec.key)
                 THEN latest
                 ELSE {rec},
             {}, recs)

\* The pages are divided among n threads, each of which fills in its share.
\* Mutant: the quotient is rounded down.
pages_per_worker_floor(total, n) == total \div n

pages_per_worker(total, n) == (total + n - 1) \div n

share(total, n, i) ==
    {j \in 0..(total - 1) : /\ i * pages_per_worker(total, n) <= j
                           /\ j < (i + 1) * pages_per_worker(total, n)}

\* What load_all_btree and load_all_scan make of the answers for the pages: an
\* error in one share fails the load, a page without a version makes it return
\* false.  The pages of a load that fails are left out.
load_all_pages(answer, pa_offset, total, n) ==
    LET filled == UNION {share(total, n, i) : i \in 0..(n - 1)}
        of(j)  == answer[pa_offset + j]
    IN  IF \E j \in filled : of(j) = Error THEN [status |-> "error"]
        ELSE [status |-> IF \E j \in filled : of(j) = Missing THEN "missing" ELSE "ok",
              out    |-> [j \in 0..(total - 1) |-> IF j \in filled THEN of(j)[2] ELSE ZeroPage]]

load_scanned(recs, idx, blobs, pa, snapshot_id) ==
    resolve(idx, blobs, scan_latest(recs, pa, snapshot_id))
=============================================================================
