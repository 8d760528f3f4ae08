------------------------------ MODULE RawChain ------------------------------
(***************************************************************************)
(* convert-to-raw (bxdb-core/src/bin/convert_to_raw.rs): streams           *)
(* chunks.log and writes one file per snapshot with the pages that the     *)
(* snapshot has touched, and the loader of such a chain, which looks for a *)
(* page in the file of the snapshot and then in those before it.           *)
(*                                                                         *)
(* The state of the conversion is a record: the chain written so far, the  *)
(* memory image, the pages of the current snapshot, and how it goes on:    *)
(* "streaming", "truncated" (a page could not be resolved), or "panicked"  *)
(* (the log is out of order).                                              *)
(***************************************************************************)
EXTENDS PageStore

NoChain == [snapshot \in {} |-> <<>>]

StartRaw == [files |-> NoChain, image |-> [pa \in {} |-> ZeroPage], dirty |-> {},
             current |-> 0, last_pa |-> 0, status |-> "streaming"]

\* Mutant: pages that are zero are left out of every file.
written_pages_nonzero(raw) == {pa \in raw.dirty : ~is_all_zero(raw.image[pa])}

\* There is nothing before snapshot 0 that a zero page would have to hide.
written_pages(raw) == {pa \in raw.dirty : raw.current # 0 \/ ~is_all_zero(raw.image[pa])}

\* The chain with the file of the current snapshot.
flush_snapshot(raw) ==
    [s \in DOMAIN raw.files \union {raw.current} |->
        IF s = raw.current THEN [pa \in written_pages(raw) |-> raw.image[pa]]
        ELSE raw.files[s]]

\* The log is not in the order of the saves.
out_of_order(raw, rec) ==
    \/ snapshot_of(rec.key) < raw.current
    \/ snapshot_of(rec.key) = raw.current /\ pa_of(rec.key) < raw.last_pa

\* At the first record of another snapshot the current one is complete.
enter(raw, rec) ==
    IF snapshot_of(rec.key) = raw.current THEN [raw EXCEPT !.last_pa = pa_of(rec.key)]
    ELSE [raw EXCEPT !.files = flush_snapshot(raw), !.dirty = {},
                     !.current = snapshot_of(rec.key), !.last_pa = pa_of(rec.key)]

put_page(raw, pa, page) ==
    [raw EXCEPT !.dirty = @ \union {pa},
                !.image = [q \in DOMAIN @ \union {pa} |-> IF q = pa THEN page ELSE @[q]]]

apply_record(raw, rec, answer) ==
    IF answer = Error THEN [enter(raw, rec) EXCEPT !.status = "truncated"]
    ELSE put_page(enter(raw, rec), pa_of(rec.key), answer[2])

stream(raw, rec, answer) ==
    IF raw.status # "streaming" THEN raw
    ELSE IF out_of_order(raw, rec) THEN [raw EXCEPT !.status = "panicked"]
    ELSE apply_record(raw, rec, answer)

\* The chain, and the snapshot up to which raw-meta says that it goes.  The
\* last snapshot is written unless one of its pages could not be resolved.
convert_to_raw(recs, idx, blobs) ==
    LET last == FoldLeft(LAMBDA raw, rec : stream(raw, rec, resolve_uncached(idx, blobs, rec)),
                         StartRaw, recs)
    IN  CASE last.status = "panicked"  -> [status |-> "panicked", files |-> last.files, max |-> 0]
          [] last.status = "truncated" ->
                [status |-> "truncated", files |-> last.files,
                 max |-> IF last.current = 0 THEN 0 ELSE last.current - 1]
          [] last.status = "streaming" ->
                [status |-> "done", files |-> flush_snapshot(last), max |-> last.current]

\* The loader is not part of bxdb.  A page that is in no file is zero.
load_raw(files, pa, snapshot) ==
    LET holders == {s \in DOMAIN files : s <= snapshot /\ pa \in DOMAIN files[s]}
    IN  IF holders = {} THEN ZeroPage
        ELSE files[CHOOSE s \in holders : \A t \in holders : t <= s][pa]
=============================================================================
