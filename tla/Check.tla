-------------------------------- MODULE Check --------------------------------
(***************************************************************************)
(* bxdb check (bxdb-core/src/check.rs): the errors that it reports on the  *)
(* records of chunks.log and the worker files, as the set of the positions *)
(* in the log of the records that it reports.                              *)
(***************************************************************************)
EXTENDS PageStore

\* Mutants: only patches are looked at; only the size of the file is.
blob_ok_delta(blobs, rec) ==
    \/ rec.kind # "Delta"
    \/ rec.len = 0
    \/ /\ in_range(blobs, rec)
       /\ blobs[rec.worker_id][rec.offset + 1].kind = rec.kind
blob_ok_sized(blobs, rec) == rec.kind = "Zero" \/ rec.len = 0 \/ in_range(blobs, rec)

\* check_full and check_delta: the bytes are there and are of the right sort.
\* A record of no bytes is not looked at.
blob_ok(blobs, rec) ==
    \/ rec.kind = "Zero"
    \/ rec.len = 0
    \/ /\ in_range(blobs, rec)
       /\ blobs[rec.worker_id][rec.offset + 1].kind = rec.kind

\* Where full_index finds the base of a Delta: the last Full or Zero record
\* with the key, none or one.
full_index(recs, key) ==
    {i \in DOMAIN recs : /\ recs[i].key = key
                         /\ recs[i].kind \in {"Full", "Zero"}
                         /\ \A j \in (i + 1)..Len(recs) :
                               recs[j].key = key => recs[j].kind \notin {"Full", "Zero"}}

base_ok(recs, rec) ==
    rec.kind = "Delta" =>
        /\ rec.base_key # 0
        /\ \E i \in full_index(recs, rec.base_key) : recs[i].kind = "Full"

check(recs, blobs, files) ==
    {i \in DOMAIN recs : \/ recs[i].worker_id \notin files
                         \/ ~blob_ok(blobs, recs[i])
                         \/ ~base_ok(recs, recs[i])}
=============================================================================
