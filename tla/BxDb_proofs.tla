---------------------------- MODULE BxDb_proofs -----------------------------
(***************************************************************************)
(* What loads answer, for all values of the constants.                     *)
(*                                                                         *)
(* A load of page pa at snapshot q depends on no other records than those  *)
(* of pa up to q, and on their blobs: SameLoad says so.  SealedHistory     *)
(* then rests on an invariant of the writer, Sealed: the records up to the *)
(* sealed snapshot are on disk with their blobs, and ids that are accepted *)
(* later are above it, whatever crashes and write errors occur.            *)
(***************************************************************************)
EXTENDS BxDb, AppendOnlyDb_log_proofs, WellFoundedInduction

-----------------------------------------------------------------------------
(* What the answer of a load depends on.                                   *)

\* Key k is that of a version of page pa up to snapshot q.
Past(pa, q, k) == pa_of(k) = pa /\ snapshot_of(k) <= q

\* A record finds the same bytes in two sets of files, or finds none in both.
SameBytes(rec, files1, files2) ==
    /\ in_range(files1, rec) <=> in_range(files2, rec)
    /\ (in_range(files1, rec) /\ rec.len = 1) =>
          files1[rec.worker_id][rec.offset + 1] = files2[rec.worker_id][rec.offset + 1]

\* What a Delta is applied to is a version of the same page that is no later.
DeltaWithin(rec) ==
    rec.kind = "Delta" => Past(pa_of(rec.key), snapshot_of(rec.key), rec.base_key)

\* Two indexes and their files are the same for the versions of pa up to q.
SamePast(pa, q, idx1, files1, idx2, files2) ==
    \A k \in Nat : Past(pa, q, k) =>
        /\ k \in DOMAIN idx1 <=> k \in DOMAIN idx2
        /\ k \in DOMAIN idx1 =>
              /\ idx1[k] = idx2[k] /\ idx1[k] \in Slot /\ idx1[k].key = k
              /\ DeltaWithin(idx1[k])
              /\ SameBytes(idx1[k], files1, files2)

Smaller == {pair \in Nat \X Nat : pair[1] < pair[2]}

\* A set of numbers that is not empty has a least one.
LEMMA LeastOf ==
    ASSUME NEW T, T \subseteq Nat, T # {}
    PROVE  \E m \in T : \A n \in T : m <= n
<1>1. IsWellFoundedOn(Smaller, Nat)
  BY NatLessThanWellFounded DEF OpToRel, Smaller
<1>2. \E m \in T : \A n \in T : ~(<<n, m>> \in Smaller)
  BY <1>1, WFMin
<1>3. \A m, n \in T : <<n, m>> \in Smaller <=> n < m
  BY DEF Smaller
<1>4. \A m, n \in T : ~(n < m) => m <= n
  OBVIOUS
<1> QED
  BY <1>2, <1>3, <1>4

\* Of the records with one key, one is the first.
LEMMA FirstWith ==
    ASSUME NEW recs \in Seq(Slot), NEW k, k \in {recs[i].key : i \in DOMAIN recs}
    PROVE  \E i \in DOMAIN recs : recs[i].key = k /\ \A j \in 1..(i - 1) : recs[j].key # k
<1> DEFINE T == {i \in DOMAIN recs : recs[i].key = k}
<1>1. DOMAIN recs = 1..Len(recs) /\ Len(recs) \in Nat
  OBVIOUS
<1>2. T \subseteq Nat /\ T # {}
  BY <1>1
<1>3. PICK i \in T : \A n \in T : i <= n
  BY <1>2, LeastOf
<1>4. ASSUME NEW j \in 1..(i - 1) PROVE recs[j].key # k
  <2>1. j \in DOMAIN recs /\ j < i
    BY <1>1, <1>3
  <2> QED
    BY <1>1, <1>3, <2>1
<1> QED
  BY <1>3, <1>4

\* The index holds the first of the records with one key.
LEMMA IndexFirst ==
    ASSUME NEW recs \in Seq(Slot), NEW i \in DOMAIN recs,
           \A j \in 1..(i - 1) : recs[j].key # recs[i].key
    PROVE  /\ recs[i].key \in DOMAIN build_lazy_index(recs)
           /\ build_lazy_index(recs)[recs[i].key] = recs[i]
<1> DEFINE k == recs[i].key
           First(n) == recs[n].key = k /\ \A j \in 1..(n - 1) : recs[j].key # k
<1>1. DOMAIN recs = 1..Len(recs) /\ Len(recs) \in Nat
  OBVIOUS
<1>2. First(i)
  OBVIOUS
<1>3. ASSUME NEW n \in DOMAIN recs, First(n) PROVE n = i
  <2>1. n \in Nat /\ i \in Nat /\ n >= 1 /\ i >= 1
    BY <1>1
  <2>2. ~(n < i)
    <3> SUFFICES ASSUME n < i PROVE FALSE
      OBVIOUS
    <3>1. n \in 1..(i - 1)
      BY <2>1
    <3> QED
      BY <1>2, <1>3, <3>1
  <2>3. ~(i < n)
    <3> SUFFICES ASSUME i < n PROVE FALSE
      OBVIOUS
    <3>1. i \in 1..(n - 1)
      BY <2>1
    <3> QED
      BY <1>3, <3>1
  <2> QED
    BY <2>1, <2>2, <2>3
<1>4. (CHOOSE n \in DOMAIN recs : First(n)) = i
  BY <1>2, <1>3
<1>5. build_lazy_index(recs)[k] = recs[CHOOSE n \in DOMAIN recs : First(n)]
  BY DEF build_lazy_index
<1> QED
  BY <1>4, <1>5 DEF build_lazy_index

LEMMA IndexDomain ==
    ASSUME NEW recs
    PROVE  DOMAIN build_lazy_index(recs) = {recs[i].key : i \in DOMAIN recs}
  BY DEF build_lazy_index

LEMMA IndexNat == \A recs \in Seq(Slot) : DOMAIN build_lazy_index(recs) \subseteq Nat
<1> SUFFICES ASSUME NEW recs \in Seq(Slot) PROVE DOMAIN build_lazy_index(recs) \subseteq Nat
  OBVIOUS
<1>1. \A i \in DOMAIN recs : recs[i] \in Slot
  OBVIOUS
<1>2. \A r \in Slot : r.key \in Nat
  BY DEF Slot
<1> QED
  BY <1>1, <1>2, IndexDomain

\* What the index holds are records, at their keys.
LEMMA IndexHolds ==
    ASSUME NEW recs \in Seq(Slot), NEW k \in DOMAIN build_lazy_index(recs)
    PROVE  \E i \in 1..Len(recs) :
              /\ recs[i].key = k /\ build_lazy_index(recs)[k] = recs[i]
              /\ \A j \in 1..(i - 1) : recs[j].key # k
<1>0. k \in {recs[i].key : i \in DOMAIN recs}
  BY IndexDomain
<1>1. PICK i \in DOMAIN recs : recs[i].key = k /\ \A j \in 1..(i - 1) : recs[j].key # k
  BY <1>0, FirstWith
<1> QED
  BY <1>1, IndexFirst

-----------------------------------------------------------------------------
(* The versions of a page.                                                 *)

LEMMA SnapshotRange ==
    \A q \in 0..MAX_SNAPSHOT_ID : q \in Nat /\ q <= MAX_SNAPSHOT_ID /\ q < SNAPSHOT_LIMIT
<1>1. MAX_SNAPSHOT_ID \in Nat /\ MAX_SNAPSHOT_ID < SNAPSHOT_LIMIT /\ SNAPSHOT_LIMIT \in Nat
  BY SMT DEF MAX_SNAPSHOT_ID, SNAPSHOT_LIMIT
<1> QED
  BY <1>1

\* The keys of the versions of page pa up to snapshot q lie below that of q,
\* and above those of all lower pages.
LEMMA FloorKeys ==
    ASSUME NEW pa \in 0..(PaLimit - 1), NEW q \in 0..MAX_SNAPSHOT_ID, NEW k \in Nat
    PROVE  /\ k <= encode_key(pa, q) => pa_of(k) < pa \/ Past(pa, q, k)
           /\ Past(pa, q, k) => k <= encode_key(pa, q)
           /\ \A j \in Nat : (pa_of(j) < pa /\ pa_of(k) = pa) => j <= k
<1>1. q \in Nat /\ q < SNAPSHOT_LIMIT
  BY SnapshotRange
<1>2. pa \in Nat /\ pa % PaLimit = pa
  BY ChunkAssumption
<1>3. encode_key(pa, q) = pa * SNAPSHOT_LIMIT + q
  BY <1>1, <1>2, SplitKey DEF encode_key
<1>4. k <= pa * SNAPSHOT_LIMIT + q => pa_of(k) < pa \/ Past(pa, q, k)
  BY <1>1, <1>2, SMT DEF Past, pa_of, snapshot_of, SNAPSHOT_LIMIT
<1>5. Past(pa, q, k) => k <= pa * SNAPSHOT_LIMIT + q
  BY <1>1, <1>2, SMT DEF Past, pa_of, snapshot_of, SNAPSHOT_LIMIT
<1>6. \A j \in Nat : (pa_of(j) < pa /\ pa_of(k) = pa) => j <= k
  BY <1>2, SMT DEF pa_of, SNAPSHOT_LIMIT
<1> QED
  BY <1>3, <1>4, <1>5, <1>6

\* The search by key finds the greatest version of the page up to the snapshot.
LEMMA FloorMeaning ==
    ASSUME NEW idx, DOMAIN idx \subseteq Nat,
           NEW pa \in 0..(PaLimit - 1), NEW q \in 0..MAX_SNAPSHOT_ID
    PROVE  floor_sorted(idx, encode_key(pa, q), pa) =
              {idx[k] : k \in {k \in DOMAIN idx :
                  /\ Past(pa, q, k)
                  /\ \A j \in DOMAIN idx : Past(pa, q, j) => j <= k}}
<1> DEFINE key == encode_key(pa, q)
           IsFloor(k) == /\ k <= key
                         /\ \A j \in DOMAIN idx : j <= key => j <= k
                         /\ pa_of(k) = pa
           IsLatest(k)  == /\ Past(pa, q, k)
                         /\ \A j \in DOMAIN idx : Past(pa, q, j) => j <= k
<1>0. \A k \in DOMAIN idx : pa_of(k) = pa => ~(pa_of(k) < pa)
  BY Constants, ChunkAssumption
<1>1. ASSUME NEW k \in DOMAIN idx PROVE IsFloor(k) <=> IsLatest(k)
  <2>1. k \in Nat
    OBVIOUS
  <2>2. ASSUME IsFloor(k) PROVE IsLatest(k)
    <3>1. Past(pa, q, k)
      BY <1>0, <2>1, <2>2, FloorKeys
    <3>2. \A j \in DOMAIN idx : Past(pa, q, j) => j <= k
      BY <2>2, FloorKeys
    <3> QED
      BY <3>1, <3>2
  <2>3. ASSUME IsLatest(k) PROVE IsFloor(k)
    <3>1. k <= key
      BY <2>1, <2>3, FloorKeys
    <3>2. pa_of(k) = pa
      BY <2>3 DEF Past
    <3>3. \A j \in DOMAIN idx : j <= key => j <= k
      BY <2>1, <2>3, <3>2, FloorKeys
    <3> QED
      BY <3>1, <3>2, <3>3
  <2> QED
    BY <2>2, <2>3
<1>2. {k \in DOMAIN idx : IsFloor(k)} = {k \in DOMAIN idx : IsLatest(k)}
  BY <1>1
<1> QED
  BY <1>2 DEF floor_sorted

-----------------------------------------------------------------------------
(* Loads.                                                                  *)

LEMMA SameBlob ==
    ASSUME NEW rec \in Slot, NEW files1, NEW files2, SameBytes(rec, files1, files2)
    PROVE  /\ decompress_blob_into(files1, rec) = decompress_blob_into(files2, rec)
           /\ delta_patch_of(files1, rec) = delta_patch_of(files2, rec)
<1>1. rec.len = 0 \/ rec.len = 1
  BY DEF Slot
<1>2. CASE ~in_range(files1, rec)
  BY <1>2 DEF SameBytes, decompress_blob_into, delta_patch_of
<1>3. CASE in_range(files1, rec) /\ rec.len = 0
  BY <1>3 DEF SameBytes, decompress_blob_into, delta_patch_of
<1>4. CASE in_range(files1, rec) /\ rec.len = 1
  <2>1. /\ in_range(files2, rec)
        /\ files1[rec.worker_id][rec.offset + 1] = files2[rec.worker_id][rec.offset + 1]
    BY <1>4 DEF SameBytes
  <2> QED
    BY <1>4, <2>1 DEF decompress_blob_into, delta_patch_of
<1> QED
  BY <1>1, <1>2, <1>3, <1>4

\* The base of a Delta.
LEMMA SameFull ==
    ASSUME NEW idx1, NEW files1, NEW idx2, NEW files2, NEW base,
           base \in DOMAIN idx1 <=> base \in DOMAIN idx2,
           base \in DOMAIN idx1 =>
              /\ idx1[base] = idx2[base]
              /\ decompress_blob_into(files1, idx1[base]) = decompress_blob_into(files2, idx1[base])
    PROVE  load_full(idx1, files1, base) = load_full(idx2, files2, base)
<1>1. CASE base \notin DOMAIN idx1
  BY <1>1 DEF load_full, exact_sorted
<1>2. CASE base \in DOMAIN idx1
  <2>1. exact_sorted(idx1, base) = {idx1[base]} /\ exact_sorted(idx2, base) = {idx1[base]}
    BY <1>2 DEF exact_sorted
  <2> QED
    BY <1>2, <2>1 DEF load_full
<1> QED
  BY <1>1, <1>2

LEMMA Resolved ==
    ASSUME NEW idx, NEW files, NEW rec
    PROVE  /\ rec.kind = "Zero" => resolve_uncached(idx, files, rec) = Ok(ZeroPage)
           /\ rec.kind = "Full" =>
                 resolve_uncached(idx, files, rec) = decompress_blob_into(files, rec)
           /\ rec.kind = "Delta" =>
                 resolve_uncached(idx, files, rec)
                   = apply_delta(load_full(idx, files, rec.base_key), delta_patch_of(files, rec))
           /\ rec.kind \notin {"Zero", "Full", "Delta"} =>
                 resolve_uncached(idx, files, rec) = Error
<1>1. ASSUME rec.kind = "Zero" PROVE resolve_uncached(idx, files, rec) = Ok(ZeroPage)
  BY <1>1 DEF resolve_uncached
<1>2. ASSUME rec.kind = "Full"
      PROVE  resolve_uncached(idx, files, rec) = decompress_blob_into(files, rec)
  BY <1>2 DEF resolve_uncached
<1>3. ASSUME rec.kind = "Delta"
      PROVE  resolve_uncached(idx, files, rec)
               = apply_delta(load_full(idx, files, rec.base_key), delta_patch_of(files, rec))
  BY <1>3 DEF resolve_uncached
<1>4. ASSUME rec.kind \notin {"Zero", "Full", "Delta"}
      PROVE  resolve_uncached(idx, files, rec) = Error
  BY <1>4 DEF resolve_uncached
<1> QED
  BY <1>1, <1>2, <1>3, <1>4

LEMMA SameResolved ==
    ASSUME NEW idx1, NEW files1, NEW idx2, NEW files2, NEW rec,
           decompress_blob_into(files1, rec) = decompress_blob_into(files2, rec),
           delta_patch_of(files1, rec) = delta_patch_of(files2, rec),
           rec.kind = "Delta" =>
              load_full(idx1, files1, rec.base_key) = load_full(idx2, files2, rec.base_key)
    PROVE  resolve_uncached(idx1, files1, rec) = resolve_uncached(idx2, files2, rec)
  BY Resolved

\* A load of page pa at snapshot q depends on the versions of pa up to q only.
LEMMA SameLoad ==
    ASSUME NEW idx1, NEW files1, NEW idx2, NEW files2,
           DOMAIN idx1 \subseteq Nat, DOMAIN idx2 \subseteq Nat,
           NEW pa \in 0..(PaLimit - 1), NEW q \in 0..MAX_SNAPSHOT_ID,
           SamePast(pa, q, idx1, files1, idx2, files2)
    PROVE  load_page(idx1, files1, pa, q) = load_page(idx2, files2, pa, q)
<1> DEFINE Latest(idx) == {k \in DOMAIN idx :
                            /\ Past(pa, q, k)
                            /\ \A j \in DOMAIN idx : Past(pa, q, j) => j <= k}
           found == {idx1[k] : k \in Latest(idx1)}
<1>1. /\ floor_sorted(idx1, encode_key(pa, q), pa) = {idx1[k] : k \in Latest(idx1)}
      /\ floor_sorted(idx2, encode_key(pa, q), pa) = {idx2[k] : k \in Latest(idx2)}
  BY FloorMeaning
<1>2. \A k \in Nat : Past(pa, q, k) => (k \in DOMAIN idx1 <=> k \in DOMAIN idx2)
  BY DEF SamePast
<1>3. \A k \in DOMAIN idx1 : Past(pa, q, k) =>
         /\ idx1[k] = idx2[k] /\ idx1[k] \in Slot /\ idx1[k].key = k
         /\ DeltaWithin(idx1[k]) /\ SameBytes(idx1[k], files1, files2)
  BY DEF SamePast
<1>4. Latest(idx1) = Latest(idx2)
  <2>1. \A k \in Nat : (k \in DOMAIN idx1 /\ Past(pa, q, k)) <=> (k \in DOMAIN idx2 /\ Past(pa, q, k))
    BY <1>2
  <2> QED
    BY <2>1
<1>5. \A k \in Latest(idx1) : idx1[k] = idx2[k]
  BY <1>3
<1>6. floor_sorted(idx2, encode_key(pa, q), pa) = found
  BY <1>1, <1>4, <1>5
<1>7. ASSUME NEW k \in Latest(idx1)
      PROVE  resolve_uncached(idx1, files1, idx1[k]) = resolve_uncached(idx2, files2, idx1[k])
  <2> DEFINE rec == idx1[k]
  <2>1. rec \in Slot /\ rec.key = k /\ DeltaWithin(rec) /\ SameBytes(rec, files1, files2)
    BY <1>3
  <2>2. /\ decompress_blob_into(files1, rec) = decompress_blob_into(files2, rec)
        /\ delta_patch_of(files1, rec) = delta_patch_of(files2, rec)
    BY <2>1, SameBlob
  <2>3. ASSUME rec.kind = "Delta"
        PROVE  load_full(idx1, files1, rec.base_key) = load_full(idx2, files2, rec.base_key)
    <3> DEFINE base == rec.base_key
    <3>1. base \in Nat /\ k \in Nat /\ Past(pa, q, k)
      BY <2>1 DEF Slot
    <3>2. Past(pa_of(k), snapshot_of(k), base)
      BY <2>1, <2>3 DEF DeltaWithin
    <3>3. Past(pa, q, base)
      <4>1. pa_of(k) = pa /\ snapshot_of(k) <= q /\ pa_of(base) = pa_of(k)
            /\ snapshot_of(base) <= snapshot_of(k)
        BY <3>1, <3>2 DEF Past
      <4>2. snapshot_of(base) \in Nat /\ snapshot_of(k) \in Nat /\ q \in Nat
        BY <3>1, SnapNat, SnapshotRange
      <4>3. snapshot_of(base) <= q
        BY <4>1, <4>2
      <4> QED
        BY <4>1, <4>3 DEF Past
    <3>4. /\ base \in DOMAIN idx1 <=> base \in DOMAIN idx2
          /\ base \in DOMAIN idx1 =>
                /\ idx1[base] = idx2[base]
                /\ decompress_blob_into(files1, idx1[base])
                     = decompress_blob_into(files2, idx1[base])
      BY <1>2, <1>3, <3>1, <3>3, SameBlob
    <3> QED
      BY <3>4, SameFull
  <2> QED
    BY <2>2, <2>3, SameResolved
<1>8. \A rec \in found : resolve_uncached(idx1, files1, rec) = resolve_uncached(idx2, files2, rec)
  BY <1>7
<1>9. resolve(idx1, files1, found) = resolve(idx2, files2, found)
  <2>1. {resolve_uncached(idx1, files1, rec) : rec \in found}
          = {resolve_uncached(idx2, files2, rec) : rec \in found}
    BY <1>8
  <2> QED
    BY <2>1 DEF resolve
<1> QED
  BY <1>1, <1>6, <1>9 DEF load_page

\* The table of answers holds the answers of load_page.
LEMMA AnswersAre ==
    ASSUME NEW recs, NEW files
    PROVE  answers(recs, files) = [pa \in Pas |-> [q \in Queries |->
                                      load_page(build_lazy_index(recs), files, pa, q)]]
<1> DEFINE Table(idx) == [pa \in Pas |-> [q \in Queries |-> load_page(idx, files, pa, q)]]
<1>1. {Table(idx) : idx \in {build_lazy_index(r) : r \in {recs}}}
        = {Table(build_lazy_index(recs))}
  OBVIOUS
<1> HIDE DEF Table
<1>2. answers(recs, files) = CHOOSE table \in {Table(build_lazy_index(recs))} : TRUE
  BY <1>1 DEF answers, Table
<1>3. answers(recs, files) = Table(build_lazy_index(recs))
  BY <1>2
<1> QED
  BY <1>3 DEF Table

-----------------------------------------------------------------------------
(* The inductive invariant of the writer.                                  *)

\* The ids go up: the header is not above the last id that the handle has
\* accepted, the sealed snapshot is not above the header, and the id of a save
\* in progress is above it.  None is below every id.
IdsAbove ==
    /\ isOpen => header # None /\ (header <= last_snapshot \/ (last_snapshot = None /\ header = 0))
    /\ sealed <= header
    /\ isOpen => sealed <= last_snapshot
    /\ Saving => last_snapshot = snapshot_id /\ sealed < snapshot_id

\* The id of a save in progress is the last one accepted.
IdOfCall == Saving => last_snapshot = snapshot_id

\* The records up to the sealed snapshot are on disk, and so are their bytes.
SealedOnDisk ==
    \A i \in 1..Len(log) : snapshot_of(log[i].key) <= sealed =>
        /\ i <= logOnDisk
        /\ log[i].offset + log[i].len <= blobOnDisk[log[i].worker_id]

\* What is not on disk yet is that of the handle, and a flush gets on.
Unflushed ==
    /\ ~isOpen => logOnDisk = Len(log)
    /\ \A w \in Workers : (~isOpen \/ w >= blob_count) => blobOnDisk[w] = Len(blobs[w])
    /\ pc = "idle" => next = 0
    /\ pc = "flush" =>
          /\ logOnDisk = Len(log)
          /\ \A w \in Workers : w < next => blobOnDisk[w] = Len(blobs[w])

\* The shadow of a page has versions of that page only.
ShadowWithin ==
    \A pa \in Pas : shadow[pa].key # None => Past(pa, last_snapshot, shadow[pa].key)

WellFormed(rec) == DeltaWithin(rec) /\ rec.worker_id \in Workers

\* Deltas, in the log or on their way there, are applied to such versions.
DeltasWithin ==
    /\ ShadowWithin
    /\ \A k \in Pas : WellFormed(records_buf[k])
    /\ \A i \in 1..Len(log) : WellFormed(log[i])

\* The inductive invariant, together with TypeOK, Placed and Slotted.
Sealed == IdsAbove /\ SealedOnDisk /\ Unflushed /\ DeltasWithin

-----------------------------------------------------------------------------
(* The ids go up.                                                          *)

LEMMA IdTypes ==
    TypeOK => /\ header \in Int /\ last_snapshot \in Int /\ sealed \in Int
              /\ header >= None /\ last_snapshot >= None /\ sealed >= None
              /\ snapshot_id \in Nat
<1>1. TypeOK => /\ header \in Nat \union {None} /\ last_snapshot \in Nat \union {None}
                /\ sealed \in Nat \union {None} /\ snapshot_id \in Nat
  BY DEF TypeOK
<1> QED
  BY <1>1 DEF None

LEMMA AcceptedNext ==
    ASSUME TypeOK, NEW s \in Snapshots, accepts(s)
    PROVE  s \in Nat /\ last_snapshot < s
  BY AppendOnlyDbAssumption DEF accepts, TypeOK, None

\* An accepted id is above the last one, and all that is below it.
LEMMA IdAccepted ==
    ASSUME TypeOK, IdsAbove, isOpen, NEW s \in Snapshots, accepts(s)
    PROVE  s \in Nat /\ last_snapshot < s /\ header <= s /\ sealed < s
<1>1. s \in Nat /\ last_snapshot < s
  BY AcceptedNext
<1>2. header <= s /\ sealed < s
  BY <1>1, IdTypes DEF IdsAbove
<1> QED
  BY <1>1, <1>2

LEMMA IdsInit == Init => IdsAbove
  BY DEF Init, IdsAbove, Saving, None

LEMMA IdsFrame ==
    ASSUME IdsAbove, UNCHANGED <<isOpen, header, last_snapshot, sealed>>,
           Saving' => Saving /\ UNCHANGED snapshot_id
    PROVE  IdsAbove'
  BY DEF IdsAbove

LEMMA IdsStep == TypeOK /\ Placed /\ IdsAbove /\ [Next]_vars => IdsAbove'
<1> SUFFICES ASSUME TypeOK, Placed, IdsAbove, [Next]_vars PROVE IdsAbove'
  OBVIOUS
<1> USE DEF diskVars, configVars, handleVars, groupVars, callVars, resultVars, countVars
<1>0. CallOpen
  BY DEF Placed
<1>1. ASSUME NEW n \in WorkerCounts, NEW t \in DeltaThresholds, NEW sh \in ShadowModes,
             Open(n, t, sh)
      PROVE  IdsAbove'
  <2>1. /\ ~Saving' /\ header' = (IF header = None THEN 0 ELSE header)
        /\ last_snapshot' = header /\ sealed' = sealed
    BY <1>0, <1>1 DEF Open, opened_last_snapshot, CallOpen, Saving
  <2> QED
    BY <2>1, IdTypes DEF IdsAbove, None
<1>2. ASSUME NEW s \in Snapshots, SaveBadLength(s) \/ SaveNothing(s) PROVE IdsAbove'
  <2>1. /\ isOpen /\ accepts(s) /\ ~Saving' /\ last_snapshot' = s
        /\ UNCHANGED <<isOpen, header, sealed>>
    BY <1>2 DEF SaveBadLength, SaveNothing, Saving
  <2> QED
    BY <2>1, IdAccepted, IdTypes DEF IdsAbove
<1>3. ASSUME NEW s \in Snapshots, NEW mem, NEW first, BeginSave(s, mem, first)
      PROVE  IdsAbove'
  <2>1. /\ isOpen /\ accepts(s) /\ last_snapshot' = s /\ snapshot_id' = s
        /\ UNCHANGED <<isOpen, header, sealed>>
    BY <1>3 DEF BeginSave
  <2> QED
    BY <2>1, IdAccepted, IdTypes DEF IdsAbove
<1>4. ASSUME UpdateHeader PROVE IdsAbove'
  <2>1. /\ Saving /\ ~Saving' /\ isOpen /\ header' = snapshot_id
        /\ UNCHANGED <<isOpen, last_snapshot, sealed>>
    BY <1>0, <1>4 DEF UpdateHeader, Return, Saving, CallOpen
  <2> QED
    BY <2>1, IdTypes DEF IdsAbove, None
<1>5. ASSUME EndFlush PROVE IdsAbove'
  <2>1. /\ isOpen /\ ~Saving' /\ UNCHANGED <<isOpen, header, last_snapshot>>
        /\ sealed' = sealed \/ (sealed' = header /\ last_snapshot # None)
    BY <1>0, <1>5 DEF EndFlush, Flushed, Saving, CallOpen
  <2> QED
    BY <2>1, IdTypes DEF IdsAbove
<1>6. ASSUME Close PROVE IdsAbove'
  <2>1. /\ ~isOpen' /\ ~Saving' /\ header' = header
        /\ sealed' = sealed \/ sealed' = header
    BY <1>6 DEF Close, Flushed, Dropped, Saving
  <2> QED
    BY <2>1, IdTypes DEF IdsAbove
<1>7. ASSUME Crash PROVE IdsAbove'
  <2>1. ~isOpen' /\ ~Saving' /\ UNCHANGED <<header, sealed>>
    BY <1>7 DEF Crash, Dropped, Saving
  <2> QED
    BY <2>1 DEF IdsAbove
<1>8. ASSUME NEW g \in Groups, NEW pa \in Pas, EmitZero(g, pa) \/ LockBlob(g, pa)
      PROVE  IdsAbove'
  BY <1>8, IdsFrame DEF EmitZero, LockBlob, Saving
<1>9. ASSUME NEW g \in Groups, NEW spill \in SpillChoices, EmitDelta(g, spill) \/ EmitFull(g, spill)
      PROVE  IdsAbove'
  BY <1>9, IdsFrame DEF EmitDelta, EmitFull, Saving
<1>10. ASSUME PassDone \/ SeekHeader \/ (\E spill \in SpillChoices : WriteRecord(spill))
       PROVE  IdsAbove'
  BY <1>10, IdsFrame DEF PassDone, SeekHeader, WriteRecord, Saving
<1>11. ASSUME PassFail \/ WriteFail PROVE IdsAbove'
  BY <1>11, IdsFrame DEF PassFail, WriteFail, Return, Saving
<1>12. ASSUME BeginFlush \/ FlushBlob PROVE IdsAbove'
  BY <1>12, IdsFrame DEF BeginFlush, FlushBlob, Saving
<1>13. ASSUME NEW g \in Groups, AppendFail(g) PROVE IdsAbove'
  BY <1>13, IdsFrame DEF AppendFail, GiveUp, Saving
<1>14. ASSUME UNCHANGED vars PROVE IdsAbove'
  BY <1>14, IdsFrame DEF vars, Saving
<1>15. ASSUME Call PROVE IdsAbove'
  BY <1>1, <1>2, <1>3, <1>12, <1>15 DEF Call, BeginSaveAll, BeginSaveBitmap
<1>16. ASSUME Step PROVE IdsAbove'
  BY <1>4, <1>5, <1>6, <1>8, <1>9, <1>10, <1>11, <1>12, <1>16 DEF Step
<1> QED
  BY <1>7, <1>11, <1>13, <1>14, <1>15, <1>16 DEF Next, Fault

-----------------------------------------------------------------------------
(* The files grow, whatever happens.                                       *)

\* What a step adds to the log is of a later snapshot than the sealed one.
LogKept ==
    \A i \in 1..Len(log') : \/ i <= Len(log) /\ log'[i] = log[i]
                            \/ sealed < snapshot_of(log'[i].key)

\* What is on disk stays there.
LogDiskKept ==
    /\ logOnDisk <= logOnDisk'
    /\ \A i \in 1..logOnDisk : log'[i] = log[i]

BlobsKept ==
    \A w \in Workers :
        /\ blobOnDisk[w] <= blobOnDisk'[w]
        /\ \A j \in 1..blobOnDisk[w] : blobs'[w][j] = blobs[w][j]

LEMMA FileTypes ==
    TypeOK => /\ log \in Seq(Slot) /\ Len(log) \in Nat
              /\ logOnDisk \in Nat /\ logOnDisk <= Len(log)
              /\ \A w \in Workers : /\ blobs[w] \in Seq(Blob) /\ Len(blobs[w]) \in Nat
                                    /\ blobOnDisk[w] \in Nat /\ blobOnDisk[w] <= Len(blobs[w])
<1> SUFFICES ASSUME TypeOK
             PROVE  /\ log \in Seq(Slot) /\ Len(log) \in Nat
                    /\ logOnDisk \in Nat /\ logOnDisk <= Len(log)
                    /\ \A w \in Workers :
                          /\ blobs[w] \in Seq(Blob) /\ Len(blobs[w]) \in Nat
                          /\ blobOnDisk[w] \in Nat /\ blobOnDisk[w] <= Len(blobs[w])
  OBVIOUS
<1>1. log \in Seq(Slot) /\ logOnDisk \in 0..Len(log)
  BY DEF TypeOK
<1>2. \A w \in Workers : blobOnDisk[w] \in Nat /\ blobOnDisk[w] <= Len(blobs[w])
  BY DEF TypeOK
<1> QED
  BY <1>1, <1>2, FilesTyped

LEMMA FileTypesNext ==
    TypeOK' => /\ log' \in Seq(Slot) /\ Len(log') \in Nat
               /\ logOnDisk' \in Nat /\ logOnDisk' <= Len(log')
               /\ \A w \in Workers : blobOnDisk'[w] \in Nat /\ blobOnDisk'[w] <= Len(blobs'[w])
<1>1. TypeOK' => log' \in Seq(Slot) /\ logOnDisk' \in 0..Len(log')
  BY DEF TypeOK
<1>2. TypeOK' => \A w \in Workers : blobOnDisk'[w] \in Nat /\ blobOnDisk'[w] <= Len(blobs'[w])
  BY DEF TypeOK
<1> QED
  BY <1>1, <1>2

LEMMA FileNumbers ==
    TypeOK => blob_count \in Nat /\ next \in Nat /\ \A w \in Workers : w \in Nat
<1>1. TypeOK => blob_count \in 1..MaxWorkers /\ next \in Nat
  BY DEF TypeOK
<1> QED
  BY <1>1, Constants

LEMMA BlobsSame ==
    ASSUME TypeOK, UNCHANGED <<blobs, blobOnDisk>>
    PROVE  BlobsKept
  BY FileTypes DEF BlobsKept

LEMMA LogSame ==
    ASSUME TypeOK, UNCHANGED log,
           \/ logOnDisk' = logOnDisk
           \/ logOnDisk' = Len(log)
           \/ logOnDisk' \in logOnDisk..(Len(log) - 1)
    PROVE  LogKept /\ LogDiskKept
<1>1. logOnDisk \in Nat /\ Len(log) \in Nat /\ logOnDisk <= Len(log)
  BY FileTypes
<1>2. logOnDisk' >= logOnDisk
  BY <1>1
<1> QED
  BY <1>1, <1>2 DEF LogKept, LogDiskKept

\* An append leaves what is in the file alone.
LEMMA AppendKeeps ==
    ASSUME TypeOK, NEW g, NEW w \in Workers, NEW blob \in Blob, NEW spill,
           append_blob(g, w, blob, spill)
    PROVE  /\ BlobsKept
           /\ \A v \in Workers : v # w => blobs'[v] = blobs[v] /\ blobOnDisk'[v] = blobOnDisk[v]
<1>1. /\ \A v \in Workers : v # w => blobs'[v] = blobs[v] /\ blobOnDisk'[v] = blobOnDisk[v]
      /\ blobs'[w] = blobs[w] \/ blobs'[w] = Append(blobs[w], blob)
      /\ blobOnDisk'[w] = blobOnDisk[w] \/ blobOnDisk'[w] = Len(blobs[w])
  BY DEF append_blob, TypeOK
<1>2. \A j \in 1..Len(blobs[w]) : Append(blobs[w], blob)[j] = blobs[w][j]
  BY FileTypes
<1>3. /\ blobOnDisk[w] \in Nat /\ Len(blobs[w]) \in Nat /\ blobOnDisk[w] <= Len(blobs[w])
      /\ \A v \in Workers : blobOnDisk[v] \in Nat
  BY FileTypes
<1>4. \A j \in 1..blobOnDisk[w] : j \in 1..Len(blobs[w])
  BY <1>3
<1>5. blobOnDisk[w] <= blobOnDisk'[w] /\ \A j \in 1..blobOnDisk[w] : blobs'[w][j] = blobs[w][j]
  BY <1>1, <1>2, <1>3, <1>4
<1> QED
  BY <1>1, <1>3, <1>5 DEF BlobsKept

\* The blob of an append, and its file.
LEMMA Appends ==
    ASSUME TypeOK, NEW g \in Groups, NEW spill, EmitDelta(g, spill) \/ EmitFull(g, spill)
    PROVE  /\ cur[g] # None /\ wid(cur[g]) \in Workers
           /\ \E blob \in Blob : append_blob(g, wid(cur[g]), blob, spill)
<1>1. cur[g] # None
  BY DEF EmitDelta, EmitFull
<1>2. /\ wid(cur[g]) \in Workers
      /\ patch_of(cur[g]) \in Patch /\ memory[cur[g]] \in Patch
  BY <1>1, CurrentPage, Values
<1>3. /\ [kind |-> "Delta", data |-> patch_of(cur[g])] \in Blob
      /\ [kind |-> "Full", data |-> memory[cur[g]]] \in Blob
  BY <1>2 DEF Blob
<1> QED
  BY <1>1, <1>2, <1>3 DEF EmitDelta, EmitFull

LEMMA FilesStep ==
    TypeOK /\ Placed /\ Slotted /\ IdsAbove /\ [Next]_vars
      => LogKept /\ LogDiskKept /\ BlobsKept
<1> SUFFICES ASSUME TypeOK, Placed, Slotted, IdsAbove, [Next]_vars
             PROVE  LogKept /\ LogDiskKept /\ BlobsKept
  OBVIOUS
<1> USE DEF diskVars, configVars, handleVars, groupVars, callVars, resultVars, countVars
<1>1. ASSUME UNCHANGED <<log, blobs, blobOnDisk>>,
             \/ logOnDisk' = logOnDisk
             \/ logOnDisk' = Len(log)
             \/ logOnDisk' \in logOnDisk..(Len(log) - 1)
      PROVE  LogKept /\ LogDiskKept /\ BlobsKept
  BY <1>1, BlobsSame, LogSame
<1>2. ASSUME Call PROVE LogKept /\ LogDiskKept /\ BlobsKept
  BY <1>1, <1>2
  DEF Call, Open, SaveBadLength, SaveNothing, BeginSaveAll, BeginSaveBitmap, BeginSave, BeginFlush
<1>3. ASSUME NEW g \in Groups, NEW pa \in Pas, EmitZero(g, pa) \/ LockBlob(g, pa)
      PROVE  LogKept /\ LogDiskKept /\ BlobsKept
  BY <1>1, <1>3 DEF EmitZero, LockBlob
<1>4. ASSUME NEW g \in Groups, NEW spill \in SpillChoices, EmitDelta(g, spill) \/ EmitFull(g, spill)
      PROVE  LogKept /\ LogDiskKept /\ BlobsKept
  <2>1. UNCHANGED <<log, logOnDisk>>
    BY <1>4 DEF EmitDelta, EmitFull
  <2>2. LogKept /\ LogDiskKept
    BY <2>1, LogSame
  <2> QED
    BY <1>4, <2>2, Appends, AppendKeeps
<1>5. ASSUME PassDone \/ PassFail \/ SeekHeader \/ UpdateHeader \/ EndFlush \/ Close \/ WriteFail
      PROVE  LogKept /\ LogDiskKept /\ BlobsKept
  BY <1>1, <1>5 DEF PassDone, PassFail, SeekHeader, UpdateHeader, EndFlush, Close, WriteFail
<1>6. ASSUME NEW spill \in SpillChoices, WriteRecord(spill)
      PROVE  LogKept /\ LogDiskKept /\ BlobsKept
  <2> DEFINE rec == records_buf[next]
  <2>1. /\ log' = Append(log, rec) /\ UNCHANGED <<blobs, blobOnDisk>>
        /\ logOnDisk' = logOnDisk \/ logOnDisk' = Len(log)
        /\ pc = "write" /\ next < total_dirty
    BY <1>6 DEF WriteRecord
  <2>2. snapshot_of(rec.key) = snapshot_id
    <3>1. next \in Nat /\ total_dirty \in Nat
      <4>1. DOMAIN memory \in SUBSET Pas
        BY DEF TypeOK
      <4> QED
        BY <4>1, BelowFinite DEF TypeOK, total_dirty
    <3>2. next \in 0..(total_dirty - 1)
      BY <2>1, <3>1
    <3> QED
      BY <2>1, <3>2, SlottedImplies DEF SlotsWritten
  <2>3. sealed < snapshot_of(rec.key)
    BY <2>1, <2>2 DEF IdsAbove, Saving
  <2> HIDE DEF rec
  <2>4. /\ Len(log') = Len(log) + 1 /\ log'[Len(log) + 1] = rec
        /\ \A i \in 1..Len(log) : log'[i] = log[i]
    <3>1. rec \in Slot
      BY <2>1, NextSlot DEF TypeOK, rec
    <3> QED
      BY <2>1, <3>1, FileTypes
  <2>5. LogKept
    BY <2>3, <2>4, FileTypes DEF LogKept
  <2>6. LogDiskKept
    BY <2>1, <2>4, FileTypes DEF LogDiskKept
  <2> QED
    BY <2>1, <2>5, <2>6, BlobsSame
<1>7. ASSUME FlushBlob PROVE LogKept /\ LogDiskKept /\ BlobsKept
  <2>1. /\ UNCHANGED <<log, logOnDisk, blobs>>
        /\ \A w \in Workers : blobOnDisk'[w] = blobOnDisk[w] \/ blobOnDisk'[w] = Len(blobs[w])
    BY <1>7 DEF FlushBlob, TypeOK
  <2>2. BlobsKept
    BY <2>1, FileTypes DEF BlobsKept
  <2> QED
    BY <2>1, <2>2, LogSame
<1>8. ASSUME NEW g \in Groups, AppendFail(g) PROVE LogKept /\ LogDiskKept /\ BlobsKept
  <2>1. UNCHANGED <<log, logOnDisk, blobs>>
    BY <1>8 DEF AppendFail
  <2>2. \A w \in Workers : blobOnDisk[w] <= blobOnDisk'[w]
    BY <1>8, AppendFailDisk
  <2>3. BlobsKept
    BY <2>1, <2>2, FileTypes DEF BlobsKept
  <2> QED
    BY <2>1, <2>3, LogSame
<1>9. ASSUME Crash PROVE LogKept /\ LogDiskKept /\ BlobsKept
  <2>1. /\ log' = SubSeq(log, 1, logOnDisk) /\ UNCHANGED <<logOnDisk, blobOnDisk>>
        /\ \A w \in Workers : blobs'[w] = SubSeq(blobs[w], 1, blobOnDisk[w])
    BY <1>9 DEF Crash
  <2>2. Len(log') = logOnDisk /\ \A i \in 1..logOnDisk : log'[i] = log[i]
    BY <2>1, FileTypes
  <2>3. \A w \in Workers : \A j \in 1..blobOnDisk[w] : blobs'[w][j] = blobs[w][j]
    BY <2>1, FileTypes
  <2> QED
    BY <2>1, <2>2, <2>3, FileTypes DEF LogKept, LogDiskKept, BlobsKept
<1>10. ASSUME UNCHANGED vars PROVE LogKept /\ LogDiskKept /\ BlobsKept
  BY <1>1, <1>10 DEF vars
<1>11. ASSUME Step PROVE LogKept /\ LogDiskKept /\ BlobsKept
  BY <1>3, <1>4, <1>5, <1>6, <1>7, <1>11 DEF Step
<1> QED
  BY <1>2, <1>5, <1>8, <1>9, <1>10, <1>11 DEF Next, Fault

-----------------------------------------------------------------------------
(* What is not on disk.                                                    *)

LEMMA UnflushedInit == Init => Unflushed
<1> SUFFICES ASSUME Init PROVE Unflushed
  OBVIOUS
<1>1. /\ log = <<>> /\ logOnDisk = 0 /\ pc = "idle" /\ next = 0
      /\ \A w \in Workers : blobs[w] = <<>> /\ blobOnDisk[w] = 0
  BY DEF Init, NoCall
<1> QED
  BY <1>1 DEF Unflushed

\* In an open handle, nothing but the files of other workers matters.
LEMMA UnflushedOpen ==
    ASSUME Unflushed, isOpen, UNCHANGED <<isOpen, blob_count>>,
           \A w \in Workers : w >= blob_count =>
              blobs'[w] = blobs[w] /\ blobOnDisk'[w] = blobOnDisk[w],
           pc' # "flush", pc' = "idle" => next' = 0
    PROVE  Unflushed'
  BY DEF Unflushed

LEMMA UnflushedStep == TypeOK /\ CallOpen /\ Unflushed /\ [Next]_vars => Unflushed'
<1> SUFFICES ASSUME TypeOK, CallOpen, Unflushed, [Next]_vars PROVE Unflushed'
  OBVIOUS
<1> USE DEF diskVars, configVars, handleVars, groupVars, callVars, resultVars, countVars
<1>0. CallOpen
  OBVIOUS
<1>1. ASSUME NEW n \in WorkerCounts, NEW t \in DeltaThresholds, NEW sh \in ShadowModes,
             Open(n, t, sh)
      PROVE  Unflushed'
  <2>1. /\ ~isOpen /\ pc = "idle" /\ pc' = "idle"
        /\ UNCHANGED <<log, logOnDisk, blobs, blobOnDisk, next>>
    BY <1>0, <1>1 DEF Open, CallOpen
  <2> QED
    BY <2>1 DEF Unflushed
<1>2. ASSUME NEW s \in Snapshots, SaveBadLength(s) \/ SaveNothing(s) PROVE Unflushed'
  BY <1>2, UnflushedOpen DEF SaveBadLength, SaveNothing, Unflushed
<1>3. ASSUME NEW s \in Snapshots, NEW mem, NEW first, BeginSave(s, mem, first)
      PROVE  Unflushed'
  BY <1>3, UnflushedOpen DEF BeginSave
<1>4. ASSUME NEW g \in Groups, NEW pa \in Pas, EmitZero(g, pa) \/ LockBlob(g, pa)
      PROVE  Unflushed'
  BY <1>0, <1>4, UnflushedOpen DEF EmitZero, LockBlob, Turns, CallOpen
<1>5. ASSUME NEW g \in Groups, NEW spill \in SpillChoices, EmitDelta(g, spill) \/ EmitFull(g, spill)
      PROVE  Unflushed'
  <2>1. /\ pc = "pass" /\ pc' = "pass" /\ UNCHANGED <<isOpen, blob_count>>
    BY <1>5 DEF EmitDelta, EmitFull
  <2>2. wid(cur[g]) \in Workers /\ wid(cur[g]) \in Nat /\ wid(cur[g]) < blob_count
    <3>1. cur[g] \in Pas
      BY <1>5, Appends, CurrentPage
    <3> QED
      BY <3>1, WorkerOf DEF TypeOK
  <2>3. \A v \in Workers : v # wid(cur[g]) => blobs'[v] = blobs[v] /\ blobOnDisk'[v] = blobOnDisk[v]
    BY <1>5, Appends, AppendKeeps
  <2>4. \A v \in Workers : v >= blob_count => v # wid(cur[g])
    BY <2>2, FileNumbers
  <2> QED
    BY <1>0, <2>1, <2>3, <2>4, UnflushedOpen DEF CallOpen
<1>6. ASSUME PassDone \/ SeekHeader \/ (\E spill \in SpillChoices : WriteRecord(spill))
      PROVE  Unflushed'
  BY <1>0, <1>6, UnflushedOpen DEF PassDone, SeekHeader, WriteRecord, CallOpen
<1>7. ASSUME PassFail \/ WriteFail \/ UpdateHeader PROVE Unflushed'
  BY <1>0, <1>7, UnflushedOpen DEF PassFail, WriteFail, UpdateHeader, Return, EndCall, CallOpen
<1>8. ASSUME NEW g \in Groups, AppendFail(g) PROVE Unflushed'
  <2>1. /\ pc = "pass" /\ pc' = "pass" /\ UNCHANGED <<blobs, isOpen, blob_count>>
    BY <1>8 DEF AppendFail
  <2>2. wid(cur[g]) \in Nat /\ wid(cur[g]) < blob_count
    <3>1. cur[g] \in Pas
      BY <1>8, CurrentPage DEF AppendFail
    <3> QED
      BY <3>1, WorkerOf DEF TypeOK
  <2>3. \A v \in Workers : v # wid(cur[g]) => blobOnDisk'[v] = blobOnDisk[v]
    BY <1>8, AppendFailDisk
  <2>4. \A v \in Workers : v >= blob_count => v # wid(cur[g])
    BY <2>2, FileNumbers
  <2> QED
    BY <1>0, <2>1, <2>3, <2>4, UnflushedOpen DEF CallOpen
<1>9. ASSUME BeginFlush PROVE Unflushed'
  <2>1. /\ isOpen /\ isOpen' /\ pc = "idle" /\ pc' = "flush" /\ logOnDisk' = Len(log) /\ next = 0
        /\ UNCHANGED <<log, blobs, blobOnDisk, blob_count, next>>
    BY <1>9 DEF BeginFlush, Unflushed
  <2>2. \A w \in Workers : ~(w < next)
    BY <2>1, Constants
  <2> QED
    BY <2>1, <2>2 DEF Unflushed
<1>10. ASSUME FlushBlob PROVE Unflushed'
  <2>1. /\ isOpen /\ pc = "flush" /\ pc' = "flush" /\ next' = next + 1
        /\ blobOnDisk' = [blobOnDisk EXCEPT ![next] = Len(blobs[next])]
        /\ UNCHANGED <<log, logOnDisk, blobs, isOpen, blob_count>>
    BY <1>0, <1>10 DEF FlushBlob, CallOpen
  <2>2. \A w \in Workers : blobOnDisk'[w] = IF w = next THEN Len(blobs[w]) ELSE blobOnDisk[w]
    BY <2>1 DEF TypeOK
  <2>3. \A w \in Workers : w < next + 1 => w < next \/ w = next
    BY FileNumbers
  <2> QED
    BY <2>1, <2>2, <2>3 DEF Unflushed
<1>11. ASSUME EndFlush PROVE Unflushed'
  BY <1>0, <1>11, UnflushedOpen DEF EndFlush, Flushed, CallOpen
<1>12. ASSUME Close PROVE Unflushed'
  <2>1. /\ pc = "flush" /\ next = blob_count /\ pc' = "idle" /\ next' = 0
        /\ UNCHANGED <<log, logOnDisk, blobs, blobOnDisk>>
    BY <1>12 DEF Close, Flushed
  <2>2. \A w \in Workers : w < blob_count \/ w >= blob_count
    BY FileNumbers
  <2>3. logOnDisk = Len(log) /\ \A w \in Workers : blobOnDisk[w] = Len(blobs[w])
    BY <2>1, <2>2 DEF Unflushed
  <2> QED
    BY <2>1, <2>3 DEF Unflushed
<1>13. ASSUME Crash PROVE Unflushed'
  <2>1. /\ log' = SubSeq(log, 1, logOnDisk) /\ UNCHANGED <<logOnDisk, blobOnDisk>>
        /\ \A w \in Workers : blobs'[w] = SubSeq(blobs[w], 1, blobOnDisk[w])
        /\ pc' = "idle" /\ next' = 0
    BY <1>13 DEF Crash, EndCall
  <2>2. Len(log') = logOnDisk /\ \A w \in Workers : Len(blobs'[w]) = blobOnDisk[w]
    BY <2>1, FileTypes
  <2> QED
    BY <2>1, <2>2 DEF Unflushed
<1>14. ASSUME UNCHANGED vars PROVE Unflushed'
  BY <1>14 DEF vars, Unflushed
<1>15. ASSUME Call PROVE Unflushed'
  BY <1>1, <1>2, <1>3, <1>9, <1>15 DEF Call, BeginSaveAll, BeginSaveBitmap
<1>16. ASSUME Step PROVE Unflushed'
  BY <1>4, <1>5, <1>6, <1>7, <1>10, <1>11, <1>12, <1>16 DEF Step
<1> QED
  BY <1>7, <1>8, <1>13, <1>14, <1>15, <1>16 DEF Next, Fault

-----------------------------------------------------------------------------
(* Deltas are made against versions of their page.                         *)

LEMMA WithinStable ==
    /\ \A pa, q, k : Past(pa, q, k)' <=> Past(pa, q, k)
    /\ \A rec : WellFormed(rec)' <=> WellFormed(rec)
  BY DEF Past, WellFormed, DeltaWithin, pa_of, snapshot_of

LEMMA UninitWellFormed == WellFormed(Uninit)
  BY Constants DEF WellFormed, DeltaWithin, Uninit

LEMMA WithinInit == Init => DeltasWithin
<1> SUFFICES ASSUME Init PROVE DeltasWithin
  OBVIOUS
<1>1. /\ Len(log) = 0 /\ \A k \in Pas : records_buf[k] = Uninit
      /\ \A pa \in Pas : shadow[pa].key = None
  BY DEF Init, NoCall, EmptyShadow, NoShadow
<1> QED
  BY <1>1, UninitWellFormed DEF DeltasWithin, ShadowWithin

\* Steps that write neither the log nor its buffer.
LEMMA WithinFrame ==
    ASSUME DeltasWithin, UNCHANGED log,
           \A k \in Pas : records_buf'[k] = records_buf[k] \/ records_buf'[k] = Uninit,
           \A pa \in Pas : shadow'[pa].key # None =>
              Past(pa, last_snapshot', shadow'[pa].key)
    PROVE  DeltasWithin'
<1>1. ShadowWithin'
  BY WithinStable DEF ShadowWithin
<1>2. \A k \in Pas : WellFormed(records_buf'[k])
  BY UninitWellFormed DEF DeltasWithin
<1>3. \A i \in 1..Len(log') : WellFormed(log'[i])
  BY DEF DeltasWithin
<1> QED
  BY <1>1, <1>2, <1>3, WithinStable DEF DeltasWithin

\* The last id only goes up.
LEMMA WithinAccept ==
    ASSUME TypeOK, DeltasWithin, NEW s \in Snapshots, accepts(s),
           last_snapshot' = s, UNCHANGED <<log, records_buf, shadow>>
    PROVE  DeltasWithin'
<1>1. ASSUME NEW pa \in Pas, shadow[pa].key # None PROVE Past(pa, s, shadow[pa].key)
  <2>1. Past(pa, last_snapshot, shadow[pa].key)
    BY <1>1 DEF DeltasWithin, ShadowWithin
  <2>2. shadow[pa].key \in Nat
    BY <1>1 DEF TypeOK
  <2>3. snapshot_of(shadow[pa].key) <= last_snapshot
    BY <2>1 DEF Past
  <2>4. snapshot_of(shadow[pa].key) \in Nat /\ last_snapshot \in Int /\ s \in Nat /\ last_snapshot < s
    BY <2>2, SnapNat, AcceptedNext, IdTypes
  <2>5. snapshot_of(shadow[pa].key) <= s
    BY <2>3, <2>4
  <2> QED
    BY <2>1, <2>5 DEF Past
<1> QED
  BY <1>1, WithinFrame

\* A record on its way to the log.
LEMMA WithinEmit ==
    ASSUME TypeOK, DeltasWithin, UNCHANGED log, ShadowWithin',
           NEW g \in Groups, NEW pa, NEW rec, EmitRecord(g, pa, rec), WellFormed(rec)
    PROVE  DeltasWithin'
<1>1. \A k \in Pas : records_buf'[k] = records_buf[k] \/ records_buf'[k] = rec
  BY DEF EmitRecord, TypeOK
<1>2. \A k \in Pas : WellFormed(records_buf'[k])
  BY <1>1 DEF DeltasWithin
<1>3. \A i \in 1..Len(log') : WellFormed(log'[i])
  BY DEF DeltasWithin
<1> QED
  BY <1>2, <1>3, WithinStable DEF DeltasWithin

\* The keys of the save in progress.
LEMMA SaveKey ==
    ASSUME TypeOK, NEW pa \in Pas
    PROVE  /\ encode_key(pa, snapshot_id) \in Nat
           /\ pa_of(encode_key(pa, snapshot_id)) = pa
           /\ snapshot_of(encode_key(pa, snapshot_id)) = snapshot_id
<1>1. pa \in 0..(PaLimit - 1)
  BY Constants DEF Pas
<1>2. snapshot_id \in Nat /\ snapshot_id <= MAX_SNAPSHOT_ID
  BY DEF TypeOK
<1> QED
  BY <1>1, <1>2, KeyRoundTrip

LEMMA WithinStep == TypeOK /\ IdOfCall /\ DeltasWithin /\ [Next]_vars => DeltasWithin'
<1> SUFFICES ASSUME TypeOK, IdOfCall, DeltasWithin, [Next]_vars PROVE DeltasWithin'
  OBVIOUS
<1> USE DEF diskVars, configVars, handleVars, groupVars, callVars, resultVars, countVars
<1>0. /\ \A pa \in Pas : shadow[pa].key # None => Past(pa, last_snapshot, shadow[pa].key)
      /\ \A pa \in Pas : EmptyShadow[pa].key = None
  BY DEF DeltasWithin, ShadowWithin, EmptyShadow, NoShadow
<1>1. ASSUME NEW n \in WorkerCounts, NEW t \in DeltaThresholds, NEW sh \in ShadowModes,
             Open(n, t, sh)
      PROVE  DeltasWithin'
  BY <1>0, <1>1, WithinFrame DEF Open
<1>2. ASSUME NEW s \in Snapshots, SaveBadLength(s) \/ SaveNothing(s) PROVE DeltasWithin'
  BY <1>2, WithinAccept DEF SaveBadLength, SaveNothing
<1>3. ASSUME NEW s \in Snapshots, NEW mem, NEW first, BeginSave(s, mem, first)
      PROVE  DeltasWithin'
  BY <1>3, WithinAccept DEF BeginSave
<1>4. ASSUME UNCHANGED <<log, shadow, last_snapshot>>,
             \A k \in Pas : records_buf'[k] = records_buf[k] \/ records_buf'[k] = Uninit
      PROVE  DeltasWithin'
  BY <1>0, <1>4, WithinFrame
<1>5. ASSUME NEW g \in Groups, NEW pa \in Pas, EmitZero(g, pa) PROVE DeltasWithin'
  <2> DEFINE rec == new_zero(encode_key(pa, snapshot_id))
  <2>1. EmitRecord(g, pa, rec) /\ UNCHANGED <<log, shadow, last_snapshot>>
    BY <1>5 DEF EmitZero
  <2>2. WellFormed(rec)
    BY Constants DEF WellFormed, DeltaWithin, new_zero
  <2>3. ShadowWithin'
    BY <1>0, <2>1, WithinStable DEF ShadowWithin
  <2> QED
    BY <2>1, <2>2, <2>3, WithinEmit
<1>6. ASSUME NEW g \in Groups, NEW pa \in Pas, LockBlob(g, pa) PROVE DeltasWithin'
  BY <1>4, <1>6 DEF LockBlob
<1>7. ASSUME NEW g \in Groups, NEW spill \in SpillChoices, EmitDelta(g, spill)
      PROVE  DeltasWithin'
  <2> DEFINE pa   == cur[g]
             blob == [kind |-> "Delta", data |-> patch_of(pa)]
             rec  == new_delta(encode_key(pa, snapshot_id), wid(pa), at[g],
                               blob_len(blob), shadow[pa].key)
  <2>1. /\ EmitRecord(g, pa, rec) /\ UNCHANGED <<log, shadow, last_snapshot>>
        /\ pc = "pass" /\ shadow[pa].key # None
    BY <1>7 DEF EmitDelta, DeltaFits
  <2>2. pa \in Pas /\ wid(pa) \in Workers
    BY <1>7, Appends, CurrentPage
  <2>3. Past(pa, snapshot_id, shadow[pa].key)
    BY <1>0, <2>1, <2>2 DEF IdOfCall, Saving
  <2>4. /\ rec.key = encode_key(pa, snapshot_id) /\ rec.base_key = shadow[pa].key
        /\ rec.worker_id = wid(pa)
    BY DEF new_delta
  <2>5. WellFormed(rec)
    BY <2>2, <2>3, <2>4, SaveKey DEF WellFormed, DeltaWithin
  <2>6. ShadowWithin'
    BY <1>0, <2>1, WithinStable DEF ShadowWithin
  <2> HIDE DEF pa, rec
  <2> QED
    BY <2>1, <2>5, <2>6, WithinEmit
<1>8. ASSUME NEW g \in Groups, NEW spill \in SpillChoices, EmitFull(g, spill)
      PROVE  DeltasWithin'
  <2> DEFINE pa   == cur[g]
             key  == encode_key(pa, snapshot_id)
             blob == [kind |-> "Full", data |-> memory[pa]]
             rec  == new_full(key, wid(pa), at[g], blob_len(blob))
  <2>1. /\ EmitRecord(g, pa, rec) /\ insert_if_newer(pa, key, memory[pa])
        /\ UNCHANGED <<log, last_snapshot>> /\ pc = "pass"
    BY <1>8 DEF EmitFull
  <2>2. pa \in Pas /\ wid(pa) \in Workers
    BY <1>8, Appends, CurrentPage
  <2>3. WellFormed(rec)
    BY <2>2 DEF WellFormed, DeltaWithin, new_full
  <2>4. Past(pa, last_snapshot, key)
    <3>1. last_snapshot = snapshot_id /\ snapshot_id \in Nat
      BY <2>1 DEF IdOfCall, Saving, TypeOK
    <3> QED
      BY <2>2, <3>1, SaveKey DEF Past
  <2> HIDE DEF key, rec
  <2>5. \A p \in Pas : shadow'[p].key = shadow[p].key \/ (p = pa /\ shadow'[p].key = key)
    BY <2>1, <2>2 DEF insert_if_newer, TypeOK
  <2>6. ShadowWithin'
    BY <1>0, <2>1, <2>4, <2>5, WithinStable DEF ShadowWithin
  <2> HIDE DEF pa
  <2> QED
    BY <2>1, <2>3, <2>6, WithinEmit
<1>9. ASSUME PassFail \/ WriteFail \/ UpdateHeader PROVE DeltasWithin'
  BY <1>4, <1>9 DEF PassFail, WriteFail, UpdateHeader, Return, EndCall
<1>10. ASSUME NEW spill \in SpillChoices, WriteRecord(spill) PROVE DeltasWithin'
  <2> DEFINE rec == records_buf[next]
  <2>1. /\ log' = Append(log, rec) /\ UNCHANGED <<records_buf, shadow, last_snapshot>>
        /\ next < total_dirty
    BY <1>10 DEF WriteRecord
  <2>2. next \in Pas
    BY <2>1, NextSlot
  <2>3. WellFormed(rec) /\ rec \in Slot
    BY <2>2 DEF DeltasWithin, TypeOK
  <2>4. \A i \in 1..Len(log') : (i \in 1..Len(log) /\ log'[i] = log[i]) \/ log'[i] = rec
    BY <2>1, <2>3, FileTypes
  <2>5. \A i \in 1..Len(log') : WellFormed(log'[i])
    BY <2>3, <2>4 DEF DeltasWithin
  <2>6. ShadowWithin'
    BY <1>0, <2>1, WithinStable DEF ShadowWithin
  <2> QED
    BY <2>1, <2>5, <2>6, WithinStable DEF DeltasWithin
<1>11. ASSUME PassDone \/ SeekHeader \/ BeginFlush \/ FlushBlob \/ EndFlush PROVE DeltasWithin'
  BY <1>4, <1>11 DEF PassDone, SeekHeader, BeginFlush, FlushBlob, EndFlush
<1>12. ASSUME Close PROVE DeltasWithin'
  BY <1>0, <1>12, WithinFrame DEF Close, Dropped
<1>13. ASSUME NEW g \in Groups, AppendFail(g) PROVE DeltasWithin'
  BY <1>4, <1>13 DEF AppendFail, GiveUp
<1>14. ASSUME Crash PROVE DeltasWithin'
  <2>1. /\ log' = SubSeq(log, 1, logOnDisk) /\ shadow' = EmptyShadow
        /\ \A k \in Pas : records_buf'[k] = Uninit
    BY <1>14 DEF Crash, Dropped, EndCall
  <2>2. \A i \in 1..Len(log') : i \in 1..Len(log) /\ log'[i] = log[i]
    BY <2>1, FileTypes
  <2>3. \A i \in 1..Len(log') : WellFormed(log'[i])
    BY <2>2 DEF DeltasWithin
  <2>4. ShadowWithin'
    BY <1>0, <2>1 DEF ShadowWithin
  <2> QED
    BY <2>1, <2>3, <2>4, UninitWellFormed, WithinStable DEF DeltasWithin
<1>15. ASSUME UNCHANGED vars PROVE DeltasWithin'
  BY <1>4, <1>15 DEF vars
<1>16. ASSUME Call PROVE DeltasWithin'
  BY <1>1, <1>2, <1>3, <1>11, <1>16 DEF Call, BeginSaveAll, BeginSaveBitmap
<1>17. ASSUME Step PROVE DeltasWithin'
  BY <1>5, <1>6, <1>7, <1>8, <1>9, <1>10, <1>11, <1>12, <1>17 DEF Step
<1> QED
  BY <1>9, <1>13, <1>14, <1>15, <1>16, <1>17 DEF Next, Fault

-----------------------------------------------------------------------------
(* What is sealed stays as it is.                                          *)

\* What the writer has sealed since the last step.
LEMMA SealedChange ==
    ASSUME TypeOK, [Next]_vars
    PROVE  \/ sealed' = sealed
           \/ /\ pc = "flush" /\ next = blob_count /\ intact
              /\ UNCHANGED <<log, logOnDisk, blobs, blobOnDisk>>
<1> USE DEF diskVars, configVars, handleVars, groupVars, callVars, resultVars, countVars
<1>1. CASE Call
  BY <1>1
  DEF Call, Open, SaveBadLength, SaveNothing, BeginSaveAll, BeginSaveBitmap, BeginSave, BeginFlush
<1>2. CASE \E g \in Groups : \/ \E pa \in Pas : EmitZero(g, pa) \/ LockBlob(g, pa)
                             \/ \E spill \in SpillChoices : EmitDelta(g, spill) \/ EmitFull(g, spill)
                             \/ AppendFail(g)
  BY <1>2 DEF EmitZero, LockBlob, EmitDelta, EmitFull, AppendFail, GiveUp
<1>3. CASE \/ PassDone \/ PassFail \/ SeekHeader \/ UpdateHeader \/ FlushBlob \/ WriteFail \/ Crash
           \/ \E spill \in SpillChoices : WriteRecord(spill)
  BY <1>3 DEF PassDone, PassFail, SeekHeader, UpdateHeader, FlushBlob, WriteFail, Crash, WriteRecord
<1>4. CASE EndFlush \/ Close
  BY <1>4 DEF EndFlush, Close, Flushed
<1>5. CASE UNCHANGED vars
  BY <1>5 DEF vars
<1> QED
  BY <1>1, <1>2, <1>3, <1>4, <1>5 DEF Next, Step, Fault

LEMMA SealedInit == Init => Sealed
<1>1. Init => SealedOnDisk
  BY DEF Init, SealedOnDisk
<1> QED
  BY <1>1, IdsInit, UnflushedInit, WithinInit DEF Sealed

LEMMA OnDiskStep ==
    TypeOK /\ TypeOK' /\ Placed /\ Slotted /\ Sealed /\ [Next]_vars => SealedOnDisk'
<1> SUFFICES ASSUME TypeOK, TypeOK', Placed, Slotted, Sealed, [Next]_vars PROVE SealedOnDisk'
  OBVIOUS
<1> USE DEF Sealed
<1>1. /\ \A i \in 1..Len(log) : log[i].worker_id \in Workers /\ log[i] \in Slot
      /\ \A k : snapshot_of(k)' = snapshot_of(k)
  <2>1. \A i \in 1..Len(log) : log[i].worker_id \in Workers
    BY DEF DeltasWithin, WellFormed
  <2> QED
    BY <2>1, LogSlots, Stable
<1>2. CASE sealed' = sealed
  <2>1. LogKept /\ LogDiskKept /\ BlobsKept
    BY FilesStep
  <2>2. ASSUME NEW i \in 1..Len(log'), snapshot_of(log'[i].key) <= sealed
        PROVE  i <= logOnDisk' /\ log'[i].offset + log'[i].len <= blobOnDisk'[log'[i].worker_id]
    <3>1. log'[i] \in Slot
      BY FileTypesNext
    <3>2. snapshot_of(log'[i].key) \in Nat /\ sealed \in Int
      BY <3>1, SnapNat, IdTypes DEF Slot
    <3>3. i <= Len(log) /\ log'[i] = log[i]
      <4>1. ~(sealed < snapshot_of(log'[i].key))
        BY <2>2, <3>2
      <4> QED
        BY <2>1, <4>1 DEF LogKept
    <3>4. i \in 1..Len(log)
      BY <3>3, FileTypes
    <3>5. i <= logOnDisk /\ log[i].offset + log[i].len <= blobOnDisk[log[i].worker_id]
      BY <2>2, <3>3, <3>4 DEF SealedOnDisk
    <3>6. i <= logOnDisk'
      BY <2>1, <3>5, FileTypes, FileTypesNext DEF LogDiskKept
    <3>7. /\ blobOnDisk[log[i].worker_id] \in Nat /\ blobOnDisk'[log[i].worker_id] \in Nat
          /\ blobOnDisk[log[i].worker_id] <= blobOnDisk'[log[i].worker_id]
          /\ log[i].offset + log[i].len \in Nat
      <4>1. log[i].worker_id \in Workers /\ log[i].offset \in Nat /\ log[i].len \in 0..1
        BY <1>1, <3>4 DEF Slot
      <4>2. \A w \in Workers : /\ blobOnDisk[w] \in Nat /\ blobOnDisk'[w] \in Nat
                               /\ blobOnDisk[w] <= blobOnDisk'[w]
        BY <2>1, FileTypes, FileTypesNext DEF BlobsKept
      <4> QED
        BY <4>1, <4>2
    <3> QED
      BY <3>3, <3>5, <3>6, <3>7
  <2> QED
    BY <1>1, <1>2, <2>2 DEF SealedOnDisk
<1>3. CASE sealed' # sealed
  <2>1. /\ pc = "flush" /\ next = blob_count /\ intact
        /\ UNCHANGED <<log, logOnDisk, blobs, blobOnDisk>>
    BY <1>3, SealedChange
  <2>2. \A w \in Workers : w < blob_count \/ w >= blob_count
    BY FileNumbers
  <2>3. logOnDisk = Len(log) /\ \A w \in Workers : blobOnDisk[w] = Len(blobs[w])
    BY <2>1, <2>2 DEF Unflushed
  <2>4. \A i \in 1..Len(log) : /\ i <= logOnDisk
                               /\ log[i].offset + log[i].len <= blobOnDisk[log[i].worker_id]
    BY <1>1, <2>1, <2>3 DEF intact
  <2> QED
    BY <2>1, <2>4 DEF SealedOnDisk
<1> QED
  BY <1>2, <1>3

LEMMA SealedStep ==
    TypeOK /\ TypeOK' /\ Placed /\ Slotted /\ Sealed /\ [Next]_vars => Sealed'
<1>1. Placed /\ Sealed => CallOpen /\ IdOfCall
  BY DEF Placed, Sealed, IdsAbove, IdOfCall
<1> QED
  BY <1>1, IdsStep, UnflushedStep, WithinStep, OnDiskStep DEF Sealed

\* In every reachable state the writer keeps what it has sealed.
THEOREM AlwaysSealed == Spec => []Sealed
  BY TypeCorrect, PlacedInit, PlacedStep, SlottedInit, SlottedStep, SealedInit, SealedStep, PTL
  DEF Spec

\* Sequences of records that agree in all places, and the first n records.
LEMMA SameSequence ==
    ASSUME NEW recs1 \in Seq(Slot), NEW recs2 \in Seq(Slot), Len(recs1) = Len(recs2),
           \A i \in 1..Len(recs1) : recs1[i] = recs2[i]
    PROVE  recs1 = recs2
  OBVIOUS

LEMMA FirstOf ==
    ASSUME NEW recs \in Seq(Slot), NEW n \in 0..Len(recs)
    PROVE  /\ SubSeq(recs, 1, n) \in Seq(Slot) /\ Len(SubSeq(recs, 1, n)) = n
           /\ \A i \in 1..n : SubSeq(recs, 1, n)[i] = recs[i]
<1>1. Len(recs) \in Nat /\ n \in Nat /\ \A i \in 1..n : recs[i] \in Slot
  OBVIOUS
<1> QED
  BY <1>1, SubSeqProperties

\* A longer log has the same record with key k first, if it adds none.
LEMMA IndexGrows ==
    ASSUME NEW recs1 \in Seq(Slot), NEW recs2 \in Seq(Slot), NEW k,
           Len(recs1) <= Len(recs2),
           \A i \in 1..Len(recs1) : recs2[i] = recs1[i],
           \A i \in (Len(recs1) + 1)..Len(recs2) : recs2[i].key # k
    PROVE  /\ k \in DOMAIN build_lazy_index(recs1) <=> k \in DOMAIN build_lazy_index(recs2)
           /\ k \in DOMAIN build_lazy_index(recs1) =>
                 build_lazy_index(recs1)[k] = build_lazy_index(recs2)[k]
<1>1. /\ DOMAIN recs1 = 1..Len(recs1) /\ DOMAIN recs2 = 1..Len(recs2)
      /\ Len(recs1) \in Nat /\ Len(recs2) \in Nat
  OBVIOUS
<1>2. ASSUME k \in DOMAIN build_lazy_index(recs1)
      PROVE  /\ k \in DOMAIN build_lazy_index(recs2)
             /\ build_lazy_index(recs1)[k] = build_lazy_index(recs2)[k]
  <2>1. PICK i \in 1..Len(recs1) :
           /\ recs1[i].key = k /\ build_lazy_index(recs1)[k] = recs1[i]
           /\ \A j \in 1..(i - 1) : recs1[j].key # k
    BY <1>2, IndexHolds
  <2>2. i \in DOMAIN recs2 /\ recs2[i] = recs1[i] /\ \A j \in 1..(i - 1) : recs2[j] = recs1[j]
    BY <1>1
  <2>3. recs2[i].key = k /\ \A j \in 1..(i - 1) : recs2[j].key # recs2[i].key
    BY <2>1, <2>2
  <2>4. /\ recs2[i].key \in DOMAIN build_lazy_index(recs2)
        /\ build_lazy_index(recs2)[recs2[i].key] = recs2[i]
    BY <2>2, <2>3, IndexFirst
  <2> QED
    BY <2>1, <2>2, <2>3, <2>4
<1>3. ASSUME k \in DOMAIN build_lazy_index(recs2) PROVE k \in DOMAIN build_lazy_index(recs1)
  <2>1. PICK i \in 1..Len(recs2) : recs2[i].key = k
    BY <1>3, IndexHolds
  <2>2. i \in 1..Len(recs1)
    BY <1>1, <2>1
  <2> QED
    BY <1>1, <2>1, <2>2, IndexDomain
<1> QED
  BY <1>2, <1>3

\* What another process finds.
DiskFiles ==
    /\ disk_log \in Seq(Slot) /\ Len(disk_log) = logOnDisk
    /\ \A i \in 1..logOnDisk : disk_log[i] = log[i]
    /\ \A w \in Workers : /\ Len(disk_blobs[w]) = blobOnDisk[w]
                          /\ \A j \in 1..blobOnDisk[w] : disk_blobs[w][j] = blobs[w][j]

LEMMA DiskTypes == TypeOK => DiskFiles
<1> SUFFICES ASSUME TypeOK PROVE DiskFiles
  OBVIOUS
<1>1. /\ disk_log \in Seq(Slot) /\ Len(disk_log) = logOnDisk
      /\ \A i \in 1..logOnDisk : disk_log[i] = log[i]
  <2>1. \A i \in 1..logOnDisk : log[i] \in Slot
    BY DEF TypeOK
  <2> QED
    BY <2>1, FileTypes, SubSeqProperties DEF disk_log
<1>2. \A w \in Workers : /\ Len(disk_blobs[w]) = blobOnDisk[w]
                         /\ \A j \in 1..blobOnDisk[w] : disk_blobs[w][j] = blobs[w][j]
  BY FileTypes DEF disk_blobs
<1> QED
  BY <1>1, <1>2 DEF DiskFiles

\* A version up to the sealed snapshot is the same before and after a step.
LEMMA SealedPast ==
    ASSUME TypeOK, TypeOK', Placed, Slotted, Sealed, [Next]_vars,
           NEW pa, NEW q \in Int, q <= sealed
    PROVE  SamePast(pa, q, build_lazy_index(disk_log), disk_blobs,
                           build_lazy_index(disk_log'), disk_blobs')
<1> DEFINE idx1 == build_lazy_index(disk_log)
           idx2 == build_lazy_index(disk_log')
<1>1. LogKept /\ LogDiskKept /\ BlobsKept
  BY FilesStep DEF Sealed
<1>2. DiskFiles /\ DiskFiles'
  BY DiskTypes, PTL
<1>3. /\ disk_log \in Seq(Slot) /\ Len(disk_log) = logOnDisk
      /\ disk_log' \in Seq(Slot) /\ Len(disk_log') = logOnDisk'
      /\ \A i \in 1..logOnDisk : disk_log[i] = log[i]
      /\ \A i \in 1..logOnDisk' : disk_log'[i] = log'[i]
  BY <1>2 DEF DiskFiles
<1>4. /\ logOnDisk \in Nat /\ logOnDisk' \in Nat /\ logOnDisk <= logOnDisk'
      /\ Len(log) \in Nat /\ Len(log') \in Nat /\ logOnDisk <= Len(log) /\ logOnDisk' <= Len(log')
      /\ sealed \in Int
      /\ \A i \in 1..logOnDisk : disk_log'[i] = disk_log[i]
  <2>1. /\ logOnDisk \in Nat /\ logOnDisk' \in Nat
        /\ Len(log) \in Nat /\ Len(log') \in Nat /\ logOnDisk <= Len(log) /\ logOnDisk' <= Len(log')
        /\ sealed \in Int
    BY FileTypes, FileTypesNext, IdTypes
  <2>2. logOnDisk <= logOnDisk' /\ \A i \in 1..logOnDisk : log'[i] = log[i]
    BY <1>1 DEF LogDiskKept
  <2>3. \A i \in 1..logOnDisk : i \in 1..logOnDisk'
    BY <2>1, <2>2
  <2>4. \A i \in 1..logOnDisk : disk_log'[i] = disk_log[i]
    BY <1>3, <2>2, <2>3
  <2> QED
    BY <2>1, <2>2, <2>4
<1>5. ASSUME NEW i \in (logOnDisk + 1)..logOnDisk' PROVE sealed < snapshot_of(disk_log'[i].key)
  <2>1. i \in 1..Len(log') /\ disk_log'[i] = log'[i] /\ ~(i <= logOnDisk)
    BY <1>3, <1>4
  <2>2. CASE i <= Len(log) /\ log'[i] = log[i]
    <3>1. i \in 1..Len(log)
      BY <1>4, <2>1, <2>2
    <3>2. ~(snapshot_of(log[i].key) <= sealed)
      BY <2>1, <3>1 DEF Sealed, SealedOnDisk
    <3>3. snapshot_of(log[i].key) \in Nat
      BY <3>1, LogSlots, SnapNat DEF Slot
    <3>4. sealed < snapshot_of(log[i].key)
      BY <1>4, <3>2, <3>3
    <3> QED
      BY <2>1, <2>2, <3>4
  <2> QED
    BY <1>1, <2>1, <2>2 DEF LogKept
<1>6. ASSUME NEW v \in Workers
      PROVE  /\ Len(disk_blobs[v]) = blobOnDisk[v] /\ Len(disk_blobs'[v]) = blobOnDisk'[v]
             /\ \A j \in 1..blobOnDisk[v] : disk_blobs'[v][j] = disk_blobs[v][j]
  <2>1. blobOnDisk[v] \in Nat /\ blobOnDisk'[v] \in Nat /\ blobOnDisk[v] <= blobOnDisk'[v]
    BY <1>1, FileTypes DEF BlobsKept, TypeOK
  <2>2. \A j \in 1..blobOnDisk[v] : j \in 1..blobOnDisk'[v] /\ blobs'[v][j] = blobs[v][j]
    BY <1>1, <2>1 DEF BlobsKept
  <2>3. /\ Len(disk_blobs[v]) = blobOnDisk[v]
        /\ \A j \in 1..blobOnDisk[v] : disk_blobs[v][j] = blobs[v][j]
    BY <1>2 DEF DiskFiles
  <2>4. /\ Len(disk_blobs'[v]) = blobOnDisk'[v]
        /\ \A j \in 1..blobOnDisk'[v] : disk_blobs'[v][j] = blobs'[v][j]
    BY <1>2 DEF DiskFiles
  <2> QED
    BY <2>2, <2>3, <2>4
<1>7. ASSUME NEW k \in Nat, Past(pa, q, k)
      PROVE  /\ k \in DOMAIN idx1 <=> k \in DOMAIN idx2
             /\ k \in DOMAIN idx1 =>
                   /\ idx1[k] = idx2[k] /\ idx1[k] \in Slot /\ idx1[k].key = k
                   /\ DeltaWithin(idx1[k])
                   /\ SameBytes(idx1[k], disk_blobs, disk_blobs')
  <2>1. snapshot_of(k) \in Nat /\ snapshot_of(k) <= sealed
    <3>1. snapshot_of(k) \in Nat /\ snapshot_of(k) <= q
      BY <1>7, SnapNat DEF Past
    <3> QED
      BY <1>4, <3>1
  <2>2. \A i \in (logOnDisk + 1)..logOnDisk' : disk_log'[i].key # k
    <3>1. ~(sealed < snapshot_of(k))
      BY <1>4, <2>1
    <3> QED
      BY <1>5, <3>1
  <2>3. /\ k \in DOMAIN idx1 <=> k \in DOMAIN idx2
        /\ k \in DOMAIN idx1 => idx1[k] = idx2[k]
    BY <1>3, <1>4, <2>2, IndexGrows
  <2>4. ASSUME k \in DOMAIN idx1
        PROVE  /\ idx1[k] \in Slot /\ idx1[k].key = k
               /\ DeltaWithin(idx1[k]) /\ SameBytes(idx1[k], disk_blobs, disk_blobs')
    <3>1. PICK i \in 1..logOnDisk : disk_log[i].key = k /\ idx1[k] = disk_log[i]
      BY <1>3, <2>4, IndexHolds
    <3>2. i \in 1..Len(log) /\ idx1[k] = log[i] /\ log[i].key = k /\ log[i] \in Slot
      BY <1>3, <1>4, <3>1, LogSlots
    <3>3. DeltaWithin(log[i]) /\ log[i].worker_id \in Workers
      BY <3>2 DEF Sealed, DeltasWithin, WellFormed
    <3>4. log[i].offset + log[i].len <= blobOnDisk[log[i].worker_id]
      BY <2>1, <3>2 DEF Sealed, SealedOnDisk
    <3> DEFINE w == log[i].worker_id
               o == log[i].offset
    <3>5. /\ o \in Nat /\ log[i].len \in Nat
          /\ blobOnDisk[w] \in Nat /\ blobOnDisk'[w] \in Nat /\ blobOnDisk[w] <= blobOnDisk'[w]
      <4>1. blobOnDisk[w] \in Nat /\ blobOnDisk[w] <= blobOnDisk'[w]
        BY <1>1, <3>3, FileTypes DEF BlobsKept
      <4>2. blobOnDisk'[w] \in Nat
        BY <3>3 DEF TypeOK
      <4> QED
        BY <3>2, <4>1, <4>2 DEF Slot
    <3>6. /\ Len(disk_blobs[w]) = blobOnDisk[w] /\ Len(disk_blobs'[w]) = blobOnDisk'[w]
          /\ \A j \in 1..blobOnDisk[w] : disk_blobs'[w][j] = disk_blobs[w][j]
      BY <1>6, <3>3
    <3>7. in_range(disk_blobs, log[i]) /\ in_range(disk_blobs', log[i])
      <4>1. o + log[i].len <= blobOnDisk[w] /\ o + log[i].len <= blobOnDisk'[w]
        BY <3>4, <3>5
      <4> QED
        BY <3>6, <4>1 DEF in_range
    <3>8. log[i].len = 1 => o + 1 \in 1..blobOnDisk[w]
      BY <3>4, <3>5
    <3>9. SameBytes(log[i], disk_blobs, disk_blobs')
      BY <3>6, <3>7, <3>8 DEF SameBytes
    <3> QED
      BY <3>2, <3>3, <3>9
  <2> QED
    BY <2>3, <2>4
<1> QED
  BY <1>7 DEF SamePast

\* Flushed history is final as long as no crash has torn a record of the log that
\* is read: for every page and every snapshot up to the header at the end of a flush
\* that left no blob behind, no later save, failed save, write error, crash,
\* reopening or repeated snapshot id changes an answer.
THEOREM SealedIsFinal == Spec => SealedHistory
<1> DEFINE Final == \A pa \in Pas, q \in Queries :
                       (q <= sealed /\ log_reads /\ log_reads')
                           => answers(disk_log, disk_blobs)'[pa][q]
                            = answers(disk_log, disk_blobs)[pa][q]
<1>1. TypeOK /\ TypeOK' /\ Placed /\ Slotted /\ Sealed /\ [Next]_vars => Final
  <2> SUFFICES ASSUME TypeOK, TypeOK', Placed, Slotted, Sealed, [Next]_vars,
                      NEW pa \in Pas, NEW q \in Queries, q <= sealed
               PROVE  answers(disk_log, disk_blobs)'[pa][q] = answers(disk_log, disk_blobs)[pa][q]
    OBVIOUS
  <2> DEFINE idx1 == build_lazy_index(disk_log)
             idx2 == build_lazy_index(disk_log')
  <2>1. q \in 0..MAX_SNAPSHOT_ID /\ q \in Int /\ pa \in 0..(PaLimit - 1)
    BY QueriesAssumption, SnapshotRange, Constants DEF Pas
  <2>2. SamePast(pa, q, idx1, disk_blobs, idx2, disk_blobs')
    BY <2>1, SealedPast
  <2>3. DOMAIN idx1 \subseteq Nat /\ DOMAIN idx2 \subseteq Nat
    <3>1. DiskFiles /\ DiskFiles'
      BY DiskTypes, PTL
    <3>2. disk_log \in Seq(Slot) /\ disk_log' \in Seq(Slot)
      BY <3>1 DEF DiskFiles
    <3> QED
      BY <3>2, IndexNat
  <2>4. load_page(idx1, disk_blobs, pa, q) = load_page(idx2, disk_blobs', pa, q)
    BY <2>1, <2>2, <2>3, SameLoad
  <2>5. answers(disk_log, disk_blobs)[pa][q] = load_page(idx1, disk_blobs, pa, q)
    BY AnswersAre
  <2>6. answers(disk_log', disk_blobs')[pa][q] = load_page(idx2, disk_blobs', pa, q)
    BY AnswersAre
  <2>7. answers(disk_log, disk_blobs)' = answers(disk_log', disk_blobs')
    BY DEF answers
  <2> QED
    BY <2>4, <2>5, <2>6, <2>7
<1> QED
  BY <1>1, TypeCorrect, PlacedInit, PlacedStep, SlottedInit, SlottedStep, AlwaysSealed, PTL
  DEF Spec, SealedHistory


-----------------------------------------------------------------------------
(* The scan of the log finds what the search in the index finds.           *)

\* What the scan keeps after one more record.
ScanRecord(pa, q, latest, rec) ==
    IF \/ pa_of(rec.key) # pa
       \/ snapshot_of(rec.key) > q
       \/ \E prev \in latest : snapshot_of(prev.key) >= snapshot_of(rec.key)
    THEN latest
    ELSE {rec}

SnapAt(recs, i) == snapshot_of(recs[i].key)

\* Record i is, of the versions of pa up to q at the positions s of the log, the
\* first of the highest snapshot.
LatestOf(recs, pa, q, s) ==
    {i \in s : /\ Past(pa, q, recs[i].key)
               /\ \A j \in s : Past(pa, q, recs[j].key) =>
                     \/ SnapAt(recs, j) < SnapAt(recs, i)
                     \/ SnapAt(recs, j) = SnapAt(recs, i) /\ i <= j}

FoundIn(recs, pa, q, s) == {recs[i] : i \in LatestOf(recs, pa, q, s)}

LEMMA SnapsNat ==
    ASSUME NEW recs \in Seq(Slot)
    PROVE  \A i \in DOMAIN recs : i \in Nat /\ recs[i].key \in Nat /\ SnapAt(recs, i) \in Nat
<1>1. \A i \in DOMAIN recs : i \in Nat /\ recs[i] \in Slot
  OBVIOUS
<1>2. \A r \in Slot : r.key \in Nat
  BY DEF Slot
<1> QED
  BY <1>1, <1>2, SnapNat DEF SnapAt

\* If there is a version up to q, one is the first of the highest snapshot,
LEMMA LatestExists ==
    ASSUME NEW recs \in Seq(Slot), NEW pa, NEW q \in Nat, NEW s \in SUBSET DOMAIN recs,
           NEW x \in s, Past(pa, q, recs[x].key)
    PROVE  LatestOf(recs, pa, q, s) # {}
<1> DEFINE P == {i \in s : Past(pa, q, recs[i].key)}
           back(i) == q - SnapAt(recs, i)
<1>1. \A i \in P : i \in Nat /\ SnapAt(recs, i) \in Nat /\ SnapAt(recs, i) <= q
  BY SnapsNat DEF Past, SnapAt
<1>2. \A i \in P : back(i) \in Nat
  BY <1>1
<1>3. {back(i) : i \in P} \subseteq Nat /\ {back(i) : i \in P} # {}
  BY <1>2
<1>4. PICK m \in {back(i) : i \in P} : \A n \in {back(i) : i \in P} : m <= n
  BY <1>3, LeastOf
<1>5. PICK y \in P : m = back(y)
  BY <1>4
<1>6. ASSUME NEW j \in P PROVE SnapAt(recs, j) <= SnapAt(recs, y)
  <2>1. back(y) <= back(j)
    BY <1>4, <1>5
  <2> QED
    BY <1>1, <2>1
<1> DEFINE H == {i \in P : SnapAt(recs, i) = SnapAt(recs, y)}
<1>7. H \subseteq Nat /\ H # {}
  BY <1>1, <1>5
<1>8. PICK i \in H : \A j \in H : i <= j
  BY <1>7, LeastOf
<1>9. ASSUME NEW j \in P
      PROVE  \/ SnapAt(recs, j) < SnapAt(recs, i)
             \/ SnapAt(recs, j) = SnapAt(recs, i) /\ i <= j
  <2>1. /\ SnapAt(recs, i) = SnapAt(recs, y) /\ SnapAt(recs, j) <= SnapAt(recs, y)
        /\ SnapAt(recs, y) \in Nat /\ SnapAt(recs, j) \in Nat
    BY <1>1, <1>6, <1>8
  <2>2. SnapAt(recs, j) = SnapAt(recs, y) => i <= j
    BY <1>8
  <2> QED
    BY <2>1, <2>2
<1>10. i \in LatestOf(recs, pa, q, s)
  BY <1>8, <1>9 DEF LatestOf
<1> QED
  BY <1>10

\* and no other is.
LEMMA LatestUnique ==
    ASSUME NEW recs \in Seq(Slot), NEW pa, NEW q, NEW s \in SUBSET DOMAIN recs,
           NEW i \in LatestOf(recs, pa, q, s), NEW j \in LatestOf(recs, pa, q, s)
    PROVE  i = j
<1>1. /\ i \in Nat /\ SnapAt(recs, i) \in Nat /\ j \in Nat /\ SnapAt(recs, j) \in Nat
  BY SnapsNat DEF LatestOf
<1>2. /\ SnapAt(recs, j) < SnapAt(recs, i) \/ (SnapAt(recs, j) = SnapAt(recs, i) /\ i <= j)
      /\ SnapAt(recs, i) < SnapAt(recs, j) \/ (SnapAt(recs, i) = SnapAt(recs, j) /\ j <= i)
  BY DEF LatestOf
<1> QED
  BY <1>1, <1>2

\* One record more, behind all others.
LEMMA LatestNext ==
    ASSUME NEW recs \in Seq(Slot), NEW pa, NEW q \in Nat, NEW t \in SUBSET DOMAIN recs,
           NEW x \in DOMAIN recs, \A i \in t : i < x, NEW s, s = t \union {x}
    PROVE  FoundIn(recs, pa, q, s) = ScanRecord(pa, q, FoundIn(recs, pa, q, t), recs[x])
<1> DEFINE P(i) == Past(pa, q, recs[i].key)
           Sooner ==
              \E prev \in FoundIn(recs, pa, q, t) : snapshot_of(prev.key) >= SnapAt(recs, x)
<1>1. /\ s \in SUBSET DOMAIN recs /\ x \in Nat
      /\ \A i \in s : i \in Nat /\ SnapAt(recs, i) \in Nat
  BY SnapsNat
<1>2. ScanRecord(pa, q, FoundIn(recs, pa, q, t), recs[x])
         = IF ~P(x) \/ Sooner THEN FoundIn(recs, pa, q, t) ELSE {recs[x]}
  <2>1. P(x) <=> ~(pa_of(recs[x].key) # pa \/ snapshot_of(recs[x].key) > q)
    BY SnapsNat DEF Past, SnapAt
  <2> QED
    BY <2>1 DEF ScanRecord, SnapAt
<1>3. CASE ~P(x)
  <2>1. LatestOf(recs, pa, q, s) = LatestOf(recs, pa, q, t)
    BY <1>3 DEF LatestOf
  <2> QED
    BY <1>2, <1>3, <2>1 DEF FoundIn
<1>4. CASE P(x) /\ Sooner
  <2>1. PICK i \in LatestOf(recs, pa, q, t) : SnapAt(recs, i) >= SnapAt(recs, x)
    BY <1>4 DEF FoundIn, SnapAt
  <2>2. i \in t /\ i < x /\ P(i)
    BY <2>1 DEF LatestOf
  <2>3. \A j \in t : P(j) => \/ SnapAt(recs, j) < SnapAt(recs, i)
                             \/ SnapAt(recs, j) = SnapAt(recs, i) /\ i <= j
    BY <2>1 DEF LatestOf
  <2>4. SnapAt(recs, x) < SnapAt(recs, i) \/ (SnapAt(recs, x) = SnapAt(recs, i) /\ i <= x)
    BY <1>1, <2>1, <2>2
  <2>5. i \in LatestOf(recs, pa, q, s)
    BY <2>2, <2>3, <2>4 DEF LatestOf
  <2>6. LatestOf(recs, pa, q, s) = {i} /\ LatestOf(recs, pa, q, t) = {i}
    BY <1>1, <2>1, <2>5, LatestUnique
  <2> QED
    BY <1>2, <1>4, <2>6 DEF FoundIn
<1>5. CASE P(x) /\ ~Sooner
  <2>1. \A i \in LatestOf(recs, pa, q, t) : ~(SnapAt(recs, i) >= SnapAt(recs, x))
    BY <1>5 DEF FoundIn, SnapAt
  <2>2. ASSUME NEW j \in t, P(j) PROVE SnapAt(recs, j) < SnapAt(recs, x)
    <3>1. PICK i \in LatestOf(recs, pa, q, t) : TRUE
      BY <2>2, LatestExists
    <3>2. i \in s /\ (SnapAt(recs, j) < SnapAt(recs, i) \/ SnapAt(recs, j) = SnapAt(recs, i))
      BY <2>2, <3>1 DEF LatestOf
    <3> QED
      BY <1>1, <2>1, <3>1, <3>2
  <2>3. x \in LatestOf(recs, pa, q, s)
    BY <1>1, <1>5, <2>2 DEF LatestOf
  <2>4. LatestOf(recs, pa, q, s) = {x}
    BY <1>1, <2>3, LatestUnique
  <2> QED
    BY <1>2, <1>5, <2>4 DEF FoundIn
<1> QED
  BY <1>3, <1>4, <1>5

\* One record more of the scan: what it has found in the part s of the log, from
\* what f says that it has found before the last record of s.
ScanFrom(recs, pa, q, f) ==
    [s \in SUBSET DOMAIN recs |->
        IF s = {} THEN {} ELSE ScanRecord(pa, q, f[s \ {Max(s)}], recs[Max(s)])]

\* The scan is a solution of its recursive definition, at the whole log.
LEMMA ScanFolds ==
    ASSUME NEW recs, NEW pa, NEW q
    PROVE  scan_latest(recs, pa, q) = (CHOOSE f : f = ScanFrom(recs, pa, q, f))[DOMAIN recs]
<1> DEFINE F(f) == [s \in SUBSET DOMAIN recs |->
                       IF s = {} THEN {}
                       ELSE IF \/ pa_of(recs[Max(s)].key) # pa
                               \/ snapshot_of(recs[Max(s)].key) > q
                               \/ \E prev \in f[s \ {Max(s)}] :
                                     snapshot_of(prev.key) >= snapshot_of(recs[Max(s)].key)
                            THEN f[s \ {Max(s)}]
                            ELSE {recs[Max(s)]}]
<1>1. scan_latest(recs, pa, q) = (CHOOSE f : f = F(f))[DOMAIN recs]
  BY DEF scan_latest, FoldLeft, MapThenFoldSet
<1>2. \A f : F(f) = ScanFrom(recs, pa, q, f)
  BY DEF ScanFrom, ScanRecord
<1> HIDE DEF F
<1>3. \A f : f = F(f) <=> f = ScanFrom(recs, pa, q, f)
  BY <1>2
<1>4. (CHOOSE f : f = F(f)) = (CHOOSE f : f = ScanFrom(recs, pa, q, f))
  BY <1>3, Zenon
<1> QED
  BY <1>1, <1>4

\* The end of a part of the log.
LEMMA GreatestIn ==
    ASSUME NEW n \in Nat, NEW s \in SUBSET (1..n), s # {}
    PROVE  Max(s) \in s /\ \A i \in s : i <= Max(s)
<1>1. \A i \in s : n - i \in Nat
  OBVIOUS
<1>2. {n - i : i \in s} \subseteq Nat /\ {n - i : i \in s} # {}
  BY <1>1
<1>3. PICK m \in {n - i : i \in s} : \A k \in {n - i : i \in s} : m <= k
  BY <1>2, LeastOf
<1>4. PICK y \in s : m = n - y
  BY <1>3
<1>5. ASSUME NEW i \in s PROVE y >= i
  <2>1. n - y <= n - i
    BY <1>3, <1>4
  <2> QED
    BY <2>1
<1>6. Max(s) \in s /\ \A i \in s : Max(s) >= i
  BY <1>5 DEF Max
<1> QED
  BY <1>6

\* What agrees at the empty beginning and, if at one beginning of a log, at the
\* next, agrees at the whole log.
LEMMA BeginningsAgree ==
    ASSUME NEW n \in Nat, NEW f, NEW g, f[{}] = g[{}],
           \A m \in 1..n : f[1..(m - 1)] = g[1..(m - 1)] => f[1..m] = g[1..m]
    PROVE  f[1..n] = g[1..n]
<1> DEFINE T == {m \in 0..n : f[1..m] # g[1..m]}
<1>1. T = {}
  <2> SUFFICES ASSUME T # {} PROVE FALSE
    OBVIOUS
  <2>1. T \subseteq Nat
    OBVIOUS
  <2>2. PICK m \in T : \A k \in T : m <= k
    BY <2>1, LeastOf
  <2>3. m # 0
    <3>1. 1..0 = {}
      OBVIOUS
    <3>2. 0 \notin T
      BY <3>1
    <3> QED
      BY <2>2, <3>2
  <2>4. m \in 1..n /\ m - 1 \in 0..n /\ ~(m <= m - 1)
    BY <2>2, <2>3
  <2>5. f[1..(m - 1)] = g[1..(m - 1)]
    BY <2>2, <2>4
  <2> QED
    BY <2>2, <2>4, <2>5
<1>2. n \notin T
  BY <1>1
<1> QED
  BY <1>2

\* The last of a beginning, and what comes before it.
LEMMA LastOfBeginning ==
    ASSUME NEW n \in Nat, NEW m \in 1..n
    PROVE  1..m \in SUBSET (1..n) /\ 1..m # {} /\ Max(1..m) = m /\ (1..m) \ {m} = 1..(m - 1)
<1>1. m \in Nat /\ m \in 1..m /\ 1..m \in SUBSET (1..n) /\ 1..m # {}
  OBVIOUS
<1>2. Max(1..m) \in 1..m /\ \A i \in 1..m : i <= Max(1..m)
  BY <1>1, GreatestIn
<1>3. m <= Max(1..m)
  BY <1>1, <1>2
<1>4. Max(1..m) = m
  BY <1>1, <1>2, <1>3
<1>5. (1..m) \ {m} = 1..(m - 1)
  BY <1>1
<1> QED
  BY <1>1, <1>4, <1>5

\* What is found in each part of the log is a solution,
LEMMA FoundSolves ==
    ASSUME NEW recs \in Seq(Slot), NEW pa, NEW q \in Nat, NEW g,
           g = [s \in SUBSET DOMAIN recs |-> FoundIn(recs, pa, q, s)]
    PROVE  g = ScanFrom(recs, pa, q, g)
<1>1. DOMAIN recs = 1..Len(recs) /\ Len(recs) \in Nat
  OBVIOUS
<1>2. ASSUME NEW s \in SUBSET DOMAIN recs
      PROVE  g[s] = IF s = {} THEN {} ELSE ScanRecord(pa, q, g[s \ {Max(s)}], recs[Max(s)])
  <2>1. CASE s = {}
    BY <2>1 DEF FoundIn, LatestOf
  <2>2. CASE s # {}
    <3> DEFINE x == Max(s)
               t == s \ {x}
    <3>1. x \in s /\ \A i \in s : i <= x
      BY <1>1, <2>2, GreatestIn
    <3>2. t \in SUBSET DOMAIN recs /\ x \in DOMAIN recs /\ s = t \union {x}
      BY <3>1
    <3>3. \A i \in t : i < x
      BY <1>1, <3>1, <3>2
    <3>4. g[s] = FoundIn(recs, pa, q, s) /\ g[t] = FoundIn(recs, pa, q, t)
      BY <3>2
    <3> HIDE DEF x, t
    <3>6. FoundIn(recs, pa, q, s) = ScanRecord(pa, q, FoundIn(recs, pa, q, t), recs[x])
      BY <3>2, <3>3, LatestNext
    <3> QED
      BY <2>2, <3>4, <3>6 DEF x, t
  <2> QED
    BY <2>1, <2>2
<1> QED
  BY <1>2 DEF ScanFrom

\* and every solution is the same on the beginnings of the log.
LEMMA SolutionsAgree ==
    ASSUME NEW recs \in Seq(Slot), NEW pa, NEW q, NEW f, NEW g,
           f = ScanFrom(recs, pa, q, f), g = ScanFrom(recs, pa, q, g)
    PROVE  f[DOMAIN recs] = g[DOMAIN recs]
<1>1. DOMAIN recs = 1..Len(recs) /\ Len(recs) \in Nat
  OBVIOUS
<1>2. f[{}] = g[{}]
  BY DEF ScanFrom
<1>3. ASSUME NEW m \in 1..Len(recs), f[1..(m - 1)] = g[1..(m - 1)] PROVE f[1..m] = g[1..m]
  <2>1. /\ 1..m \in SUBSET DOMAIN recs /\ 1..m # {} /\ Max(1..m) = m
        /\ (1..m) \ {m} = 1..(m - 1)
    BY <1>1, LastOfBeginning
  <2>2. /\ f[1..m] = ScanRecord(pa, q, f[(1..m) \ {Max(1..m)}], recs[Max(1..m)])
        /\ g[1..m] = ScanRecord(pa, q, g[(1..m) \ {Max(1..m)}], recs[Max(1..m)])
    BY <2>1 DEF ScanFrom
  <2> QED
    BY <1>3, <2>1, <2>2
<1> QED
  BY <1>1, <1>2, <1>3, BeginningsAgree

\* The scan finds the first of the versions of the highest snapshot up to q.
LEMMA ScanFinds ==
    ASSUME NEW recs \in Seq(Slot), NEW pa, NEW q \in Nat
    PROVE  scan_latest(recs, pa, q) = FoundIn(recs, pa, q, DOMAIN recs)
<1> DEFINE g == [s \in SUBSET DOMAIN recs |-> FoundIn(recs, pa, q, s)]
           f == CHOOSE h : h = ScanFrom(recs, pa, q, h)
<1>1. g = ScanFrom(recs, pa, q, g)
  BY FoundSolves
<1>2. g[DOMAIN recs] = FoundIn(recs, pa, q, DOMAIN recs)
  OBVIOUS
<1> HIDE DEF g
<1>3. f = ScanFrom(recs, pa, q, f)
  BY <1>1
<1>4. scan_latest(recs, pa, q) = f[DOMAIN recs]
  BY ScanFolds
<1> HIDE DEF f
<1>5. f[DOMAIN recs] = g[DOMAIN recs]
  BY <1>1, <1>3, SolutionsAgree
<1> QED
  BY <1>2, <1>4, <1>5

\* The versions of a page are in the order of their snapshots.
LEMMA PageOrder ==
    ASSUME NEW j \in Nat, NEW k \in Nat, pa_of(j) = pa_of(k)
    PROVE  /\ j <= k <=> snapshot_of(j) <= snapshot_of(k)
           /\ j = k <=> snapshot_of(j) = snapshot_of(k)
  BY SMT DEF pa_of, snapshot_of, SNAPSHOT_LIMIT

\* The search in the index of a log finds what the scan of the log finds.
LEMMA FloorFinds ==
    ASSUME NEW recs \in Seq(Slot), NEW pa \in 0..(PaLimit - 1), NEW q \in 0..MAX_SNAPSHOT_ID
    PROVE  floor_sorted(build_lazy_index(recs), encode_key(pa, q), pa)
              = FoundIn(recs, pa, q, DOMAIN recs)
<1> DEFINE idx == build_lazy_index(recs)
           Greatest == {k \in DOMAIN idx : /\ Past(pa, q, k)
                                           /\ \A j \in DOMAIN idx : Past(pa, q, j) => j <= k}
           L == LatestOf(recs, pa, q, DOMAIN recs)
<1>0. /\ DOMAIN idx = {recs[i].key : i \in DOMAIN recs} /\ DOMAIN idx \subseteq Nat
      /\ DOMAIN recs = 1..Len(recs) /\ Len(recs) \in Nat
  <2>1. DOMAIN idx = {recs[i].key : i \in DOMAIN recs}
    BY IndexDomain
  <2>2. DOMAIN idx \subseteq Nat
    BY IndexNat
  <2>3. DOMAIN recs = 1..Len(recs) /\ Len(recs) \in Nat
    OBVIOUS
  <2> QED
    BY <2>1, <2>2, <2>3
<1>1. floor_sorted(idx, encode_key(pa, q), pa) = {idx[k] : k \in Greatest}
  BY <1>0, FloorMeaning
<1>2. ASSUME NEW i \in L PROVE recs[i].key \in Greatest /\ idx[recs[i].key] = recs[i]
  <2>1. /\ i \in DOMAIN recs /\ Past(pa, q, recs[i].key)
        /\ \A j \in DOMAIN recs : Past(pa, q, recs[j].key) =>
              \/ SnapAt(recs, j) < SnapAt(recs, i)
              \/ SnapAt(recs, j) = SnapAt(recs, i) /\ i <= j
    BY <1>2 DEF LatestOf
  <2>2. \A j \in 1..(i - 1) : recs[j].key # recs[i].key
    <3> SUFFICES ASSUME NEW j \in 1..(i - 1), recs[j].key = recs[i].key PROVE FALSE
      OBVIOUS
    <3>1. j \in DOMAIN recs /\ j < i
      BY <1>0, <2>1
    <3>2. SnapAt(recs, j) = SnapAt(recs, i) /\ Past(pa, q, recs[j].key)
      BY <2>1 DEF SnapAt
    <3>3. SnapAt(recs, i) \in Nat /\ i \in Nat /\ j \in Nat
      BY <2>1, <3>1, SnapsNat
    <3>4. i <= j
      BY <2>1, <3>1, <3>2, <3>3
    <3> QED
      BY <3>1, <3>3, <3>4
  <2>3. recs[i].key \in DOMAIN idx /\ idx[recs[i].key] = recs[i]
    BY <2>1, <2>2, IndexFirst
  <2>4. ASSUME NEW k \in DOMAIN idx, Past(pa, q, k) PROVE k <= recs[i].key
    <3>1. PICK j \in DOMAIN recs : recs[j].key = k
      BY <1>0
    <3>2. SnapAt(recs, j) <= SnapAt(recs, i) /\ SnapAt(recs, i) \in Nat
      BY <2>1, <2>4, <3>1, SnapsNat
    <3>3. pa_of(k) = pa_of(recs[i].key) /\ k \in Nat /\ recs[i].key \in Nat
      BY <1>0, <2>1, <2>4, SnapsNat DEF Past
    <3> QED
      BY <3>1, <3>2, <3>3, PageOrder DEF SnapAt
  <2> QED
    BY <2>1, <2>3, <2>4
<1>3. ASSUME NEW k \in Greatest PROVE \E i \in L : recs[i].key = k
  <2>1. PICK i \in 1..Len(recs) : /\ recs[i].key = k
                                  /\ \A j \in 1..(i - 1) : recs[j].key # k
    BY IndexHolds
  <2>2. i \in DOMAIN recs /\ Past(pa, q, recs[i].key) /\ k \in Nat
    BY <1>0, <2>1
  <2>3. ASSUME NEW j \in DOMAIN recs, Past(pa, q, recs[j].key)
        PROVE  \/ SnapAt(recs, j) < SnapAt(recs, i)
               \/ SnapAt(recs, j) = SnapAt(recs, i) /\ i <= j
    <3>1. recs[j].key \in DOMAIN idx
      BY <1>0
    <3>2. recs[j].key <= k /\ recs[j].key \in Nat
      BY <1>0, <2>3, <3>1
    <3>3. pa_of(recs[j].key) = pa_of(k)
      BY <2>1, <2>2, <2>3 DEF Past
    <3>4. SnapAt(recs, j) <= SnapAt(recs, i)
      BY <2>1, <2>2, <3>2, <3>3, PageOrder DEF SnapAt
    <3>5. SnapAt(recs, j) = SnapAt(recs, i) => recs[j].key = k
      BY <2>1, <2>2, <3>2, <3>3, PageOrder DEF SnapAt
    <3>6. recs[j].key = k => ~(j \in 1..(i - 1))
      BY <2>1
    <3>7. /\ SnapAt(recs, i) \in Nat /\ SnapAt(recs, j) \in Nat
          /\ (~(j \in 1..(i - 1)) => i <= j)
      BY <1>0, <2>2, SnapsNat
    <3> QED
      BY <3>4, <3>5, <3>6, <3>7
  <2>4. i \in L
    BY <2>2, <2>3 DEF LatestOf
  <2> QED
    BY <2>1, <2>4
<1> HIDE DEF idx, Greatest, L
<1>4. {idx[k] : k \in Greatest} = {recs[i] : i \in L}
  BY <1>2, <1>3
<1> QED
  BY <1>1, <1>4 DEF FoundIn, idx, L

\* What the scan answers, as a table.
LEMMA ScannedAre ==
    ASSUME NEW recs, NEW files
    PROVE  scanned(recs, files) = [pa \in Pas |-> [q \in Queries |->
                                      load_scanned(recs, build_lazy_index(recs), files, pa, q)]]
<1> DEFINE Table(idx) == [pa \in Pas |-> [q \in Queries |-> load_scanned(recs, idx, files, pa, q)]]
<1>1. {Table(idx) : idx \in {build_lazy_index(r) : r \in {recs}}}
        = {Table(build_lazy_index(recs))}
  OBVIOUS
<1> HIDE DEF Table
<1>2. scanned(recs, files) = CHOOSE table \in {Table(build_lazy_index(recs))} : TRUE
  BY <1>1 DEF scanned, Table
<1>3. scanned(recs, files) = Table(build_lazy_index(recs))
  BY <1>2
<1> QED
  BY <1>3 DEF Table

\* The scan of a log answers as load_page does from the index of the log.
LEMMA ScanAnswers ==
    ASSUME NEW recs \in Seq(Slot), NEW files
    PROVE  scanned(recs, files) = answers(recs, files)
<1>1. ASSUME NEW pa \in Pas, NEW q \in Queries
      PROVE  load_scanned(recs, build_lazy_index(recs), files, pa, q)
               = load_page(build_lazy_index(recs), files, pa, q)
  <2>1. pa \in 0..(PaLimit - 1) /\ q \in 0..MAX_SNAPSHOT_ID /\ q \in Nat
    <3>1. pa \in 0..(PaLimit - 1)
      BY Constants, ChunkAssumption DEF Pas
    <3>2. q \in 0..MAX_SNAPSHOT_ID
      BY QueriesAssumption
    <3> QED
      BY <3>1, <3>2, SnapshotRange
  <2>2. scan_latest(recs, pa, q)
          = floor_sorted(build_lazy_index(recs), encode_key(pa, q), pa)
    BY <2>1, ScanFinds, FloorFinds
  <2> QED
    BY <2>2 DEF load_scanned, load_page
<1> QED
  BY <1>1, ScannedAre, AnswersAre

-----------------------------------------------------------------------------
(* The division of a bulk load among threads.                              *)

\* A quotient is rounded down,
LEMMA Quotient ==
    ASSUME NEW a \in Nat, NEW b \in Nat \ {0}
    PROVE  /\ a \div b \in Nat
           /\ (a \div b) * b <= a
           /\ a < ((a \div b) + 1) * b
  BY SMT

\* and a product with a greater factor is no less.
LEMMA Products ==
    ASSUME NEW a \in Nat, NEW b \in Nat, NEW c \in Nat, a <= b
    PROVE  a * c <= b * c
  BY SMT

\* The shares of the threads are all of the pages, and nothing else.
LEMMA SharesCover ==
    ASSUME NEW total \in Nat \ {0}, NEW n \in Nat \ {0}
    PROVE  UNION {share(total, n, i) : i \in 0..(n - 1)} = 0..(total - 1)
<1> DEFINE c == pages_per_worker(total, n)
<1>1. c \in Nat /\ total + n - 1 < (c + 1) * n
  <2>1. total + n - 1 \in Nat
    OBVIOUS
  <2> QED
    BY <2>1, Quotient DEF pages_per_worker
<1>2. total <= n * c
  <2>1. (c + 1) * n = n * c + n
    BY <1>1
  <2>2. n * c \in Nat
    BY <1>1
  <2> QED
    BY <1>1, <2>1, <2>2
<1>3. c # 0
  BY <1>2
<1> HIDE DEF c
<1>4. ASSUME NEW j \in 0..(total - 1) PROVE \E i \in 0..(n - 1) : j \in share(total, n, i)
  <2> DEFINE i == j \div c
  <2>1. i \in Nat /\ i * c <= j /\ j < (i + 1) * c
    BY <1>1, <1>3, Quotient
  <2> HIDE DEF i
  <2>2. i < n
    <3> SUFFICES ASSUME n <= i PROVE FALSE
      BY <2>1
    <3>1. n * c <= i * c
      BY <1>1, <2>1, Products
    <3>2. n * c \in Nat /\ i * c \in Nat
      BY <1>1, <2>1
    <3> QED
      BY <1>2, <2>1, <3>1, <3>2
  <2>3. j \in share(total, n, i)
    BY <2>1 DEF share, c
  <2> QED
    BY <2>1, <2>2, <2>3
<1>5. \A i \in 0..(n - 1) : share(total, n, i) \subseteq 0..(total - 1)
  BY DEF share
<1> QED
  BY <1>4, <1>5

\* A bulk load fills in all pages of its range and fails with any of them.
LEMMA BulkAgrees ==
    ASSUME NEW answer, NEW pa \in Nat, NEW total \in Nat \ {0}, NEW n \in Nat \ {0},
           NEW loads, loads = [j \in 0..(total - 1) |-> answer[pa + j]]
    PROVE  Agrees(load_all_pages(answer, pa, total, n), loads)
<1> DEFINE filled == UNION {share(total, n, i) : i \in 0..(n - 1)}
           of(j)  == answer[pa + j]
           bulk == load_all_pages(answer, pa, total, n)
           out == [j \in 0..(total - 1) |-> IF j \in filled THEN of(j)[2] ELSE ZeroPage]
<1>1. filled = 0..(total - 1)
  BY SharesCover
<1>2. bulk = IF \E j \in filled : of(j) = Error THEN [status |-> "error"]
             ELSE [status |-> IF \E j \in filled : of(j) = Missing THEN "missing" ELSE "ok",
                   out |-> out]
  BY DEF load_all_pages
<1>3. DOMAIN loads = filled /\ \A j \in filled : loads[j] = of(j)
  BY <1>1
<1>4. out = [j \in DOMAIN loads |-> loads[j][2]]
  BY <1>1, <1>3
<1> HIDE DEF filled, of, out, bulk
<1>5. CASE \E j \in filled : of(j) = Error
  <2>1. bulk = [status |-> "error"]
    BY <1>2, <1>5
  <2>2. bulk.status = "error"
    BY <2>1
  <2> QED
    BY <1>3, <1>5, <2>2 DEF Agrees, bulk
<1>6. CASE ~(\E j \in filled : of(j) = Error)
  <2>1. /\ bulk.status = IF \E j \in filled : of(j) = Missing THEN "missing" ELSE "ok"
        /\ bulk.out = out
    BY <1>2, <1>6
  <2>2. bulk.status # "error"
    BY <2>1
  <2>3. bulk.status = "ok" <=> \A j \in filled : of(j) # Missing
    BY <2>1
  <2>4. bulk.status = "ok" <=> \A j \in DOMAIN loads : loads[j] \notin {Error, Missing}
    <3>1. \A j \in DOMAIN loads : loads[j] = of(j) /\ of(j) # Error
      BY <1>3, <1>6
    <3>2. (\A j \in DOMAIN loads : loads[j] \notin {Error, Missing})
            <=> \A j \in filled : of(j) # Missing
      BY <1>3, <3>1
    <3> QED
      BY <2>3, <3>2
  <2>5. ~(\E j \in DOMAIN loads : loads[j] = Error)
    BY <1>3, <1>6
  <2> QED
    BY <1>4, <2>1, <2>2, <2>4, <2>5 DEF Agrees, bulk
<1> QED
  BY <1>5, <1>6

\* All read paths answer the same, on every log that the writer can leave on
\* disk: a bulk load by a scan of the log, the bulk loads by an index made from
\* it, and load_page, whatever threads share the pages.
THEOREM ReadPathsAlwaysAgree == Spec => []ReadPathsAgree
<1>1. TypeOK => ReadPathsAgree
  <2> SUFFICES ASSUME TypeOK PROVE ReadPathsAgree
    OBVIOUS
  <2> DEFINE table == answers(disk_log, disk_blobs)
  <2>1. disk_log \in Seq(Slot)
    BY DiskTypes DEF DiskFiles
  <2>2. scanned(disk_log, disk_blobs) = table
    BY <2>1, ScanAnswers
  <2> HIDE DEF table
  <2>3. ASSUME NEW pa \in Pas, NEW q \in Queries, NEW n \in 1..(MaxPages + 1),
               NEW total \in 1..(MaxPages - pa)
        PROVE  Agrees(load_all_pages([p \in Pas |-> table[p][q]], pa, total, n),
                      [j \in 0..(total - 1) |-> table[pa + j][q]])
    <3> DEFINE answer == [p \in Pas |-> table[p][q]]
               loads == [j \in 0..(total - 1) |-> table[pa + j][q]]
    <3>1. pa \in Nat /\ total \in Nat \ {0} /\ n \in Nat \ {0}
      BY Constants
    <3>2. \A j \in 0..(total - 1) : pa + j \in Pas
      BY <3>1, Constants DEF Pas
    <3>3. loads = [j \in 0..(total - 1) |-> answer[pa + j]]
      BY <3>2
    <3> HIDE DEF answer, loads
    <3>4. Agrees(load_all_pages(answer, pa, total, n), loads)
      BY <3>1, <3>3, BulkAgrees
    <3> QED
      BY <3>4 DEF answer, loads
  <2> QED
    BY <2>2, <2>3 DEF ReadPathsAgree, table
<1> QED
  BY <1>1, TypeCorrect, PTL
=============================================================================
