------------------------ MODULE AppendOnlyDb_proofs ------------------------
(***************************************************************************)
(* Theorems about the writer, for all values of the constants.             *)
(***************************************************************************)
EXTENDS AppendOnlyDb, FiniteSetTheorems, SequenceTheorems, TLAPS

-----------------------------------------------------------------------------
(* Keys, words and patches.                                                *)

\* Division and remainder by 2^19.
LEMMA SplitKey ==
    ASSUME NEW p \in Nat, NEW s \in Nat, s < SNAPSHOT_LIMIT
    PROVE  /\ (p * SNAPSHOT_LIMIT + s) \div SNAPSHOT_LIMIT = p
           /\ (p * SNAPSHOT_LIMIT + s) % SNAPSHOT_LIMIT = s
           /\ p * SNAPSHOT_LIMIT + s \in Nat
           /\ s % SNAPSHOT_LIMIT = s
  BY SMT DEF SNAPSHOT_LIMIT

\* The two halves of a composite key can be read back.
THEOREM KeyRoundTrip ==
    ASSUME NEW pa \in 0..(PaLimit - 1), NEW s \in Nat, s <= MAX_SNAPSHOT_ID
    PROVE  /\ encode_key(pa, s) \in Nat
           /\ pa_of(encode_key(pa, s)) = pa
           /\ snapshot_of(encode_key(pa, s)) = s
<1>1. s < SNAPSHOT_LIMIT
  BY SMT DEF MAX_SNAPSHOT_ID, SNAPSHOT_LIMIT
<1>2. pa \in Nat /\ pa % PaLimit = pa
  BY ChunkAssumption
<1>3. encode_key(pa, s) = pa * SNAPSHOT_LIMIT + s
  BY <1>1, <1>2, SplitKey DEF encode_key
<1> QED
  BY <1>1, <1>2, <1>3, SplitKey DEF pa_of, snapshot_of

\* The patch from a base to a page, applied to the base, gives the page: what
\* a reader computes from a Delta is what the writer was given.
THEOREM PatchRoundTrip ==
    ASSUME NEW page \in Page, NEW base \in Page
    PROVE  /\ compute_xor_patch(page, base) \in Patch
           /\ apply_delta_patch(base, compute_xor_patch(page, base)) = page
<1> DEFINE changed == {j \in Words : Xor(page[j], base[j]) # {}}
           patch   == compute_xor_patch(page, base)
<1>1. \A i \in Words : page[i] \in Word /\ base[i] \in Word
  BY DEF Page
<1>2. patch = [i \in changed |-> Xor(page[i], base[i])]
  BY DEF compute_xor_patch
<1>3. \A i \in changed : Xor(page[i], base[i]) \in Word
  BY <1>1 DEF Xor, Word
<1>4. patch \in [changed -> Word]
  BY <1>2, <1>3
<1>5. patch \in Patch
  <2>1. changed \in SUBSET Words
    OBVIOUS
  <2> QED
    BY <1>4, <2>1 DEF Patch
<1>6. \A i \in Words : i \in changed => Xor(base[i], patch[i]) = page[i]
  BY <1>2 DEF Xor
<1>7. \A i \in Words : i \notin changed => base[i] = page[i]
  BY DEF Xor
<1>8. apply_delta_patch(base, patch) = [i \in Words |-> page[i]]
  BY <1>4, <1>6, <1>7 DEF apply_delta_patch
<1> QED
  BY <1>5, <1>8 DEF Page

-----------------------------------------------------------------------------
(* The types of values.                                                    *)

LEMMA Constants ==
    /\ MaxPages \in Nat /\ MaxPages > 0 /\ MaxPages <= PaLimit
    /\ PaLimit \in Nat
    /\ MaxWorkers \in Nat /\ MaxWorkers > 0
    /\ Pas \subseteq Nat
    /\ Workers \subseteq Nat
    /\ Groups \subseteq Nat
    /\ 0 \in Workers
    /\ \A n \in WorkerCounts : n \in 1..MaxWorkers
  BY AppendOnlyDbAssumption, ChunkAssumption DEF Pas, Workers, Groups, group_of

LEMMA Values ==
    /\ ZeroPage \in Page
    /\ Uninit \in Slot
    /\ NoShadow \in [key : Nat \union {None}, page : Page]
    /\ Page \subseteq Patch
    /\ \A c \in Contents : c \in Page
<1>1. ZeroPage \in Page
  BY DEF ZeroPage, Page, Word
<1>2. Page \subseteq Patch
  <2> SUFFICES ASSUME NEW p \in Page PROVE p \in Patch
    OBVIOUS
  <2>1. Words \in SUBSET Words /\ p \in [Words -> Word]
    BY DEF Page
  <2> QED
    BY <2>1 DEF Patch
<1>3. Uninit \in Slot
  BY DEF Uninit, Slot
<1>4. NoShadow \in [key : Nat \union {None}, page : Page]
  BY <1>1 DEF NoShadow
<1> QED
  BY <1>1, <1>2, <1>3, <1>4, AppendOnlyDbAssumption

LEMMA Records ==
    ASSUME NEW key \in Nat, NEW w \in Nat, NEW o \in Nat, NEW len \in 0..1, NEW base \in Nat
    PROVE  /\ new_zero(key) \in Slot
           /\ new_full(key, w, o, len) \in Slot
           /\ new_delta(key, w, o, len, base) \in Slot
  BY DEF new_zero, new_full, new_delta, Slot, ChunkKind

LEMMA BlobLen ==
    ASSUME NEW blob
    PROVE  blob_len(blob) \in 0..1
  BY DEF blob_len

\* The worker of a page has a file.
LEMMA WorkerOf ==
    ASSUME NEW pa \in Pas, blob_count \in 1..MaxWorkers
    PROVE  wid(pa) \in Workers /\ wid(pa) \in Nat /\ wid(pa) < blob_count
<1>1. pa \in Nat /\ blob_count \in Nat /\ blob_count > 0 /\ blob_count <= MaxWorkers
  BY Constants
<1>2. pa % blob_count \in Nat /\ pa % blob_count < blob_count
  BY <1>1, SMT
<1> QED
  BY <1>1, <1>2, Constants DEF wid, Workers

-----------------------------------------------------------------------------
(* Type correctness.                                                       *)

LEMMA TypeInit == Init => TypeOK
<1> SUFFICES ASSUME Init PROVE TypeOK
  OBVIOUS
<1>1. /\ <<>> \in Seq(Slot) /\ Len(<<>>) = 0
      /\ <<>> \in Seq(Blob)
  OBVIOUS
<1>2. memory = <<>> /\ DOMAIN memory = {}
  BY DEF Init, NoCall
<1>3. EmptyShadow \in [Pas -> [key : Nat \union {None}, page : Page]]
  BY Values DEF EmptyShadow
<1> USE Constants, Values DEF Init, NoCall, None
<1>4. snapshot_id \in Nat /\ snapshot_id <= MAX_SNAPSHOT_ID
  BY SMT DEF MAX_SNAPSHOT_ID, SNAPSHOT_LIMIT
<1>5. blob_count \in 1..MaxWorkers
  OBVIOUS
<1> QED
  BY <1>1, <1>2, <1>3, <1>4, <1>5 DEF TypeOK

\* A finished call leaves well-typed variables behind.
LEMMA TypeEndCall ==
    ASSUME EndCall
    PROVE  /\ snapshot_id' \in Nat /\ snapshot_id' <= MAX_SNAPSHOT_ID
           /\ DOMAIN memory' \subseteq Pas
           /\ memory' \in [DOMAIN memory' -> Page]
           /\ todo' \in [Groups -> SUBSET DOMAIN memory']
           /\ write_idx' \in [Groups -> Nat]
           /\ cur' \in [Groups -> Pas \union {None}]
           /\ \A g \in Groups : cur'[g] = None
           /\ at' \in [Groups -> Nat]
           /\ records_buf' \in [Pas -> Slot]
           /\ next' \in Nat
           /\ failed' \in BOOLEAN
<1>1. snapshot_id' \in Nat /\ snapshot_id' <= MAX_SNAPSHOT_ID
  BY SMT DEF EndCall, MAX_SNAPSHOT_ID, SNAPSHOT_LIMIT
<1>2. memory' = <<>> /\ DOMAIN memory' = {}
  BY DEF EndCall
<1>3. memory' \in [DOMAIN memory' -> Page]
  BY <1>2
<1>4. todo' \in [Groups -> SUBSET DOMAIN memory']
  BY <1>2 DEF EndCall
<1>5. records_buf' \in [Pas -> Slot]
  BY Values DEF EndCall
<1> QED
  BY <1>1, <1>2, <1>3, <1>4, <1>5 DEF EndCall

\* What a save accepts is a snapshot id.
LEMMA Accepted ==
    ASSUME NEW s \in Snapshots, accepts(s)
    PROVE  s \in Nat /\ s <= MAX_SNAPSHOT_ID
  BY AppendOnlyDbAssumption DEF accepts

LEMMA TypeBeginSave ==
    ASSUME TypeOK, NEW s \in Snapshots, NEW mem, NEW first \in [Groups -> Nat],
           DOMAIN mem \subseteq Pas, mem \in [DOMAIN mem -> Page],
           BeginSave(s, mem, first)
    PROVE  TypeOK'
<1>1. s \in Nat /\ s <= MAX_SNAPSHOT_ID
  BY Accepted DEF BeginSave
<1>2. todo' \in [Groups -> SUBSET DOMAIN memory']
  BY DEF BeginSave, pages_of
<1>3. \A g \in Groups : cur'[g] = None
  BY DEF BeginSave, TypeOK
<1> QED
  BY <1>1, <1>2, <1>3
  DEF TypeOK, BeginSave, diskVars, configVars, countVars

\* Appending a blob keeps the types of the files.
LEMMA TypeAppendBlob ==
    ASSUME TypeOK, NEW g \in Groups, NEW w \in Workers, NEW blob \in Blob,
           NEW spill, append_blob(g, w, blob, spill)
    PROVE  /\ blobs' \in [Workers -> Seq(Blob)]
           /\ blobOnDisk' \in [Workers -> Nat]
           /\ \A v \in Workers : blobOnDisk'[v] <= Len(blobs'[v])
           /\ offset' \in [Workers -> Nat]
           /\ cur' \in [Groups -> Pas \union {None}]
           /\ \A h \in Groups : cur'[h] # None => h # g /\ cur'[h] = cur[h]
           /\ at' \in [Groups -> Nat]
<1>1. blobs[w] \in Seq(Blob) /\ Len(blobs[w]) \in Nat /\ blobOnDisk[w] <= Len(blobs[w])
  BY DEF TypeOK
<1>2. /\ Append(blobs[w], blob) \in Seq(Blob)
      /\ Len(Append(blobs[w], blob)) = Len(blobs[w]) + 1
  BY <1>1
<1>3. blobs' \in [Workers -> Seq(Blob)]
  BY <1>1, <1>2 DEF append_blob, TypeOK
<1>4. blobOnDisk' \in [Workers -> Nat]
  BY <1>1 DEF append_blob, TypeOK
<1>5. ASSUME NEW v \in Workers PROVE blobOnDisk'[v] <= Len(blobs'[v])
  <2>1. CASE v = w
    BY <1>1, <1>2, <2>1 DEF append_blob, TypeOK
  <2>2. CASE v # w
    BY <2>2 DEF append_blob, TypeOK
  <2> QED
    BY <2>1, <2>2
<1>6. offset' \in [Workers -> Nat]
  <2>1. blob_len(blob) \in Nat
    BY BlobLen
  <2>2. offset[w] + blob_len(blob) \in Nat
    BY <2>1 DEF TypeOK
  <2> QED
    BY <2>2 DEF append_blob, TypeOK
<1>7. /\ cur' \in [Groups -> Pas \union {None}]
      /\ \A h \in Groups : cur'[h] # None => h # g /\ cur'[h] = cur[h]
      /\ at' \in [Groups -> Nat]
  BY DEF append_blob, TypeOK
<1> QED
  BY <1>3, <1>4, <1>5, <1>6, <1>7

\* Emitting a record keeps the types of the buffers of the pass.
LEMMA TypeEmitRecord ==
    ASSUME TypeOK, NEW g \in Groups, NEW pa, NEW rec \in Slot, EmitRecord(g, pa, rec)
    PROVE  /\ records_buf' \in [Pas -> Slot]
           /\ write_idx' \in [Groups -> Nat]
           /\ todo' \in [Groups -> SUBSET DOMAIN memory]
           /\ \A h \in Groups : h # g => todo'[h] = todo[h]
<1>1. records_buf' \in [Pas -> Slot]
  BY DEF EmitRecord, TypeOK
<1>2. write_idx' \in [Groups -> Nat]
  BY DEF EmitRecord, TypeOK
<1>3. todo[g] \ {pa} \in SUBSET DOMAIN memory
  BY DEF TypeOK
<1>4. /\ todo' \in [Groups -> SUBSET DOMAIN memory]
      /\ \A h \in Groups : h # g => todo'[h] = todo[h]
  BY <1>3 DEF EmitRecord, TypeOK
<1> QED
  BY <1>1, <1>2, <1>4

\* The page that a group is appending, and what it knows of it.
LEMMA CurrentPage ==
    ASSUME TypeOK, NEW g \in Groups, cur[g] # None
    PROVE  /\ cur[g] \in Pas
           /\ cur[g] \in todo[g]
           /\ cur[g] \in DOMAIN memory
           /\ memory[cur[g]] \in Page
           /\ shadow[cur[g]].page \in Page
           /\ patch_of(cur[g]) \in Patch
           /\ wid(cur[g]) \in Workers /\ wid(cur[g]) \in Nat
           /\ at[g] \in Nat
           /\ encode_key(cur[g], snapshot_id) \in Nat
<1>1. cur[g] \in Pas /\ cur[g] \in todo[g] /\ cur[g] \in DOMAIN memory
  BY DEF TypeOK
<1>2. memory[cur[g]] \in Page /\ shadow[cur[g]].page \in Page /\ at[g] \in Nat
  BY <1>1 DEF TypeOK
<1>3. patch_of(cur[g]) \in Patch
  BY <1>2, PatchRoundTrip DEF patch_of
<1>4. wid(cur[g]) \in Workers /\ wid(cur[g]) \in Nat
  BY <1>1, WorkerOf DEF TypeOK
<1>5. cur[g] \in 0..(PaLimit - 1)
  BY <1>1, Constants DEF Pas
<1>6. encode_key(cur[g], snapshot_id) \in Nat
  BY <1>5, KeyRoundTrip DEF TypeOK
<1> QED
  BY <1>1, <1>2, <1>3, <1>4, <1>6

\* The next record to write is in a slot of records_buf.
LEMMA NextSlot ==
    ASSUME TypeOK, next < total_dirty
    PROVE  next \in Pas
<1>1. IsFiniteSet(Pas) /\ Cardinality(Pas) = MaxPages
  BY FS_Interval, Constants DEF Pas
<1>2. Cardinality(DOMAIN memory) <= MaxPages /\ Cardinality(DOMAIN memory) \in Nat
  BY <1>1, FS_Subset, FS_CardinalityType DEF TypeOK
<1>3. next \in Nat /\ next < Cardinality(DOMAIN memory)
  BY DEF total_dirty, TypeOK
<1>4. next <= MaxPages - 1
  BY <1>2, <1>3, Constants
<1> QED
  BY <1>3, <1>4, Constants DEF Pas

\* When the buffer of a worker file cannot be emptied, the file may have got longer,
\* and is still a beginning of what the handle has written.
LEMMA AppendFailDisk ==
    ASSUME TypeOK, NEW g \in Groups, AppendFail(g)
    PROVE  /\ blobOnDisk' \in [Workers -> Nat]
           /\ \A w \in Workers : blobOnDisk[w] <= blobOnDisk'[w] /\ blobOnDisk'[w] <= Len(blobs[w])
           /\ \A w \in Workers : w # wid(cur[g]) => blobOnDisk'[w] = blobOnDisk[w]
<1>1. cur[g] # None
  BY DEF AppendFail
<1>2. wid(cur[g]) \in Workers
  BY <1>1, CurrentPage
<1> DEFINE v == wid(cur[g])
<1> HIDE DEF v
<1>3. PICK n \in blobOnDisk[v]..(Len(blobs[v]) - 1) : blobOnDisk' = [blobOnDisk EXCEPT ![v] = n]
  BY DEF AppendFail, v
<1>4. v \in Workers /\ blobOnDisk \in [Workers -> Nat]
  BY <1>2 DEF v, TypeOK
<1>5. \A w \in Workers : Len(blobs[w]) \in Nat /\ blobOnDisk[w] <= Len(blobs[w])
  BY LenProperties DEF TypeOK
<1>6. n \in Nat /\ blobOnDisk[v] <= n /\ n <= Len(blobs[v])
  BY <1>3, <1>4, <1>5
<1>7. \A w \in Workers : blobOnDisk'[w] = IF w = v THEN n ELSE blobOnDisk[w]
  BY <1>3, <1>4
<1>8. blobOnDisk' \in [Workers -> Nat]
  BY <1>3, <1>4, <1>6
<1> QED
  BY <1>4, <1>5, <1>6, <1>7, <1>8 DEF v

LEMMA TornTyped ==
    ASSUME TypeOK, Crash
    PROVE  torn' \in Nat \union {None} /\ (torn' # None => crashes' # 0)
<1>1. torn' \in torn_after /\ crashes' = crashes + 1
  BY DEF Crash
<1>2. torn_after \subseteq {torn, logOnDisk, logOnDisk + 1}
  BY DEF torn_after
<1>3. torn \in Nat \union {None} /\ logOnDisk \in Nat /\ crashes \in Nat
  BY LenProperties DEF TypeOK
<1> QED
  BY <1>1, <1>2, <1>3 DEF None

LEMMA TypeStep == TypeOK /\ [Next]_vars => TypeOK'
<1> SUFFICES ASSUME TypeOK, [Next]_vars PROVE TypeOK'
  OBVIOUS
<1> USE DEF diskVars, configVars, handleVars, groupVars, callVars, resultVars, countVars
<1>1. ASSUME NEW n \in WorkerCounts, NEW t \in DeltaThresholds, NEW sh \in ShadowModes,
             Open(n, t, sh)
      PROVE  TypeOK'
  <2>1. delta_threshold' \in Nat /\ use_shadow' \in BOOLEAN /\ blob_count' \in 1..MaxWorkers
    BY <1>1, Constants, AppendOnlyDbAssumption DEF Open, DEFAULT_DELTA_THRESHOLD
  <2>2. offset' \in [Workers -> Nat]
    BY <1>1, LenProperties DEF Open, opened_offset, TypeOK
  <2>3. shadow' \in [Pas -> [key : Nat \union {None}, page : Page]]
    BY <1>1, Values DEF Open, EmptyShadow
  <2> QED
    BY <1>1, <2>1, <2>2, <2>3 DEF Open, TypeOK, opened_last_snapshot, None
<1>2. ASSUME NEW s \in Snapshots, SaveBadLength(s) \/ SaveNothing(s) PROVE TypeOK'
  BY <1>2, Accepted DEF SaveBadLength, SaveNothing, TypeOK
<1>3. ASSUME NEW s \in Snapshots, NEW total \in PageCounts,
             NEW mem \in [0..(total - 1) -> Contents], BeginSaveAll(s, total, mem)
      PROVE  TypeOK'
  <2>1. DOMAIN mem \subseteq Pas
    BY AppendOnlyDbAssumption DEF Pas
  <2>2. mem \in [DOMAIN mem -> Page]
    BY Values
  <2>3. [g \in Groups |-> g * PagesPerGroup] \in [Groups -> Nat]
    <3>1. \A p, q \in Nat : p * q \in Nat
      BY SMT
    <3> QED
      BY <3>1, Constants, AppendOnlyDbAssumption
  <2> QED
    BY <1>3, <2>1, <2>2, <2>3, TypeBeginSave DEF BeginSaveAll
<1>4. ASSUME NEW s \in Snapshots, NEW total \in PageCounts, NEW bitmap \in SUBSET Pas,
             NEW mem \in [mask_last_word(bitmap, total) -> Contents],
             BeginSaveBitmap(s, total, bitmap, mem)
      PROVE  TypeOK'
  <2>1. DOMAIN mem \subseteq Pas
    BY DEF mask_last_word
  <2>2. mem \in [DOMAIN mem -> Page]
    BY Values
  <2>3. offsets(DOMAIN mem) \in [Groups -> Nat]
    <3>1. IsFiniteSet(Pas)
      BY FS_Interval, Constants DEF Pas
    <3>2. \A g \in Groups : IsFiniteSet({pa \in DOMAIN mem : group_of(pa) < g})
      BY <2>1, <3>1, FS_Subset
    <3>3. \A g \in Groups : Cardinality({pa \in DOMAIN mem : group_of(pa) < g}) \in Nat
      BY <3>2, FS_CardinalityType
    <3> QED
      BY <3>3 DEF offsets
  <2> QED
    BY <1>4, <2>1, <2>2, <2>3, TypeBeginSave DEF BeginSaveBitmap
<1>5. ASSUME BeginFlush PROVE TypeOK'
  BY <1>5, LenProperties DEF BeginFlush, TypeOK
<1>6. ASSUME NEW g \in Groups, NEW pa \in Pas, EmitZero(g, pa) PROVE TypeOK'
  <2>1. pa \in 0..(PaLimit - 1)
    BY Constants DEF Pas
  <2>2. encode_key(pa, snapshot_id) \in Nat
    BY <2>1, KeyRoundTrip DEF TypeOK
  <2>3. new_zero(encode_key(pa, snapshot_id)) \in Slot
    BY <2>2 DEF new_zero, Slot, ChunkKind
  <2>4. /\ records_buf' \in [Pas -> Slot]
        /\ write_idx' \in [Groups -> Nat]
        /\ todo' \in [Groups -> SUBSET DOMAIN memory]
        /\ \A h \in Groups : h # g => todo'[h] = todo[h]
    BY <1>6, <2>3, TypeEmitRecord DEF EmitZero
  <2>5. \A h \in Groups : cur'[h] # None => pc' = "pass" /\ cur'[h] \in todo'[h]
    BY <1>6, <2>4 DEF EmitZero, Turns, TypeOK
  <2> QED
    BY <1>6, <2>4, <2>5, SMTT(60) DEF EmitZero, TypeOK
<1>7. ASSUME NEW g \in Groups, NEW pa \in Pas, LockBlob(g, pa) PROVE TypeOK'
  <2>1. wid(pa) \in Workers
    BY WorkerOf DEF TypeOK
  <2>2. at' \in [Groups -> Nat]
    BY <1>7, <2>1 DEF LockBlob, TypeOK
  <2>3. cur' \in [Groups -> Pas \union {None}]
    BY <1>7 DEF LockBlob, TypeOK
  <2>4. \A h \in Groups : cur'[h] # None => pc' = "pass" /\ cur'[h] \in todo'[h]
    BY <1>7 DEF LockBlob, Turns, TypeOK
  <2> QED
    BY <1>7, <2>2, <2>3, <2>4, SMTT(60) DEF LockBlob, TypeOK
<1>8. ASSUME NEW g \in Groups, NEW spill \in SpillChoices, EmitDelta(g, spill) PROVE TypeOK'
  <2> DEFINE pa   == cur[g]
             w    == wid(pa)
             blob == [kind |-> "Delta", data |-> patch_of(pa)]
             rec  == new_delta(encode_key(pa, snapshot_id), w, at[g],
                               blob_len(blob), shadow[pa].key)
  <2>1. pa # None /\ append_blob(g, w, blob, spill) /\ EmitRecord(g, pa, rec)
    BY <1>8 DEF EmitDelta
  <2>2. /\ pa \in Pas /\ patch_of(pa) \in Patch /\ w \in Workers /\ w \in Nat
        /\ at[g] \in Nat /\ encode_key(pa, snapshot_id) \in Nat
    BY <2>1, CurrentPage
  <2>3. blob \in Blob /\ blob_len(blob) \in 0..1
    BY <2>2, BlobLen DEF Blob
  <2>4. shadow[pa].key \in Nat
    BY <1>8, <2>2 DEF EmitDelta, DeltaFits, TypeOK
  <2>5. rec \in Slot
    BY <2>2, <2>3, <2>4, Records
  <2> HIDE DEF pa, w, blob, rec
  <2>6. /\ blobs' \in [Workers -> Seq(Blob)]
        /\ blobOnDisk' \in [Workers -> Nat]
        /\ \A v \in Workers : blobOnDisk'[v] <= Len(blobs'[v])
        /\ offset' \in [Workers -> Nat]
        /\ cur' \in [Groups -> Pas \union {None}]
        /\ \A h \in Groups : cur'[h] # None => h # g /\ cur'[h] = cur[h]
        /\ at' \in [Groups -> Nat]
    BY <2>1, <2>2, <2>3, TypeAppendBlob
  <2>7. /\ records_buf' \in [Pas -> Slot]
        /\ write_idx' \in [Groups -> Nat]
        /\ todo' \in [Groups -> SUBSET DOMAIN memory]
        /\ \A h \in Groups : h # g => todo'[h] = todo[h]
    BY <2>1, <2>5, TypeEmitRecord
  <2>8. \A h \in Groups : cur'[h] # None => pc' = "pass" /\ cur'[h] \in todo'[h]
    BY <1>8, <2>6, <2>7 DEF EmitDelta, TypeOK
  <2> QED
    BY <1>8, <2>6, <2>7, <2>8 DEF EmitDelta, TypeOK
<1>9. ASSUME NEW g \in Groups, NEW spill \in SpillChoices, EmitFull(g, spill) PROVE TypeOK'
  <2> DEFINE pa   == cur[g]
             w    == wid(pa)
             key  == encode_key(pa, snapshot_id)
             blob == [kind |-> "Full", data |-> memory[pa]]
             rec  == new_full(key, w, at[g], blob_len(blob))
  <2>1. /\ pa # None /\ append_blob(g, w, blob, spill) /\ EmitRecord(g, pa, rec)
        /\ insert_if_newer(pa, key, memory[pa])
    BY <1>9 DEF EmitFull
  <2>2. /\ pa \in Pas /\ memory[pa] \in Page /\ w \in Workers /\ w \in Nat
        /\ at[g] \in Nat /\ key \in Nat
    BY <2>1, CurrentPage
  <2>3. blob \in Blob /\ blob_len(blob) \in 0..1
    BY <2>2, BlobLen, Values DEF Blob
  <2>4. shadow' \in [Pas -> [key : Nat \union {None}, page : Page]]
    BY <2>1, <2>2 DEF insert_if_newer, TypeOK
  <2>5. rec \in Slot
    BY <2>2, <2>3, Records
  <2> HIDE DEF pa, w, blob, rec, key
  <2>6. /\ blobs' \in [Workers -> Seq(Blob)]
        /\ blobOnDisk' \in [Workers -> Nat]
        /\ \A v \in Workers : blobOnDisk'[v] <= Len(blobs'[v])
        /\ offset' \in [Workers -> Nat]
        /\ cur' \in [Groups -> Pas \union {None}]
        /\ \A h \in Groups : cur'[h] # None => h # g /\ cur'[h] = cur[h]
        /\ at' \in [Groups -> Nat]
    BY <2>1, <2>2, <2>3, TypeAppendBlob
  <2>7. /\ records_buf' \in [Pas -> Slot]
        /\ write_idx' \in [Groups -> Nat]
        /\ todo' \in [Groups -> SUBSET DOMAIN memory]
        /\ \A h \in Groups : h # g => todo'[h] = todo[h]
    BY <2>1, <2>5, TypeEmitRecord
  <2>8. \A h \in Groups : cur'[h] # None => pc' = "pass" /\ cur'[h] \in todo'[h]
    BY <1>9, <2>6, <2>7 DEF EmitFull, TypeOK
  <2> QED
    BY <1>9, <2>4, <2>6, <2>7, <2>8 DEF EmitFull, TypeOK
<1>10. ASSUME PassDone PROVE TypeOK'
  <2>1. \A g \in Groups : cur'[g] = None
    BY <1>10 DEF PassDone, TypeOK
  <2> QED
    BY <1>10, <2>1 DEF PassDone, TypeOK
<1>11. ASSUME PassFail PROVE TypeOK'
  BY <1>11, TypeEndCall DEF PassFail, Return, TypeOK
<1>12. ASSUME NEW spill \in SpillChoices, WriteRecord(spill) PROVE TypeOK'
  <2>1. next \in Pas
    BY <1>12, NextSlot DEF WriteRecord
  <2>2. records_buf[next] \in Slot
    BY <2>1 DEF TypeOK
  <2>3. /\ Append(log, records_buf[next]) \in Seq(Slot)
        /\ Len(Append(log, records_buf[next])) = Len(log) + 1
        /\ Len(log) \in Nat
    BY <2>2 DEF TypeOK
  <2>4. \A g \in Groups : cur'[g] = None
    BY <1>12 DEF WriteRecord, TypeOK
  <2> QED
    BY <1>12, <2>3, <2>4, SMTT(60) DEF WriteRecord, TypeOK
<1>13. ASSUME SeekHeader PROVE TypeOK'
  BY <1>13, LenProperties DEF SeekHeader, TypeOK
<1>14. ASSUME UpdateHeader PROVE TypeOK'
  BY <1>14, TypeEndCall DEF UpdateHeader, Return, TypeOK
<1>15. ASSUME FlushBlob PROVE TypeOK'
  <2>1. next \in Workers
    BY <1>15, Constants DEF FlushBlob, TypeOK, Workers
  <2>2. Len(blobs[next]) \in Nat
    BY <2>1 DEF TypeOK
  <2>3. /\ blobOnDisk' \in [Workers -> Nat]
        /\ \A w \in Workers : blobOnDisk'[w] <= Len(blobs'[w])
    BY <1>15, <2>1, <2>2 DEF FlushBlob, TypeOK
  <2> QED
    BY <1>15, <2>3, SMTT(60) DEF FlushBlob, TypeOK
<1>16. ASSUME EndFlush PROVE TypeOK'
  BY <1>16 DEF EndFlush, Flushed, TypeOK
<1>17. ASSUME Dropped
       PROVE  /\ isOpen' \in BOOLEAN /\ blob_count' \in 1..MaxWorkers
              /\ delta_threshold' \in Nat /\ use_shadow' \in BOOLEAN
              /\ last_snapshot' \in Nat \union {None}
              /\ shadow' \in [Pas -> [key : Nat \union {None}, page : Page]]
              /\ offset' \in [Workers -> Nat]
              /\ result' \in {"none", "ok", "err"}
  <2>1. EmptyShadow \in [Pas -> [key : Nat \union {None}, page : Page]]
    BY Values DEF EmptyShadow
  <2>2. 1 \in 1..MaxWorkers
    BY Constants
  <2> QED
    BY <1>17, <2>1, <2>2 DEF Dropped
<1>18. ASSUME Close PROVE TypeOK'
  BY <1>17, <1>18 DEF Close, Flushed, TypeOK
<1>19. ASSUME NEW g \in Groups, AppendFail(g) PROVE TypeOK'
  <2>1. \A h \in Groups : cur'[h] # None => pc' = "pass" /\ cur'[h] \in todo'[h]
    BY <1>19 DEF AppendFail, GiveUp, TypeOK
  <2>2. todo' \in [Groups -> SUBSET DOMAIN memory']
    BY <1>19 DEF AppendFail, GiveUp, TypeOK
  <2>3. /\ blobOnDisk' \in [Workers -> Nat]
        /\ \A w \in Workers : blobOnDisk'[w] <= Len(blobs'[w])
    BY <1>19, AppendFailDisk DEF AppendFail
  <2>4. /\ cur' = [cur EXCEPT ![g] = None]
        /\ at' = [at EXCEPT ![g] = 0]
        /\ failed' = TRUE /\ ioErrors' = ioErrors + 1
        /\ UNCHANGED <<header, log, logOnDisk, blobs, configVars, handleVars, write_idx,
                       records_buf, resultVars, snapshot_id, memory, next, torn, sealed,
                       crashes>>
    BY <1>19 DEF AppendFail, GiveUp
  <2> HIDE DEF AppendFail
  <2> QED
    BY <2>1, <2>2, <2>3, <2>4, SMTT(60) DEF TypeOK
<1>20. ASSUME WriteFail PROVE TypeOK'
  <2>1. logOnDisk' \in 0..Len(log')
    BY <1>20, LenProperties DEF WriteFail, TypeOK
  <2> QED
    BY <1>20, <2>1, TypeEndCall DEF WriteFail, Return, TypeOK
<1>21. ASSUME Crash PROVE TypeOK'
  <2>1. log' \in Seq(Slot) /\ logOnDisk' \in 0..Len(log')
    <3>1. \A i \in 1..logOnDisk : log[i] \in Slot
      BY DEF TypeOK
    <3>2. SubSeq(log, 1, logOnDisk) \in Seq(Slot) /\ Len(SubSeq(log, 1, logOnDisk)) = logOnDisk
      BY <3>1, SubSeqProperties DEF TypeOK
    <3> QED
      BY <1>21, <3>2 DEF Crash, TypeOK
  <2>2. /\ blobs' \in [Workers -> Seq(Blob)]
        /\ \A w \in Workers : blobOnDisk'[w] <= Len(blobs'[w])
    <3>1. ASSUME NEW w \in Workers
          PROVE  /\ SubSeq(blobs[w], 1, blobOnDisk[w]) \in Seq(Blob)
                 /\ Len(SubSeq(blobs[w], 1, blobOnDisk[w])) = blobOnDisk[w]
      <4>1. \A i \in 1..blobOnDisk[w] : blobs[w][i] \in Blob
        BY DEF TypeOK
      <4> QED
        BY <4>1, SubSeqProperties DEF TypeOK
    <3> QED
      BY <1>21, <3>1, SMTT(60) DEF Crash, TypeOK
  <2>3. EndCall /\ Dropped
    BY <1>21 DEF Crash
  <2>4. /\ header' = header /\ sealed' = sealed /\ blobOnDisk' = blobOnDisk
        /\ ioErrors' = ioErrors /\ crashes' = crashes + 1 /\ pc' = "idle"
    BY <1>21 DEF Crash
  <2>5. /\ header' \in Nat \union {None} /\ sealed' \in Nat \union {None}
        /\ blobOnDisk' \in [Workers -> Nat]
        /\ pc' \in {"idle", "pass", "write", "header", "flush"}
        /\ ioErrors' \in Nat /\ crashes' \in Nat
    BY <2>4 DEF TypeOK
  <2>6. /\ snapshot_id' \in Nat /\ snapshot_id' <= MAX_SNAPSHOT_ID
        /\ DOMAIN memory' \subseteq Pas
        /\ memory' \in [DOMAIN memory' -> Page]
        /\ todo' \in [Groups -> SUBSET DOMAIN memory']
        /\ write_idx' \in [Groups -> Nat]
        /\ cur' \in [Groups -> Pas \union {None}]
        /\ \A g \in Groups : cur'[g] = None
        /\ at' \in [Groups -> Nat]
        /\ records_buf' \in [Pas -> Slot]
        /\ next' \in Nat
        /\ failed' \in BOOLEAN
    BY <2>3, TypeEndCall
  <2>7. MAX_SNAPSHOT_ID' = MAX_SNAPSHOT_ID
    OBVIOUS
  <2>8. torn' \in Nat \union {None} /\ (torn' # None => crashes' # 0)
    BY <1>21, TornTyped
  <2> QED
    BY <1>17, <2>1, <2>2, <2>3, <2>5, <2>6, <2>7, <2>8 DEF TypeOK
<1>22. ASSUME UNCHANGED vars PROVE TypeOK'
  BY <1>22 DEF vars, TypeOK
<1> QED
  BY <1>1, <1>2, <1>3, <1>4, <1>5, <1>6, <1>7, <1>8, <1>9, <1>10, <1>11, <1>12,
     <1>13, <1>14, <1>15, <1>16, <1>18, <1>19, <1>20, <1>21, <1>22
  DEF Next, Call, Step, Fault

\* In every reachable state, whatever crashes and write errors occurred, every
\* variable has its type: in particular no operation writes or reads outside
\* the worker files, the slots of records_buf or the snapshot ids.
THEOREM TypeCorrect == Spec => []TypeOK
  BY TypeInit, TypeStep, PTL DEF Spec
=============================================================================
