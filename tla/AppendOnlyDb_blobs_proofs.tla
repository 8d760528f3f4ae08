--------------------- MODULE AppendOnlyDb_blobs_proofs ----------------------
(*************************************************************************)
(* The blobs of the log do not overlap, and those of a worker file are in  *)
(* the order of their snapshots, for all values of the constants.          *)
(*                                                                         *)
(* BlobsDisjoint is not inductive: that an append goes behind all blobs so *)
(* far rests on the offset of the handle being the length of the file and  *)
(* on the mutex, and that the log may take a record over from records_buf  *)
(* on the slots being apart from each other and from the log.  Placed says *)
(* so.  A crash cuts the files and leaves records that locate lost bytes,  *)
(* so that from then on only what the handle knows still holds.            *)
(*                                                                         *)
(* BlobsInSnapshotOrder needs besides that no blob of the log is of a      *)
(* later snapshot than a new one.  Ascending says so: the ids of the log   *)
(* are bounded by the last id that the handle accepted, and between        *)
(* handles by the header, which a reopening starts from.  A failed write   *)
(* breaks the latter: it leaves records whose id is not in the header.     *)
(*************************************************************************)
EXTENDS AppendOnlyDb_proofs

-----------------------------------------------------------------------------
(* Blobs do not overlap: the inductive invariant.                          *)

\* The bytes of a record are in the file of its worker.
Within(rec) ==
    /\ rec.worker_id \in Workers
    /\ rec.offset + rec.len <= Len(blobs[rec.worker_id])

\* Only an open database has a call in progress.
CallOpen == pc # "idle" => isOpen

\* The handle appends where the files end.
OffsetAtEnd == isOpen => \A w \in Workers : w < blob_count => offset[w] = Len(blobs[w])

\* A group that is appending has a worker file to itself, and the offset it has
\* read is still that of the file.
AppendAlone ==
    \A g \in Groups : cur[g] # None =>
        /\ at[g] = offset[wid(cur[g])]
        /\ \A h \in Groups : (h # g /\ cur[h] # None) => wid(cur[h]) # wid(cur[g])

\* Every record, in the log or on its way there, locates bytes that are there.
RecordsWithin ==
    /\ \A i \in 1..Len(log) : Within(log[i])
    /\ \A k \in Pas : Within(records_buf[k])

\* No two slots of records_buf locate the same bytes, ...
BufDisjoint == \A k, l \in Pas : k # l => Disjoint(records_buf[k], records_buf[l])

\* ... nor does a slot that is not yet written and a record of the log.
BufLogDisjoint ==
    \A k \in Pas, i \in 1..Len(log) : k >= next => Disjoint(records_buf[k], log[i])

LogDisjoint == \A i, j \in 1..Len(log) : i # j => Disjoint(log[i], log[j])

\* Between saves no slot locates anything.
BufEmpty == pc \in {"idle", "flush"} => \A k \in Pas : records_buf[k].len = 0

Located == RecordsWithin /\ BufDisjoint /\ BufLogDisjoint /\ LogDisjoint

\* The inductive invariant.
Placed == CallOpen /\ OffsetAtEnd /\ AppendAlone /\ BufEmpty /\ (crashes = 0 => Located)

-----------------------------------------------------------------------------
(* What the parts rest on.                                                 *)

\* A record of no bytes overlaps nothing.
LEMMA EmptyDisjoint ==
    ASSUME NEW r1, NEW r2, r1.len = 0 \/ r2.len = 0
    PROVE  Disjoint(r1, r2)
  BY DEF Disjoint

\* A record that starts where the file ended overlaps none that was in it.
LEMMA BehindDisjoint ==
    ASSUME NEW r1 \in Slot, NEW r2 \in Slot, NEW end \in Nat,
           r2.offset = end,
           r1.worker_id = r2.worker_id => r1.offset + r1.len <= end
    PROVE  Disjoint(r1, r2) /\ Disjoint(r2, r1)
  BY DEF Disjoint, Slot

LEMMA DisjointSymmetric ==
    ASSUME NEW r1 \in Slot, NEW r2 \in Slot, Disjoint(r1, r2)
    PROVE  Disjoint(r2, r1)
  BY DEF Disjoint

LEMMA FilesTyped ==
    TypeOK => \A v \in Workers : blobs[v] \in Seq(Blob) /\ Len(blobs[v]) \in Nat
<1>1. TypeOK => \A v \in Workers : blobs[v] \in Seq(Blob)
  BY DEF TypeOK
<1> QED
  BY <1>1, LenProperties

LEMMA LogSlots == TypeOK => \A i \in 1..Len(log) : log[i] \in Slot
  BY DEF TypeOK

\* The parts speak of these variables only.
LEMMA Frame ==
    ASSUME Placed, CallOpen',
           UNCHANGED <<log, blobs, isOpen, blob_count, offset, cur, at, records_buf,
                       next, crashes>>,
           pc' \in {"idle", "flush"} => pc \in {"idle", "flush"}
    PROVE  Placed'
<1> USE DEF Placed
<1>1. OffsetAtEnd'
  BY DEF OffsetAtEnd
<1>2. AppendAlone'
  BY DEF AppendAlone, wid
<1>3. BufEmpty'
  BY DEF BufEmpty
<1>4. crashes' = 0 => Located'
  BY DEF Located, RecordsWithin, Within, BufDisjoint, BufLogDisjoint, LogDisjoint
<1> QED
  BY <1>1, <1>2, <1>3, <1>4

\* The end of a call, whatever it has left in the files.
LEMMA PlacedReturn ==
    ASSUME TypeOK, Placed, NEW r, Return(r),
           UNCHANGED <<log, blobs, isOpen, blob_count, offset, crashes>>
    PROVE  Placed'
<1> USE DEF Placed
<1>1. pc' = "idle" /\ (\A g \in Groups : cur'[g] = None)
      /\ (\A k \in Pas : records_buf'[k] = Uninit)
  BY DEF Return, EndCall
<1>2. CallOpen' /\ OffsetAtEnd' /\ AppendAlone' /\ BufEmpty'
  BY <1>1 DEF CallOpen, OffsetAtEnd, AppendAlone, BufEmpty, Uninit
<1>3. ASSUME crashes' = 0 PROVE Located'
  <2>1. Located
    BY <1>3
  <2>2. RecordsWithin'
    <3>1. \A i \in 1..Len(log) : Within(log[i])'
      BY <2>1 DEF Located, RecordsWithin, Within
    <3>2. Within(Uninit)'
      <4>1. Uninit.worker_id = 0 /\ Uninit.offset = 0 /\ Uninit.len = 0
        BY DEF Uninit
      <4>2. Len(blobs'[0]) \in Nat /\ 0 \in Workers
        BY Constants DEF TypeOK
      <4> QED
        BY <4>1, <4>2 DEF Within
    <3> QED
      BY <1>1, <3>1, <3>2 DEF RecordsWithin, Within
  <2>3. \A k \in Pas : records_buf'[k].len = 0
    BY <1>1 DEF Uninit
  <2>4. BufDisjoint' /\ BufLogDisjoint'
    BY <2>3 DEF BufDisjoint, BufLogDisjoint, Disjoint
  <2>5. LogDisjoint'
    BY <2>1 DEF Located, LogDisjoint
  <2> QED
    BY <2>2, <2>4, <2>5 DEF Located
<1> QED
  BY <1>2, <1>3

-----------------------------------------------------------------------------
(* A record for a slot of records_buf.                                     *)

\* A record that is within its file, and apart from all others, may be put in
\* any slot while files grow.
LEMMA LocatedEmit ==
    ASSUME TypeOK, Located, NEW g \in Groups, NEW pa, NEW rec \in Slot,
           EmitRecord(g, pa, rec),
           UNCHANGED <<log, next>>,
           \A v \in Workers : Len(blobs'[v]) >= Len(blobs[v]) /\ Len(blobs'[v]) \in Nat,
           Within(rec)',
           \A r \in Slot : Within(r) => Disjoint(r, rec) /\ Disjoint(rec, r)
    PROVE  Located'
<1>1. \A k \in Pas : records_buf'[k] = rec \/ records_buf'[k] = records_buf[k]
  BY DEF EmitRecord, TypeOK
<1>2. \A k, l \in Pas : k # l => records_buf'[k] = records_buf[k] \/ records_buf'[l] = records_buf[l]
  BY DEF EmitRecord, TypeOK
<1>3. /\ \A k \in Pas : records_buf[k] \in Slot /\ Within(records_buf[k])
      /\ \A i \in 1..Len(log) : log[i] \in Slot /\ Within(log[i])
  BY LogSlots DEF TypeOK, Located, RecordsWithin
<1>4. ASSUME NEW r \in Slot, Within(r) PROVE Within(r)'
  <2>1. r.worker_id \in Workers /\ r.offset + r.len <= Len(blobs[r.worker_id])
    BY <1>4 DEF Within
  <2>2. r.offset \in Nat /\ r.len \in Nat
    BY DEF Slot
  <2>3. Len(blobs[r.worker_id]) \in Nat
    BY <2>1, FilesTyped
  <2> QED
    BY <2>1, <2>2, <2>3 DEF Within
<1>5. RecordsWithin'
  <2>1. \A i \in 1..Len(log) : Within(log[i])'
    BY <1>3, <1>4
  <2>2. ASSUME NEW k \in Pas PROVE Within(records_buf[k])'
    <3>1. CASE records_buf'[k] = rec
      BY <3>1 DEF Within
    <3>2. CASE records_buf'[k] = records_buf[k]
      BY <1>3, <1>4, <3>2 DEF Within
    <3> QED
      BY <1>1, <3>1, <3>2
  <2> QED
    BY <2>1, <2>2 DEF RecordsWithin, Within
<1>6. BufDisjoint'
  BY <1>1, <1>2, <1>3 DEF Located, BufDisjoint
<1>7. BufLogDisjoint'
  BY <1>1, <1>3 DEF Located, BufLogDisjoint
<1>8. LogDisjoint'
  BY DEF Located, LogDisjoint
<1> QED
  BY <1>5, <1>6, <1>7, <1>8 DEF Located

\* append_blob puts its blob behind all others of the worker, and leaves the
\* other appends alone.
LEMMA PlacedAppend ==
    ASSUME TypeOK, Placed, NEW g \in Groups, NEW blob \in Blob, NEW spill, NEW rec \in Slot,
           pc = "pass", cur[g] # None,
           append_blob(g, wid(cur[g]), blob, spill),
           EmitRecord(g, cur[g], rec),
           rec.worker_id = wid(cur[g]), rec.offset = at[g], rec.len = blob_len(blob),
           UNCHANGED <<log, isOpen, blob_count, pc, next, crashes>>
    PROVE  Placed'
<1> DEFINE w   == wid(cur[g])
           len == blob_len(blob)
<1> USE DEF Placed
<1>1. w \in Workers /\ w < blob_count /\ isOpen
  BY CurrentPage, WorkerOf DEF CallOpen, TypeOK
<1>2. /\ offset[w] = Len(blobs[w]) /\ at[g] = Len(blobs[w])
      /\ Len(blobs[w]) \in Nat
  BY <1>1 DEF OffsetAtEnd, AppendAlone, TypeOK
<1>3. len \in 0..1
  BY BlobLen
<1>4. /\ Len(blobs'[w]) = Len(blobs[w]) + len
      /\ \A v \in Workers : v # w => blobs'[v] = blobs[v]
  <2>1. CASE len = 0
    BY <1>1, <1>2, <2>1 DEF append_blob, TypeOK
  <2>2. CASE len # 0
    <3>1. len = 1
      BY <1>3, <2>2
    <3>2. blobs[w] \in Seq(Blob) /\ Len(Append(blobs[w], blob)) = Len(blobs[w]) + 1
      BY <1>1 DEF TypeOK
    <3> QED
      BY <1>1, <2>2, <3>1, <3>2 DEF append_blob, TypeOK
  <2> QED
    BY <2>1, <2>2
<1>5. /\ offset'[w] = offset[w] + len
      /\ \A v \in Workers : v # w => offset'[v] = offset[v]
  BY <1>1 DEF append_blob, TypeOK
<1>6. \A h \in Groups : cur'[h] # None => h # g /\ cur'[h] = cur[h] /\ at'[h] = at[h]
  BY DEF append_blob, TypeOK
<1>7. CallOpen'
  BY DEF CallOpen
<1>8. OffsetAtEnd'
  BY <1>1, <1>2, <1>4, <1>5 DEF OffsetAtEnd
<1>9. AppendAlone'
  <2>1. \A pa : wid(pa)' = wid(pa)
    BY DEF wid
  <2>2. \A h \in Groups : (h # g /\ cur[h] # None) => wid(cur[h]) # w /\ wid(cur[h]) \in Workers
    BY CurrentPage DEF AppendAlone
  <2> QED
    BY <1>5, <1>6, <2>1, <2>2 DEF AppendAlone, wid
<1>10. BufEmpty'
  BY DEF BufEmpty
<1>11. ASSUME crashes' = 0 PROVE Located'
  <2>1. Located
    BY <1>11
  <2>2. \A v \in Workers : Len(blobs'[v]) >= Len(blobs[v]) /\ Len(blobs'[v]) \in Nat
    <3>1. \A v \in Workers : Len(blobs[v]) \in Nat
      BY DEF TypeOK
    <3> QED
      BY <1>3, <1>4, <3>1
  <2>3. Within(rec)'
    BY <1>1, <1>2, <1>4 DEF Within
  <2>4. ASSUME NEW r \in Slot, Within(r) PROVE Disjoint(r, rec) /\ Disjoint(rec, r)
    <3>1. r.worker_id = rec.worker_id => r.offset + r.len <= Len(blobs[w])
      BY <2>4 DEF Within
    <3> QED
      BY <1>2, <3>1, BehindDisjoint
  <2> QED
    BY <2>1, <2>2, <2>3, <2>4, LocatedEmit
<1> QED
  BY <1>7, <1>8, <1>9, <1>10, <1>11

-----------------------------------------------------------------------------
(* The invariance of Placed.                                               *)

LEMMA PlacedInit == Init => Placed
<1> SUFFICES ASSUME Init PROVE Placed
  OBVIOUS
<1>1. /\ log = <<>> /\ Len(log) = 0 /\ pc = "idle" /\ isOpen = FALSE
      /\ (\A g \in Groups : cur[g] = None)
      /\ (\A k \in Pas : records_buf[k] = Uninit)
      /\ (\A w \in Workers : blobs[w] = <<>>)
  BY DEF Init, NoCall
<1>2. Uninit.worker_id = 0 /\ Uninit.offset = 0 /\ Uninit.len = 0
  BY DEF Uninit
<1>3. Within(Uninit)
  BY <1>1, <1>2, Constants DEF Within
<1>4. RecordsWithin
  BY <1>1, <1>3 DEF RecordsWithin
<1>5. BufDisjoint /\ BufLogDisjoint /\ LogDisjoint
  BY <1>1, <1>2 DEF BufDisjoint, BufLogDisjoint, LogDisjoint, Disjoint
<1>6. CallOpen /\ OffsetAtEnd /\ AppendAlone /\ BufEmpty
  BY <1>1, <1>2 DEF CallOpen, OffsetAtEnd, AppendAlone, BufEmpty
<1> QED
  BY <1>4, <1>5, <1>6 DEF Placed, Located

LEMMA PlacedStep == TypeOK /\ Placed /\ [Next]_vars => Placed'
<1> SUFFICES ASSUME TypeOK, Placed, [Next]_vars PROVE Placed'
  OBVIOUS
<1> USE DEF diskVars, configVars, handleVars, groupVars, callVars, resultVars, countVars
<1>0. CallOpen
  BY DEF Placed
<1>1. ASSUME NEW n \in WorkerCounts, NEW t \in DeltaThresholds, NEW sh \in ShadowModes,
             Open(n, t, sh)
      PROVE  Placed'
  <2>1. pc = "idle" /\ \A g \in Groups : cur[g] = None
    BY <1>0, <1>1 DEF Open, CallOpen, TypeOK
  <2>2. CallOpen'
    BY <1>1, <2>1 DEF Open, CallOpen
  <2>3. OffsetAtEnd'
    BY <1>1 DEF Open, OffsetAtEnd, opened_offset
  <2>4. AppendAlone' /\ BufEmpty'
    BY <1>1, <2>1 DEF Open, AppendAlone, BufEmpty, Placed
  <2>5. crashes' = 0 => Located'
    BY <1>1 DEF Open, Placed, Located, RecordsWithin, Within, BufDisjoint, BufLogDisjoint,
                LogDisjoint
  <2> QED
    BY <2>2, <2>3, <2>4, <2>5 DEF Placed
<1>2. ASSUME NEW s \in Snapshots, SaveBadLength(s) \/ SaveNothing(s) PROVE Placed'
  <2>1. CallOpen'
    BY <1>0, <1>2 DEF SaveBadLength, SaveNothing, CallOpen
  <2> QED
    BY <1>2, <2>1, Frame DEF SaveBadLength, SaveNothing
<1>3. ASSUME NEW s \in Snapshots, NEW mem, NEW first, BeginSave(s, mem, first) PROVE Placed'
  <2>1. CallOpen'
    BY <1>3 DEF BeginSave, CallOpen
  <2> QED
    BY <1>3, <2>1, Frame DEF BeginSave
<1>4. ASSUME BeginFlush PROVE Placed'
  <2>1. CallOpen'
    BY <1>4 DEF BeginFlush, CallOpen
  <2> QED
    BY <1>4, <2>1, Frame DEF BeginFlush
<1>5. ASSUME NEW g \in Groups, NEW pa \in Pas, EmitZero(g, pa) PROVE Placed'
  <2>1. EmitRecord(g, pa, new_zero(encode_key(pa, snapshot_id))) /\ pc = "pass"
    BY <1>5 DEF EmitZero, Turns
  <2>2. new_zero(encode_key(pa, snapshot_id)) \in Slot
    <3>1. pa \in 0..(PaLimit - 1)
      BY Constants DEF Pas
    <3> QED
      BY <3>1, KeyRoundTrip DEF TypeOK, new_zero, Slot, ChunkKind
  <2>3. PICK rec \in Slot : /\ EmitRecord(g, pa, rec)
                            /\ rec.worker_id = 0 /\ rec.offset = 0 /\ rec.len = 0
    BY <2>1, <2>2 DEF new_zero
  <2>4. CallOpen' /\ OffsetAtEnd' /\ AppendAlone' /\ BufEmpty'
    BY <1>5, <2>1 DEF EmitZero, Placed, CallOpen, OffsetAtEnd, AppendAlone, BufEmpty, wid
  <2>5. ASSUME crashes' = 0 PROVE Located'
    <3>1. Located /\ blobs' = blobs /\ log' = log /\ next' = next
      BY <1>5, <2>5 DEF EmitZero, Placed
    <3>2. \A v \in Workers : Len(blobs[v]) \in Nat
      BY DEF TypeOK
    <3>3. Within(rec)'
      BY <2>3, <3>1, <3>2, Constants DEF Within
    <3>4. \A r \in Slot : Disjoint(r, rec) /\ Disjoint(rec, r)
      BY <2>3, EmptyDisjoint
    <3> QED
      BY <2>3, <3>1, <3>2, <3>3, <3>4, LocatedEmit
  <2> QED
    BY <2>4, <2>5 DEF Placed
<1>6. ASSUME NEW g \in Groups, NEW pa \in Pas, LockBlob(g, pa) PROVE Placed'
  <2>1. /\ cur[g] = None /\ mutex_free(wid(pa)) /\ pa # None
        /\ cur' = [cur EXCEPT ![g] = pa]
        /\ at' = [at EXCEPT ![g] = offset[wid(pa)]]
        /\ UNCHANGED <<log, blobs, isOpen, blob_count, offset, records_buf, next, pc, crashes>>
    BY <1>6, Constants DEF LockBlob, Turns, None
  <2>2. \A p : wid(p)' = wid(p)
    BY <2>1 DEF wid
  <2>3. \A h \in Groups : h # g => cur'[h] = cur[h] /\ at'[h] = at[h]
    BY <2>1 DEF TypeOK
  <2>4. cur'[g] = pa /\ at'[g] = offset[wid(pa)]
    BY <2>1 DEF TypeOK
  <2>5. AppendAlone'
    BY <2>1, <2>2, <2>3, <2>4 DEF AppendAlone, mutex_free, wid, Placed
  <2>6. CallOpen' /\ OffsetAtEnd' /\ BufEmpty'
    BY <2>1 DEF Placed, CallOpen, OffsetAtEnd, BufEmpty
  <2>7. crashes' = 0 => Located'
    BY <2>1 DEF Placed, Located, RecordsWithin, Within, BufDisjoint, BufLogDisjoint,
                LogDisjoint
  <2> QED
    BY <2>5, <2>6, <2>7 DEF Placed
<1>7. ASSUME NEW g \in Groups, NEW spill \in SpillChoices, EmitDelta(g, spill) PROVE Placed'
  <2> DEFINE pa   == cur[g]
             w    == wid(pa)
             blob == [kind |-> "Delta", data |-> patch_of(pa)]
             rec  == new_delta(encode_key(pa, snapshot_id), w, at[g],
                               blob_len(blob), shadow[pa].key)
  <2>1. /\ pa # None /\ pc = "pass"
        /\ append_blob(g, w, blob, spill) /\ EmitRecord(g, pa, rec)
    BY <1>7 DEF EmitDelta
  <2>2. /\ pa \in Pas /\ patch_of(pa) \in Patch /\ w \in Workers /\ w \in Nat
        /\ at[g] \in Nat /\ encode_key(pa, snapshot_id) \in Nat
    BY <2>1, CurrentPage
  <2>3. blob \in Blob /\ blob_len(blob) \in 0..1
    BY <2>2, BlobLen DEF Blob
  <2>4. shadow[pa].key \in Nat
    BY <1>7, <2>2 DEF EmitDelta, DeltaFits, TypeOK
  <2>5. rec \in Slot
    BY <2>2, <2>3, <2>4, Records
  <2>6. rec.worker_id = w /\ rec.offset = at[g] /\ rec.len = blob_len(blob)
    BY DEF new_delta
  <2>7. UNCHANGED <<log, isOpen, blob_count, pc, next, crashes>>
    BY <1>7 DEF EmitDelta
  <2> HIDE DEF blob, rec
  <2> QED
    BY <2>1, <2>3, <2>5, <2>6, <2>7, PlacedAppend
<1>8. ASSUME NEW g \in Groups, NEW spill \in SpillChoices, EmitFull(g, spill) PROVE Placed'
  <2> DEFINE pa   == cur[g]
             w    == wid(pa)
             key  == encode_key(pa, snapshot_id)
             blob == [kind |-> "Full", data |-> memory[pa]]
             rec  == new_full(key, w, at[g], blob_len(blob))
  <2>1. /\ pa # None /\ pc = "pass"
        /\ append_blob(g, w, blob, spill) /\ EmitRecord(g, pa, rec)
    BY <1>8 DEF EmitFull
  <2>2. /\ memory[pa] \in Page /\ w \in Workers /\ w \in Nat
        /\ at[g] \in Nat /\ key \in Nat
    BY <2>1, CurrentPage
  <2>3. blob \in Blob /\ blob_len(blob) \in 0..1
    BY <2>2, BlobLen, Values DEF Blob
  <2>4. rec \in Slot
    BY <2>2, <2>3, Records
  <2>5. rec.worker_id = w /\ rec.offset = at[g] /\ rec.len = blob_len(blob)
    BY DEF new_full
  <2>6. UNCHANGED <<log, isOpen, blob_count, pc, next, crashes>>
    BY <1>8 DEF EmitFull
  <2> HIDE DEF blob, rec
  <2> QED
    BY <2>1, <2>3, <2>4, <2>5, <2>6, PlacedAppend
<1>9. ASSUME PassDone \/ SeekHeader PROVE Placed'
  <2>1. CallOpen'
    BY <1>0, <1>9 DEF PassDone, SeekHeader, CallOpen
  <2> QED
    BY <1>9, <2>1, Frame DEF PassDone, SeekHeader
<1>10. ASSUME PassFail \/ WriteFail \/ UpdateHeader PROVE Placed'
  <2>1. \E r \in {"ok", "err"} : Return(r)
    BY <1>10 DEF PassFail, WriteFail, UpdateHeader
  <2>2. UNCHANGED <<log, blobs, isOpen, blob_count, offset, crashes>>
    BY <1>10 DEF PassFail, WriteFail, UpdateHeader
  <2> QED
    BY <2>1, <2>2, PlacedReturn
<1>11. ASSUME NEW spill \in SpillChoices, WriteRecord(spill) PROVE Placed'
  <2>1. /\ next \in Pas /\ next \in Nat /\ next' = next + 1
        /\ log' = Append(log, records_buf[next])
        /\ UNCHANGED <<blobs, isOpen, blob_count, offset, cur, at, records_buf, pc, crashes>>
    BY <1>11, NextSlot DEF WriteRecord, TypeOK
  <2>2. /\ Len(log') = Len(log) + 1 /\ Len(log) \in Nat
        /\ log'[Len(log')] = records_buf[next]
        /\ \A i \in 1..Len(log) : log'[i] = log[i]
    BY <2>1 DEF TypeOK
  <2>3. CallOpen' /\ OffsetAtEnd' /\ AppendAlone' /\ BufEmpty'
    BY <2>1 DEF Placed, CallOpen, OffsetAtEnd, AppendAlone, BufEmpty, wid
  <2>4. ASSUME crashes' = 0 PROVE Located'
    <3>1. Located
      BY <2>1, <2>4 DEF Placed
    <3>2. \A i \in 1..Len(log') : i = Len(log') \/ i \in 1..Len(log)
      BY <2>2
    <3>3. RecordsWithin'
      <4>1. \A i \in 1..Len(log') : Within(log'[i])
        BY <2>1, <2>2, <3>1, <3>2 DEF Located, RecordsWithin
      <4> QED
        BY <2>1, <3>1, <4>1 DEF Located, RecordsWithin, Within
    <3>4. BufDisjoint'
      BY <2>1, <3>1 DEF Located, BufDisjoint
    <3>5. BufLogDisjoint'
      <4>1. SUFFICES ASSUME NEW k \in Pas, NEW i \in 1..Len(log'), k >= next'
                     PROVE  Disjoint(records_buf[k], log'[i])
        BY <2>1 DEF BufLogDisjoint
      <4>2. k # next /\ k >= next
        BY <2>1, <4>1, Constants
      <4>3. CASE i = Len(log')
        BY <2>1, <2>2, <3>1, <4>2, <4>3 DEF Located, BufDisjoint
      <4>4. CASE i \in 1..Len(log)
        BY <2>2, <3>1, <4>2, <4>4 DEF Located, BufLogDisjoint
      <4> QED
        BY <3>2, <4>3, <4>4
    <3>6. LogDisjoint'
      <4>1. next >= next
        BY <2>1
      <4>2. \A i \in 1..Len(log) : Disjoint(records_buf[next], log[i])
        BY <2>1, <3>1, <4>1 DEF Located, BufLogDisjoint
      <4>3. \A i \in 1..Len(log) : Disjoint(log[i], records_buf[next])
        BY <4>2, DisjointSymmetric, <2>1, LogSlots DEF TypeOK
      <4>4. SUFFICES ASSUME NEW i \in 1..Len(log'), NEW j \in 1..Len(log'), i # j
                     PROVE  Disjoint(log'[i], log'[j])
        BY DEF LogDisjoint
      <4>5. CASE i \in 1..Len(log) /\ j \in 1..Len(log)
        BY <2>2, <3>1, <4>4, <4>5 DEF Located, LogDisjoint
      <4>6. CASE i = Len(log') /\ j \in 1..Len(log)
        BY <2>2, <4>2, <4>6
      <4>7. CASE i \in 1..Len(log) /\ j = Len(log')
        BY <2>2, <4>3, <4>7
      <4> QED
        BY <3>2, <4>4, <4>5, <4>6, <4>7
    <3> QED
      BY <3>3, <3>4, <3>5, <3>6 DEF Located
  <2> QED
    BY <2>3, <2>4 DEF Placed
<1>12. ASSUME UNCHANGED <<log, blobs, cur, at, records_buf, crashes>>,
              pc \in {"idle", "flush"}
       PROVE  crashes' = 0 => Located'
  <2>1. \A k \in Pas : records_buf[k].len = 0
    BY <1>12 DEF Placed, BufEmpty
  <2>2. BufDisjoint' /\ BufLogDisjoint'
    BY <1>12, <2>1 DEF BufDisjoint, BufLogDisjoint, Disjoint
  <2> QED
    BY <1>12, <2>2 DEF Placed, Located, RecordsWithin, Within, LogDisjoint
<1>13. ASSUME FlushBlob \/ EndFlush PROVE Placed'
  <2>1. /\ pc = "flush" /\ isOpen' = isOpen
        /\ pc' \in {"idle", "flush"}
        /\ UNCHANGED <<log, blobs, blob_count, offset, cur, at, records_buf, crashes>>
    BY <1>13 DEF FlushBlob, EndFlush, Flushed
  <2>2. CallOpen' /\ OffsetAtEnd' /\ AppendAlone' /\ BufEmpty'
    BY <2>1 DEF Placed, CallOpen, OffsetAtEnd, AppendAlone, BufEmpty, wid
  <2> QED
    BY <1>12, <2>1, <2>2 DEF Placed
<1>14. ASSUME Close PROVE Placed'
  <2>1. /\ pc = "flush" /\ pc' = "idle" /\ isOpen' = FALSE
        /\ UNCHANGED <<log, blobs, cur, at, records_buf, crashes>>
    BY <1>14 DEF Close, Flushed, Dropped
  <2>2. \A g \in Groups : cur[g] = None
    BY <2>1 DEF TypeOK
  <2>3. CallOpen' /\ OffsetAtEnd' /\ AppendAlone' /\ BufEmpty'
    BY <2>1, <2>2 DEF Placed, CallOpen, OffsetAtEnd, AppendAlone, BufEmpty
  <2> QED
    BY <1>12, <2>1, <2>3 DEF Placed
<1>15. ASSUME NEW g \in Groups, AppendFail(g) PROVE Placed'
  <2>1. /\ UNCHANGED <<log, blobs, isOpen, blob_count, offset, records_buf, next, pc, crashes>>
        /\ \A h \in Groups : cur'[h] # None => cur'[h] = cur[h] /\ at'[h] = at[h]
    BY <1>15 DEF AppendFail, GiveUp, TypeOK
  <2>2. AppendAlone'
    BY <2>1 DEF Placed, AppendAlone, wid
  <2>3. CallOpen' /\ OffsetAtEnd' /\ BufEmpty'
    BY <2>1 DEF Placed, CallOpen, OffsetAtEnd, BufEmpty
  <2>4. crashes' = 0 => Located'
    BY <2>1 DEF Placed, Located, RecordsWithin, Within, BufDisjoint, BufLogDisjoint,
                LogDisjoint
  <2> QED
    BY <2>2, <2>3, <2>4 DEF Placed
<1>16. ASSUME Crash PROVE Placed'
  <2>1. /\ isOpen' = FALSE /\ pc' = "idle" /\ crashes' = crashes + 1
        /\ (\A g \in Groups : cur'[g] = None)
        /\ (\A k \in Pas : records_buf'[k] = Uninit)
    BY <1>16 DEF Crash, Dropped, EndCall
  <2>2. crashes' # 0
    BY <2>1 DEF TypeOK
  <2> QED
    BY <2>1, <2>2 DEF Placed, CallOpen, OffsetAtEnd, AppendAlone, BufEmpty, Uninit
<1>17. ASSUME UNCHANGED vars PROVE Placed'
  <2>1. CallOpen'
    BY <1>0, <1>17 DEF vars, CallOpen
  <2> QED
    BY <1>17, <2>1, Frame DEF vars
<1> QED
  BY <1>1, <1>2, <1>3, <1>4, <1>5, <1>6, <1>7, <1>8, <1>9, <1>10, <1>11, <1>13,
     <1>14, <1>15, <1>16, <1>17
  DEF Next, Call, Step, Fault, BeginSaveAll, BeginSaveBitmap

\* Whatever the interleaving of the appends, and whichever writes fail, no two
\* records of the log locate the same bytes of a worker file, as long as the
\* process has not crashed.
THEOREM BlobsNeverOverlap == Spec => []BlobsDisjoint
<1>1. Placed => BlobsDisjoint
  BY DEF Placed, Located, LogDisjoint, BlobsDisjoint
<1> QED
  BY PlacedInit, PlacedStep, TypeCorrect, <1>1, PTL DEF Spec

-----------------------------------------------------------------------------
(* Worker files are in snapshot order: the inductive invariant.            *)

Snap(rec) == snapshot_of(rec.key)

\* How the ids go up: the log has none above the header, except during the
\* write of a save, nor above the last id that the handle has accepted, and what
\* is in records_buf is of the save in progress.
Recent ==
    /\ header = None => Len(log) = 0 /\ ~isOpen
    /\ pc \notin {"write", "header"} => \A i \in 1..Len(log) : Snap(log[i]) <= header
    /\ isOpen => \A i \in 1..Len(log) : last_snapshot # None /\ Snap(log[i]) <= last_snapshot
    /\ pc \in {"pass", "write", "header"} => isOpen /\ last_snapshot = snapshot_id
    /\ pc \in {"idle", "flush"} => snapshot_id = 0
    /\ \A k \in Pas : /\ Snap(records_buf[k]) <= snapshot_id
                      /\ records_buf[k].len # 0 => Snap(records_buf[k]) = snapshot_id

\* The log is in order, and so is it with what is on its way there.
Ordered ==
    /\ \A i, j \in 1..Len(log) : InOrder(log[i], log[j])
    /\ \A i \in 1..Len(log), k \in Pas : InOrder(log[i], records_buf[k])

\* The inductive invariant, together with TypeOK and Placed.
Ascending == (crashes = 0 /\ ioErrors = 0) => Recent /\ Ordered

-----------------------------------------------------------------------------
(* What the parts rest on.                                                 *)

LEMMA SnapType == \A r \in Slot : Snap(r) \in Nat
<1> SUFFICES ASSUME NEW r \in Slot PROVE Snap(r) \in Nat
  OBVIOUS
<1>1. r.key \in Nat
  BY DEF Slot
<1> QED
  BY <1>1, SMT DEF Snap, snapshot_of, SNAPSHOT_LIMIT

LEMMA UninitSnap == Snap(Uninit) = 0 /\ Uninit.len = 0
<1>1. Uninit.key = 0 /\ Uninit.len = 0
  BY DEF Uninit
<1> QED
  BY <1>1, SMT DEF Snap, snapshot_of, SNAPSHOT_LIMIT

\* A save that is accepted is of a later snapshot than the log.
LEMMA AcceptsAbove ==
    ASSUME TypeOK, isOpen, NEW s \in Snapshots, accepts(s),
           \A i \in 1..Len(log) : last_snapshot # None /\ Snap(log[i]) <= last_snapshot
    PROVE  \A i \in 1..Len(log) : s # None /\ Snap(log[i]) <= s
<1>1. s \in Nat /\ last_snapshot \in Nat \union {None}
  BY AppendOnlyDbAssumption DEF TypeOK
<1>2. \A i \in 1..Len(log) : Snap(log[i]) \in Nat
  BY SnapType, LogSlots
<1>3. last_snapshot = None \/ s > last_snapshot
  BY DEF accepts
<1> QED
  BY <1>1, <1>2, <1>3 DEF None

\* The parts speak of these variables only, and of whether a save is running.
LEMMA AscendingFrame ==
    ASSUME Ascending,
           UNCHANGED <<header, log, last_snapshot, snapshot_id, isOpen, records_buf,
                       crashes, ioErrors>>,
           pc' \in {"idle", "flush"} <=> pc \in {"idle", "flush"},
           pc \in {"write", "header"} => pc' \in {"write", "header"},
           pc' \in {"idle", "flush", "pass", "write", "header"},
           pc \in {"idle", "flush", "pass", "write", "header"}
    PROVE  Ascending'
<1> SUFFICES ASSUME crashes' = 0, ioErrors' = 0 PROVE Recent' /\ Ordered'
  BY DEF Ascending
<1>1. Recent /\ Ordered
  BY DEF Ascending
<1>2. Recent'
  BY <1>1 DEF Recent, Snap, snapshot_of
<1>3. Ordered'
  BY <1>1 DEF Ordered, InOrder, snapshot_of
<1> QED
  BY <1>2, <1>3

\* The end of a call, when the header bounds the log.
LEMMA AscendingReturn ==
    ASSUME TypeOK, Ascending, NEW r, Return(r),
           UNCHANGED <<log, last_snapshot, isOpen, crashes, ioErrors>>,
           (crashes = 0 /\ ioErrors = 0) =>
               /\ header' = None => Len(log) = 0 /\ ~isOpen
               /\ \A i \in 1..Len(log) : Snap(log[i]) <= header'
    PROVE  Ascending'
<1> SUFFICES ASSUME crashes' = 0, ioErrors' = 0 PROVE Recent' /\ Ordered'
  BY DEF Ascending
<1>1. Recent /\ Ordered
  BY DEF Ascending
<1>2. /\ pc' = "idle" /\ snapshot_id' = 0
      /\ \A k \in Pas : records_buf'[k] = Uninit
  BY DEF Return, EndCall
<1>3. Recent'
  <2>1. \A rec : Snap(rec)' = Snap(rec)
    BY DEF Snap, snapshot_of
  <2>2. \A k \in Pas : Snap(records_buf'[k]) = 0 /\ records_buf'[k].len = 0
    BY <1>2, UninitSnap
  <2> QED
    BY <1>1, <1>2, <2>2 DEF Recent, Snap, snapshot_of
<1>4. Ordered'
  <2>1. \A i, j \in 1..Len(log) : InOrder(log[i], log[j])'
    BY <1>1 DEF Ordered, InOrder, snapshot_of
  <2>2. \A i \in 1..Len(log), k \in Pas : InOrder(log'[i], records_buf'[k])
    BY <1>2, UninitSnap DEF InOrder
  <2> QED
    BY <2>1, <2>2 DEF Ordered, InOrder, snapshot_of
<1> QED
  BY <1>3, <1>4

\* A record of the running save that is empty or behind all others of its file
\* may be put in any slot.
LEMMA AscendingEmit ==
    ASSUME TypeOK, Placed, Ascending, NEW g \in Groups, NEW pa, NEW rec \in Slot,
           pc = "pass",
           EmitRecord(g, pa, rec),
           Snap(rec) = snapshot_id,
           \A r \in Slot : Within(r) =>
               \/ rec.len = 0
               \/ r.worker_id = rec.worker_id => r.offset + r.len <= rec.offset,
           UNCHANGED <<header, log, last_snapshot, snapshot_id, isOpen, pc, crashes, ioErrors>>
    PROVE  Ascending'
<1> SUFFICES ASSUME crashes' = 0, ioErrors' = 0 PROVE Recent' /\ Ordered'
  BY DEF Ascending
<1>1. Recent /\ Ordered
  BY DEF Ascending
<1>2. \A k \in Pas : records_buf'[k] = rec \/ records_buf'[k] = records_buf[k]
  BY DEF EmitRecord, TypeOK
<1>3. \A i \in 1..Len(log) : log[i] \in Slot /\ Within(log[i])
  BY LogSlots DEF Placed, Located, RecordsWithin
<1>4. Recent'
  <2>1. snapshot_id \in Nat
    BY DEF TypeOK
  <2>2. \A k \in Pas : /\ Snap(records_buf'[k]) <= snapshot_id
                       /\ records_buf'[k].len # 0 => Snap(records_buf'[k]) = snapshot_id
    BY <1>1, <1>2, <2>1 DEF Recent
  <2> QED
    BY <1>1, <2>2 DEF Recent, Snap, snapshot_of
<1>5. Ordered'
  <2>1. \A i \in 1..Len(log) : InOrder(log[i], rec)
    BY <1>3 DEF InOrder
  <2>2. \A i \in 1..Len(log), k \in Pas : InOrder(log[i], records_buf'[k])
    BY <1>1, <1>2, <2>1 DEF Ordered
  <2> QED
    BY <1>1, <2>2 DEF Ordered, InOrder, snapshot_of
<1> QED
  BY <1>4, <1>5

\* The record of a blob that append_blob has written.
LEMMA AscendingAppend ==
    ASSUME TypeOK, Placed, Ascending, NEW g \in Groups, NEW rec \in Slot,
           pc = "pass", cur[g] # None,
           EmitRecord(g, cur[g], rec),
           rec.key = encode_key(cur[g], snapshot_id),
           rec.worker_id = wid(cur[g]), rec.offset = at[g],
           UNCHANGED <<header, log, last_snapshot, snapshot_id, isOpen, pc, crashes, ioErrors>>
    PROVE  Ascending'
<1>1. wid(cur[g]) \in Workers /\ wid(cur[g]) < blob_count /\ isOpen
  BY CurrentPage, WorkerOf DEF Placed, CallOpen, TypeOK
<1>2. at[g] = Len(blobs[wid(cur[g])])
  BY <1>1 DEF Placed, OffsetAtEnd, AppendAlone
<1>3. Snap(rec) = snapshot_id
  <2>1. cur[g] \in 0..(PaLimit - 1)
    BY CurrentPage, Constants DEF Pas
  <2> QED
    BY <2>1, KeyRoundTrip DEF Snap, TypeOK
<1>4. ASSUME NEW r \in Slot, Within(r), r.worker_id = rec.worker_id
      PROVE  r.offset + r.len <= rec.offset
  BY <1>2, <1>4 DEF Within
<1> QED
  BY <1>3, <1>4, AscendingEmit

-----------------------------------------------------------------------------
(* The invariance of Ascending.                                            *)

LEMMA AscendingInit == Init => Ascending
<1> SUFFICES ASSUME Init PROVE Recent /\ Ordered
  BY DEF Ascending
<1>1. /\ header = None /\ Len(log) = 0 /\ isOpen = FALSE /\ pc = "idle" /\ snapshot_id = 0
      /\ \A k \in Pas : records_buf[k] = Uninit
  BY DEF Init, NoCall
<1> QED
  BY <1>1, UninitSnap DEF Recent, Ordered

LEMMA AscendingStep == TypeOK /\ Placed /\ Ascending /\ [Next]_vars => Ascending'
<1> SUFFICES ASSUME TypeOK, Placed, Ascending, [Next]_vars PROVE Ascending'
  OBVIOUS
<1> USE DEF diskVars, configVars, handleVars, groupVars, callVars, resultVars, countVars
<1>0. /\ pc \in {"idle", "pass", "write", "header", "flush"}
      /\ \A rec : Snap(rec)' = Snap(rec)
  BY DEF TypeOK, Snap, snapshot_of
<1>1. ASSUME NEW n \in WorkerCounts, NEW t \in DeltaThresholds, NEW sh \in ShadowModes,
             Open(n, t, sh)
      PROVE  Ascending'
  <2> SUFFICES ASSUME crashes' = 0, ioErrors' = 0 PROVE Recent' /\ Ordered'
    BY DEF Ascending
  <2>1. /\ isOpen' = TRUE /\ last_snapshot' = header
        /\ header' = IF header = None THEN 0 ELSE header
        /\ UNCHANGED <<log, records_buf, pc, snapshot_id, crashes, ioErrors>>
    BY <1>1 DEF Open, opened_last_snapshot
  <2>2. Recent /\ Ordered
    BY <2>1 DEF Ascending
  <2>3. pc = "idle"
    BY <1>1 DEF Open, Placed, CallOpen
  <2>4. header' # None
    BY <2>1 DEF None
  <2>5. Recent'
    BY <1>0, <2>1, <2>2, <2>3, <2>4 DEF Recent
  <2>6. Ordered'
    BY <2>1, <2>2 DEF Ordered, InOrder, snapshot_of
  <2> QED
    BY <2>5, <2>6
<1>2. ASSUME NEW s \in Snapshots, SaveBadLength(s) \/ SaveNothing(s) PROVE Ascending'
  <2> SUFFICES ASSUME crashes' = 0, ioErrors' = 0 PROVE Recent' /\ Ordered'
    BY DEF Ascending
  <2>1. /\ isOpen /\ pc = "idle" /\ accepts(s) /\ last_snapshot' = s
        /\ UNCHANGED <<header, log, isOpen, records_buf, pc, snapshot_id, crashes, ioErrors>>
    BY <1>2 DEF SaveBadLength, SaveNothing
  <2>2. Recent /\ Ordered
    BY <2>1 DEF Ascending
  <2>3. \A i \in 1..Len(log) : last_snapshot' # None /\ Snap(log[i]) <= last_snapshot'
    BY <2>1, <2>2, AcceptsAbove DEF Recent
  <2>4. Recent'
    BY <1>0, <2>1, <2>2, <2>3 DEF Recent
  <2>5. Ordered'
    BY <2>1, <2>2 DEF Ordered, InOrder, snapshot_of
  <2> QED
    BY <2>4, <2>5
<1>3. ASSUME NEW s \in Snapshots, NEW mem, NEW first, BeginSave(s, mem, first)
      PROVE  Ascending'
  <2> SUFFICES ASSUME crashes' = 0, ioErrors' = 0 PROVE Recent' /\ Ordered'
    BY DEF Ascending
  <2>1. /\ isOpen /\ pc = "idle" /\ pc' = "pass" /\ accepts(s)
        /\ last_snapshot' = s /\ snapshot_id' = s
        /\ UNCHANGED <<header, log, isOpen, records_buf, crashes, ioErrors>>
    BY <1>3 DEF BeginSave
  <2>2. Recent /\ Ordered
    BY <2>1 DEF Ascending
  <2>3. \A i \in 1..Len(log) : last_snapshot' # None /\ Snap(log[i]) <= last_snapshot'
    BY <2>1, <2>2, AcceptsAbove DEF Recent
  <2>4. \A k \in Pas : Snap(records_buf[k]) <= s /\ records_buf[k].len = 0
    <3>1. s \in Nat
      BY AppendOnlyDbAssumption
    <3>2. \A k \in Pas : Snap(records_buf[k]) \in Nat
      BY SnapType DEF TypeOK
    <3>3. \A k \in Pas : Snap(records_buf[k]) <= 0
      BY <2>1, <2>2 DEF Recent
    <3> QED
      BY <2>1, <3>1, <3>2, <3>3 DEF Placed, BufEmpty
  <2>5. Recent'
    BY <1>0, <2>1, <2>2, <2>3, <2>4 DEF Recent
  <2>6. Ordered'
    BY <2>1, <2>2 DEF Ordered, InOrder, snapshot_of
  <2> QED
    BY <2>5, <2>6
<1>4. ASSUME BeginFlush \/ FlushBlob \/ EndFlush PROVE Ascending'
  BY <1>4, AscendingFrame DEF BeginFlush, FlushBlob, EndFlush, Flushed
<1>5. ASSUME NEW g \in Groups, NEW pa \in Pas, EmitZero(g, pa) PROVE Ascending'
  <2>1. pa \in 0..(PaLimit - 1)
    BY Constants DEF Pas
  <2>2. /\ new_zero(encode_key(pa, snapshot_id)) \in Slot
        /\ snapshot_of(encode_key(pa, snapshot_id)) = snapshot_id
    BY <2>1, KeyRoundTrip DEF TypeOK, new_zero, Slot, ChunkKind
  <2>3. PICK rec \in Slot : EmitRecord(g, pa, rec) /\ Snap(rec) = snapshot_id /\ rec.len = 0
    BY <1>5, <2>2 DEF EmitZero, new_zero, Snap
  <2>4. /\ pc = "pass"
        /\ UNCHANGED <<header, log, last_snapshot, snapshot_id, isOpen, pc, crashes, ioErrors>>
    BY <1>5 DEF EmitZero, Turns
  <2> QED
    BY <2>3, <2>4, AscendingEmit
<1>6. ASSUME NEW g \in Groups, NEW pa \in Pas, LockBlob(g, pa) PROVE Ascending'
  BY <1>0, <1>6, AscendingFrame DEF LockBlob
<1>7. ASSUME NEW g \in Groups, NEW spill \in SpillChoices,
             EmitDelta(g, spill) \/ EmitFull(g, spill)
      PROVE  Ascending'
  <2>1. /\ pc = "pass" /\ cur[g] # None
        /\ UNCHANGED <<header, log, last_snapshot, snapshot_id, isOpen, pc, crashes, ioErrors>>
    BY <1>7 DEF EmitDelta, EmitFull
  <2>2. /\ cur[g] \in Pas /\ wid(cur[g]) \in Nat /\ at[g] \in Nat
        /\ encode_key(cur[g], snapshot_id) \in Nat
    BY <2>1, CurrentPage
  <2>3. \E rec \in Slot : /\ EmitRecord(g, cur[g], rec)
                          /\ rec.key = encode_key(cur[g], snapshot_id)
                          /\ rec.worker_id = wid(cur[g])
                          /\ rec.offset = at[g]
    <3>1. CASE EmitDelta(g, spill)
      <4> DEFINE len == blob_len([kind |-> "Delta", data |-> patch_of(cur[g])])
      <4>1. shadow[cur[g]].key \in Nat /\ len \in 0..1
        BY <2>2, <3>1, BlobLen DEF EmitDelta, DeltaFits, TypeOK
      <4>2. EmitRecord(g, cur[g], new_delta(encode_key(cur[g], snapshot_id), wid(cur[g]),
                                            at[g], len, shadow[cur[g]].key))
        BY <3>1 DEF EmitDelta
      <4> HIDE DEF len
      <4> QED
        BY <2>2, <4>1, <4>2, Records DEF new_delta
    <3>2. CASE EmitFull(g, spill)
      <4> DEFINE len == blob_len([kind |-> "Full", data |-> memory[cur[g]]])
      <4>1. len \in 0..1
        BY BlobLen
      <4>2. EmitRecord(g, cur[g], new_full(encode_key(cur[g], snapshot_id), wid(cur[g]),
                                           at[g], len))
        BY <3>2 DEF EmitFull
      <4> HIDE DEF len
      <4>3. new_full(encode_key(cur[g], snapshot_id), wid(cur[g]), at[g], len) \in Slot
        BY <2>2, <4>1 DEF new_full, Slot, ChunkKind
      <4> QED
        BY <4>2, <4>3 DEF new_full
    <3> QED
      BY <1>7, <3>1, <3>2
  <2> QED
    BY <2>1, <2>3, AscendingAppend
<1>8. ASSUME PassDone \/ SeekHeader PROVE Ascending'
  BY <1>0, <1>8, AscendingFrame DEF PassDone, SeekHeader
<1>9. ASSUME PassFail PROVE Ascending'
  <2>1. /\ pc = "pass" /\ Return("err")
        /\ UNCHANGED <<header, log, last_snapshot, isOpen, crashes, ioErrors>>
    BY <1>9 DEF PassFail
  <2>2. (crashes = 0 /\ ioErrors = 0) =>
            /\ header' = None => Len(log) = 0 /\ ~isOpen
            /\ \A i \in 1..Len(log) : Snap(log[i]) <= header'
    BY <2>1 DEF Ascending, Recent
  <2> QED
    BY <2>1, <2>2, AscendingReturn
<1>10. ASSUME UpdateHeader PROVE Ascending'
  <2>1. /\ pc = "header" /\ Return("ok") /\ header' = snapshot_id
        /\ UNCHANGED <<log, last_snapshot, isOpen, crashes, ioErrors>>
    BY <1>10 DEF UpdateHeader
  <2>2. snapshot_id # None
    BY DEF TypeOK, None
  <2>3. (crashes = 0 /\ ioErrors = 0) =>
            /\ header' = None => Len(log) = 0 /\ ~isOpen
            /\ \A i \in 1..Len(log) : Snap(log[i]) <= header'
    BY <2>1, <2>2 DEF Ascending, Recent
  <2> QED
    BY <2>1, <2>3, AscendingReturn
<1>11. ASSUME NEW spill \in SpillChoices, WriteRecord(spill) PROVE Ascending'
  <2> SUFFICES ASSUME crashes' = 0, ioErrors' = 0 PROVE Recent' /\ Ordered'
    BY DEF Ascending
  <2>1. /\ pc = "write" /\ next \in Pas
        /\ log' = Append(log, records_buf[next])
        /\ UNCHANGED <<header, last_snapshot, isOpen, records_buf, pc, snapshot_id,
                       crashes, ioErrors>>
    BY <1>11, NextSlot DEF WriteRecord
  <2>2. Recent /\ Ordered
    BY <2>1 DEF Ascending
  <2>3. /\ Len(log') = Len(log) + 1 /\ Len(log) \in Nat
        /\ log'[Len(log')] = records_buf[next]
        /\ \A i \in 1..Len(log) : log'[i] = log[i]
        /\ \A i \in 1..Len(log') : i = Len(log') \/ i \in 1..Len(log)
    BY <2>1 DEF TypeOK
  <2>4. isOpen /\ header # None /\ last_snapshot = snapshot_id /\ snapshot_id # None
    BY <2>1, <2>2 DEF Recent, TypeOK, None
  <2>5. \A i \in 1..Len(log') : Snap(log'[i]) <= snapshot_id
    BY <2>1, <2>2, <2>3, <2>4 DEF Recent
  <2>6. Recent'
    BY <1>0, <2>1, <2>2, <2>4, <2>5 DEF Recent
  <2>7. \A i \in 1..Len(log'), k \in Pas : InOrder(log'[i], records_buf[k])
    <3>1. \A k \in Pas : InOrder(records_buf[next], records_buf[k])
      BY <2>1, <2>2, SnapType DEF Recent, InOrder, Snap, TypeOK
    <3> QED
      BY <2>2, <2>3, <3>1 DEF Ordered
  <2>8. \A i, j \in 1..Len(log') : InOrder(log'[i], log'[j])
    <3>1. \A i \in 1..Len(log') : InOrder(log'[i], records_buf[next])
      BY <2>1, <2>7
    <3>2. \A j \in 1..Len(log) : InOrder(records_buf[next], log[j])
      <4>1. \A j \in 1..Len(log) : Snap(log[j]) <= snapshot_id /\ Snap(log[j]) \in Nat
        BY <2>2, <2>4, SnapType, LogSlots DEF Recent
      <4>2. records_buf[next].len # 0 => Snap(records_buf[next]) = snapshot_id
        BY <2>1, <2>2 DEF Recent
      <4> QED
        BY <4>1, <4>2 DEF InOrder, Snap, TypeOK
    <3> QED
      BY <2>2, <2>3, <3>1, <3>2 DEF Ordered
  <2>9. Ordered'
    BY <2>1, <2>7, <2>8 DEF Ordered, InOrder, snapshot_of
  <2> QED
    BY <2>6, <2>9
<1>12. ASSUME Close PROVE Ascending'
  <2> SUFFICES ASSUME crashes' = 0, ioErrors' = 0 PROVE Recent' /\ Ordered'
    BY DEF Ascending
  <2>1. /\ pc = "flush" /\ pc' = "idle" /\ isOpen' = FALSE
        /\ UNCHANGED <<header, log, records_buf, snapshot_id, crashes, ioErrors>>
    BY <1>12 DEF Close, Flushed, Dropped
  <2>2. Recent /\ Ordered
    BY <2>1 DEF Ascending
  <2>3. Recent'
    BY <1>0, <2>1, <2>2 DEF Recent
  <2>4. Ordered'
    BY <2>1, <2>2 DEF Ordered, InOrder, snapshot_of
  <2> QED
    BY <2>3, <2>4
\* From the first fault on, nothing is claimed.
<1>13. ASSUME \/ \E g \in Groups : AppendFail(g)
              \/ WriteFail
              \/ Crash
       PROVE  Ascending'
  <2>1. crashes' = crashes + 1 \/ ioErrors' = ioErrors + 1
    BY <1>13 DEF AppendFail, GiveUp, WriteFail, Crash
  <2>2. crashes' # 0 \/ ioErrors' # 0
    BY <2>1 DEF TypeOK
  <2> QED
    BY <2>2 DEF Ascending
<1>14. ASSUME UNCHANGED vars PROVE Ascending'
  BY <1>0, <1>14, AscendingFrame DEF vars
<1> QED
  BY <1>1, <1>2, <1>3, <1>4, <1>5, <1>6, <1>7, <1>8, <1>9, <1>10, <1>11, <1>12,
     <1>13, <1>14
  DEF Next, Call, Step, Fault, BeginSaveAll, BeginSaveBitmap

\* Without crashes and write errors, in every worker file the blobs of a snapshot
\* lie before those of all later snapshots, whatever numbers of workers the
\* database is reopened with: purge may cut the file.
THEOREM BlobsAscend == Spec => []BlobsInSnapshotOrder
<1>1. Ascending => BlobsInSnapshotOrder
  BY DEF Ascending, Ordered, BlobsInSnapshotOrder
<1> QED
  BY PlacedInit, PlacedStep, AscendingInit, AscendingStep, TypeCorrect, <1>1, PTL DEF Spec
=============================================================================
