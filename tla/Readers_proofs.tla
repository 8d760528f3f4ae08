--------------------------- MODULE Readers_proofs ---------------------------
(***************************************************************************)
(* What a reader that stays open answers, and what a raw chain of the      *)
(* database holds, for all values of the constants: the former whatever    *)
(* the writer does meanwhile, its faults included, the latter without      *)
(* faults.                                                                 *)
(*                                                                         *)
(* The mappings and the index are of two times, and both may be old.  The  *)
(* invariant says why that is enough for the snapshots that were sealed    *)
(* when the reader opened: the mappings cover the blobs of their records,  *)
(* and the index is made from a first part of the log that no record of    *)
(* theirs is outside of.                                                   *)
(*                                                                         *)
(* The chain: RawAt says what the stream has made of any part of the log,  *)
(* RawNext that one record more is one step of the stream, and Converts,   *)
(* by the recursive definition of the fold, what that makes of the log.    *)
(* RecordsHold, an invariant of the writer, says that every record of the  *)
(* log resolves.                                                           *)
(***************************************************************************)
EXTENDS Readers, BxDb_store_proofs

\* The workers of the handle have files, and where there is none is no byte.
Created ==
    /\ isOpen => 0..(blob_count - 1) \subseteq blob_files
    /\ \A w \in Workers : w \notin blob_files => blobOnDisk[w] = 0

\* The length of a worker's file for the reader.
mapped_len(w) == IF w \in DOMAIN mapped THEN mapped[w] ELSE 0

MappedEnough ==
    reader # "none" =>
        /\ promised \in Int /\ promised <= sealed
        /\ \A w \in Workers : mapped_len(w) \in Nat /\ mapped_len(w) <= blobOnDisk[w]
        /\ \A i \in 1..Len(log) : snapshot_of(log[i].key) <= promised =>
              log[i].offset + log[i].len <= mapped_len(log[i].worker_id)

IndexedEnough ==
    reader = "indexed" =>
        \E n \in 0..logOnDisk :
            /\ index = build_lazy_index(SubSeq(log, 1, n))
            /\ \A i \in (n + 1)..Len(log) : ~(snapshot_of(log[i].key) <= promised)

\* The inductive invariant, together with those of the writer.
Mapped == Created /\ MappedEnough /\ IndexedEnough

-----------------------------------------------------------------------------
(* The writer.                                                             *)

\* Sealing goes up.
LEMMA SealedGrows == TypeOK /\ IdsAbove /\ [Next]_vars => sealed <= sealed'
<1> SUFFICES ASSUME TypeOK, IdsAbove, [Next]_vars PROVE sealed <= sealed'
  OBVIOUS
<1> USE DEF diskVars, configVars, handleVars, groupVars, callVars, resultVars, countVars
<1>1. sealed' = sealed => sealed <= sealed'
  BY IdTypes
<1>2. sealed' = header => sealed <= sealed'
  BY DEF IdsAbove
<1>3. ASSUME Call PROVE sealed' = sealed
  BY <1>3
  DEF Call, Open, SaveBadLength, SaveNothing, BeginSaveAll, BeginSaveBitmap, BeginSave, BeginFlush
<1>4. ASSUME EndFlush \/ Close PROVE sealed' = sealed \/ sealed' = header
  BY <1>4 DEF EndFlush, Close, Flushed
<1>5. ASSUME Step PROVE sealed' = sealed \/ sealed' = header
  BY <1>4, <1>5
  DEF Step, EmitZero, LockBlob, EmitDelta, EmitFull, PassDone, PassFail, WriteRecord, SeekHeader,
      UpdateHeader, FlushBlob
<1>6. ASSUME Fault PROVE sealed' = sealed
  BY <1>6 DEF Fault, AppendFail, GiveUp, WriteFail, Crash
<1>7. UNCHANGED vars => sealed' = sealed
  BY DEF vars
<1> QED
  BY <1>1, <1>2, <1>3, <1>5, <1>6, <1>7 DEF Next

\* Bytes reach only the files of the workers that the handle has.
LEMMA OnDiskOfHandle ==
    ASSUME TypeOK, Placed, [Next]_vars, NEW w \in Workers, blobOnDisk'[w] # blobOnDisk[w]
    PROVE  isOpen /\ w \in 0..(blob_count - 1)
<1> USE DEF diskVars, configVars, handleVars, groupVars, callVars, resultVars, countVars
<1>0. (pc # "idle" => isOpen) /\ blob_count \in Nat /\ next \in Nat /\ w \in Nat
  BY FileNumbers DEF Placed, CallOpen
<1>1. ~Call
  BY DEF Call, Open, SaveBadLength, SaveNothing, BeginSaveAll, BeginSaveBitmap, BeginSave, BeginFlush
<1>2. ~(WriteFail \/ Crash)
  BY DEF WriteFail, Crash
<1>3. ~UNCHANGED vars
  BY DEF vars
<1>4. ASSUME NEW g \in Groups, NEW spill \in SpillChoices, EmitDelta(g, spill) \/ EmitFull(g, spill)
      PROVE  isOpen /\ w \in 0..(blob_count - 1)
  <2>1. pc = "pass" /\ cur[g] # None
    BY <1>4 DEF EmitDelta, EmitFull
  <2>2. wid(cur[g]) \in Workers /\ wid(cur[g]) < blob_count
    BY <2>1, CurrentPage, WorkerOf DEF TypeOK
  <2>3. w = wid(cur[g])
    BY <1>4, <2>2, Appends, AppendKeeps
  <2> QED
    BY <1>0, <2>1, <2>2, <2>3
<1>5. ASSUME FlushBlob PROVE isOpen /\ w \in 0..(blob_count - 1)
  <2>1. pc = "flush" /\ next < blob_count /\ w = next
    BY <1>5 DEF FlushBlob, TypeOK
  <2> QED
    BY <1>0, <2>1
<1>6. ASSUME NEW g \in Groups, NEW pa \in Pas, EmitZero(g, pa) \/ LockBlob(g, pa) PROVE FALSE
  BY <1>6 DEF EmitZero, LockBlob
<1>7. ASSUME \/ PassDone \/ PassFail \/ SeekHeader \/ UpdateHeader \/ EndFlush \/ Close
             \/ \E spill \in SpillChoices : WriteRecord(spill)
      PROVE  FALSE
  BY <1>7 DEF PassDone, PassFail, WriteRecord, SeekHeader, UpdateHeader, EndFlush, Close
<1>8. ASSUME NEW g \in Groups, AppendFail(g) PROVE isOpen /\ w \in 0..(blob_count - 1)
  <2>1. pc = "pass" /\ cur[g] # None
    BY <1>8 DEF AppendFail
  <2>2. wid(cur[g]) \in Workers /\ wid(cur[g]) < blob_count
    BY <2>1, CurrentPage, WorkerOf DEF TypeOK
  <2>3. w = wid(cur[g])
    BY <1>8, AppendFailDisk
  <2> QED
    BY <1>0, <2>1, <2>2, <2>3
<1>9. Step \/ \E g \in Groups : AppendFail(g)
  BY <1>1, <1>2, <1>3 DEF Next, Fault
<1> QED
  BY <1>4, <1>5, <1>6, <1>7, <1>8, <1>9 DEF Step

\* What the index has to be after a step.
LEMMA IndexedNext ==
    IndexedEnough' <=>
      (reader' = "indexed" =>
        \E n \in 0..logOnDisk' :
            /\ index' = build_lazy_index(SubSeq(log', 1, n))
            /\ \A i \in (n + 1)..Len(log') : ~(snapshot_of(log'[i].key) <= promised'))
  BY DEF IndexedEnough, build_lazy_index, snapshot_of

\* What is true of the writer when the reader looks.
Written == TypeOK /\ Placed /\ Slotted /\ Sealed

LEMMA MappedInit == InitReaders => Mapped
  BY DEF InitReaders, Init, Mapped, Created, MappedEnough, IndexedEnough

LEMMA CreatedStep == Written /\ Created /\ [NextReaders]_sharedVars => Created'
<1> SUFFICES ASSUME Written, Created, [NextReaders]_sharedVars PROVE Created'
  OBVIOUS
<1>1. CASE WriterStep
  <2>1. /\ [Next]_vars
        /\ blob_files' = IF isOpen' THEN blob_files \union 0..(blob_count' - 1) ELSE blob_files
    BY <1>1 DEF WriterStep
  <2>2. ASSUME NEW w \in Workers, w \notin blob_files' PROVE blobOnDisk'[w] = 0
    <3>1. w \notin blob_files
      BY <2>1, <2>2
    <3>2. blobOnDisk[w] = 0
      BY <3>1 DEF Created
    <3>3. ~(isOpen /\ w \in 0..(blob_count - 1))
      BY <3>1 DEF Created
    <3> QED
      BY <2>1, <3>2, <3>3, OnDiskOfHandle DEF Written
  <2> QED
    BY <2>1, <2>2 DEF Created
<1>2. CASE UNCHANGED <<vars, blob_files>>
  <2>1. UNCHANGED <<isOpen, blob_count, blobOnDisk, blob_files>>
    BY <1>2 DEF vars, diskVars, configVars
  <2> QED
    BY <2>1 DEF Created
<1> QED
  BY <1>1, <1>2
  DEF NextReaders, OpenReader, FirstLookup, CloseReader, sharedVars, readerVars

\* A step of the writer takes nothing away from the reader.
LEMMA WriterKeeps ==
    ASSUME Written, TypeOK', MappedEnough, IndexedEnough, [Next]_vars, UNCHANGED readerVars
    PROVE  MappedEnough' /\ IndexedEnough'
<1>1. /\ LogKept /\ LogDiskKept /\ BlobsKept
      /\ sealed <= sealed' /\ sealed \in Int /\ sealed' \in Int
  <2>1. sealed' \in Int
    BY DEF TypeOK, None
  <2> QED
    BY <2>1, FilesStep, SealedGrows, IdTypes DEF Written, Sealed
<1>2. UNCHANGED <<reader, mapped, index, promised>>
  BY DEF readerVars
<1>3. /\ log \in Seq(Slot) /\ Len(log) \in Nat /\ logOnDisk \in Nat /\ logOnDisk <= Len(log)
      /\ \A w \in Workers : blobOnDisk[w] \in Nat
  BY FileTypes DEF Written
<1>4. /\ log' \in Seq(Slot) /\ Len(log') \in Nat /\ logOnDisk' \in Nat /\ logOnDisk' <= Len(log')
      /\ \A w \in Workers : blobOnDisk'[w] \in Nat
  BY FileTypesNext
\* A record up to the promised snapshot is not a new one.
<1>5. ASSUME reader # "none", NEW i \in 1..Len(log'), snapshot_of(log'[i].key) <= promised
      PROVE  i \in 1..Len(log) /\ log'[i] = log[i]
  <2>1. log'[i] \in Slot
    BY <1>4
  <2>2. snapshot_of(log'[i].key) \in Nat
    BY <2>1, SnapNat DEF Slot
  <2>3. promised \in Int /\ promised <= sealed
    BY <1>5 DEF MappedEnough
  <2>4. ~(sealed < snapshot_of(log'[i].key))
    BY <1>1, <1>5, <2>2, <2>3
  <2>5. i <= Len(log) /\ log'[i] = log[i]
    BY <1>1, <2>4 DEF LogKept
  <2> QED
    BY <1>3, <1>4, <2>5
<1>6. MappedEnough'
  <2> SUFFICES ASSUME reader # "none"
               PROVE  /\ promised \in Int /\ promised <= sealed'
                      /\ \A w \in Workers : mapped_len(w) \in Nat /\ mapped_len(w) <= blobOnDisk'[w]
                      /\ \A i \in 1..Len(log') : snapshot_of(log'[i].key) <= promised =>
                            log'[i].offset + log'[i].len <= mapped_len(log'[i].worker_id)
    BY <1>2 DEF MappedEnough, mapped_len
  <2>1. promised \in Int /\ promised <= sealed'
    BY <1>1 DEF MappedEnough
  <2>2. ASSUME NEW w \in Workers PROVE mapped_len(w) \in Nat /\ mapped_len(w) <= blobOnDisk'[w]
    <3>1. mapped_len(w) \in Nat /\ mapped_len(w) <= blobOnDisk[w]
      BY DEF MappedEnough
    <3>2. blobOnDisk[w] <= blobOnDisk'[w]
      BY <1>1 DEF BlobsKept
    <3> QED
      BY <1>3, <1>4, <3>1, <3>2
  <2>3. ASSUME NEW i \in 1..Len(log'), snapshot_of(log'[i].key) <= promised
        PROVE  log'[i].offset + log'[i].len <= mapped_len(log'[i].worker_id)
    BY <1>5, <2>3 DEF MappedEnough
  <2> QED
    BY <2>1, <2>2, <2>3
<1>7. IndexedEnough'
  <2> SUFFICES ASSUME reader = "indexed"
               PROVE  \E n \in 0..logOnDisk' :
                         /\ index = build_lazy_index(SubSeq(log', 1, n))
                         /\ \A i \in (n + 1)..Len(log') : ~(snapshot_of(log'[i].key) <= promised)
    BY <1>2, IndexedNext
  <2>1. PICK n \in 0..logOnDisk :
           /\ index = build_lazy_index(SubSeq(log, 1, n))
           /\ \A i \in (n + 1)..Len(log) : ~(snapshot_of(log[i].key) <= promised)
    BY DEF IndexedEnough
  <2>2. /\ n \in 0..Len(log) /\ n \in 0..Len(log') /\ n \in 0..logOnDisk'
        /\ \A i \in 1..n : log'[i] = log[i]
    <3>1. logOnDisk <= logOnDisk' /\ \A i \in 1..logOnDisk : log'[i] = log[i]
      BY <1>1 DEF LogDiskKept
    <3>2. n \in 0..Len(log) /\ n \in 0..Len(log') /\ n \in 0..logOnDisk'
      BY <1>3, <1>4, <3>1
    <3>3. \A i \in 1..n : i \in 1..logOnDisk
      BY <1>3
    <3> QED
      BY <3>1, <3>2, <3>3
  <2>3. SubSeq(log', 1, n) = SubSeq(log, 1, n)
    <3>1. /\ SubSeq(log, 1, n) \in Seq(Slot) /\ Len(SubSeq(log, 1, n)) = n
          /\ \A i \in 1..n : SubSeq(log, 1, n)[i] = log[i]
      BY <1>3, <2>2, FirstOf
    <3>2. /\ SubSeq(log', 1, n) \in Seq(Slot) /\ Len(SubSeq(log', 1, n)) = n
          /\ \A i \in 1..n : SubSeq(log', 1, n)[i] = log'[i]
      BY <1>4, <2>2, FirstOf
    <3>3. \A i \in 1..n : SubSeq(log', 1, n)[i] = SubSeq(log, 1, n)[i]
      BY <2>2, <3>1, <3>2
    <3> QED
      BY <3>1, <3>2, <3>3, SameSequence
  <2>4. ASSUME NEW i \in (n + 1)..Len(log') PROVE ~(snapshot_of(log'[i].key) <= promised)
    <3>1. i \in 1..Len(log')
      BY <1>4, <2>2
    <3>2. i \in 1..Len(log) => i \in (n + 1)..Len(log)
      BY <1>3, <2>2
    <3> QED
      BY <1>5, <2>1, <3>1, <3>2
  <2> QED
    BY <2>1, <2>2, <2>3, <2>4
<1> QED
  BY <1>6, <1>7

-----------------------------------------------------------------------------
(* The reader.                                                             *)

LEMMA OpenMaps ==
    ASSUME Written, Created, OpenReader
    PROVE  MappedEnough' /\ IndexedEnough'
<1>1. /\ reader' = "open" /\ mapped' = [w \in blob_files |-> blobOnDisk[w]]
      /\ promised' = sealed /\ UNCHANGED <<log, blobOnDisk, sealed>>
  BY DEF OpenReader, vars, diskVars, countVars, callVars
<1>2. sealed \in Int /\ \A w \in Workers : blobOnDisk[w] \in Nat
  BY IdTypes, FileTypes DEF Written
<1>3. \A w \in Workers : mapped_len(w)' = blobOnDisk[w]
  BY <1>1 DEF mapped_len, Created
<1>4. ASSUME NEW i \in 1..Len(log), snapshot_of(log[i].key) <= sealed
      PROVE  log[i].offset + log[i].len <= mapped_len(log[i].worker_id)'
  <2>1. log[i].worker_id \in Workers
    BY DEF Written, Sealed, DeltasWithin, WellFormed
  <2>2. log[i].offset + log[i].len <= blobOnDisk[log[i].worker_id]
    BY <1>4 DEF Written, Sealed, SealedOnDisk
  <2>3. mapped_len(log[i].worker_id)' = blobOnDisk[log[i].worker_id]
    BY <1>1, <2>1 DEF mapped_len, Created
  <2> QED
    BY <2>2, <2>3
<1>5. MappedEnough'
  <2>1. sealed <= sealed /\ \A w \in Workers : mapped_len(w)' \in Nat /\ mapped_len(w)' <= blobOnDisk[w]
    BY <1>2, <1>3
  <2> QED
    BY <1>1, <1>2, <1>4, <2>1 DEF MappedEnough, mapped_len
<1>6. IndexedEnough'
  BY <1>1 DEF IndexedEnough
<1> QED
  BY <1>5, <1>6

LEMMA LookupIndexes ==
    ASSUME Written, MappedEnough, FirstLookup
    PROVE  MappedEnough' /\ IndexedEnough'
<1>1. /\ reader = "open" /\ index' = build_lazy_index(disk_log)
      /\ UNCHANGED <<log, logOnDisk, blobOnDisk, sealed, mapped, promised>>
  BY DEF FirstLookup, vars, diskVars, countVars, callVars
<1>2. MappedEnough'
  BY <1>1 DEF MappedEnough, mapped_len
<1>3. /\ Len(log) \in Nat /\ logOnDisk \in Nat /\ logOnDisk <= Len(log)
      /\ promised \in Int /\ promised <= sealed /\ sealed \in Int
  BY <1>1, FileTypes, IdTypes DEF Written, MappedEnough
<1>4. ASSUME NEW i \in (logOnDisk + 1)..Len(log) PROVE ~(snapshot_of(log[i].key) <= promised)
  <2>1. i \in 1..Len(log) /\ ~(i <= logOnDisk)
    BY <1>3
  <2>2. ~(snapshot_of(log[i].key) <= sealed)
    BY <2>1 DEF Written, Sealed, SealedOnDisk
  <2>3. snapshot_of(log[i].key) \in Nat
    BY <2>1, LogSlots, SnapNat DEF Written, Slot
  <2> QED
    BY <1>3, <2>2, <2>3
<1>5. index' = build_lazy_index(SubSeq(log, 1, logOnDisk)) /\ logOnDisk \in 0..logOnDisk
  BY <1>1, <1>3 DEF disk_log
<1>6. IndexedEnough'
  <2> SUFFICES \E n \in 0..logOnDisk :
                  /\ index' = build_lazy_index(SubSeq(log, 1, n))
                  /\ \A i \in (n + 1)..Len(log) : ~(snapshot_of(log[i].key) <= promised)
    BY <1>1, IndexedNext
  <2> QED
    BY <1>4, <1>5
<1> QED
  BY <1>2, <1>6

LEMMA MappedStep == Written /\ TypeOK' /\ Mapped /\ [NextReaders]_sharedVars => Mapped'
<1> SUFFICES ASSUME Written, TypeOK', Mapped, [NextReaders]_sharedVars
             PROVE  MappedEnough' /\ IndexedEnough'
  BY CreatedStep DEF Mapped
<1> USE DEF Mapped
<1>1. CASE WriterStep
  BY <1>1, WriterKeeps DEF WriterStep
<1>2. CASE OpenReader
  BY <1>2, OpenMaps
<1>3. CASE FirstLookup
  BY <1>3, LookupIndexes
<1>4. CASE CloseReader
  BY <1>4 DEF CloseReader, MappedEnough, IndexedEnough
<1>5. CASE UNCHANGED sharedVars
  <2>1. UNCHANGED vars /\ UNCHANGED readerVars
    BY <1>5 DEF sharedVars
  <2> QED
    BY <2>1, WriterKeeps
<1> QED
  BY <1>1, <1>2, <1>3, <1>4, <1>5 DEF NextReaders

\* The reader does not disturb the writer.
LEMMA ReadersImplement == SpecReaders => Spec
<1>1. InitReaders => Init
  BY DEF InitReaders
<1>2. [NextReaders]_sharedVars => [Next]_vars
  BY DEF NextReaders, WriterStep, OpenReader, FirstLookup, CloseReader, sharedVars
<1> QED
  BY <1>1, <1>2, PTL DEF SpecReaders, Spec

LEMMA AlwaysWritten == Spec => []Written
<1>1. TypeOK /\ Placed /\ Slotted /\ Sealed => Written
  BY DEF Written
<1> QED
  BY <1>1, TypeCorrect, PlacedInit, PlacedStep, SlottedInit, SlottedStep, AlwaysSealed, PTL
  DEF Spec

-----------------------------------------------------------------------------
(* What the reader answers.                                                *)

\* The mappings show the bytes of the files, as far as they go.
LEMMA SeenBytes ==
    ASSUME Written, MappedEnough, reader # "none", NEW w \in Workers
    PROVE  /\ Len(mapped_blobs[w]) = mapped_len(w)
           /\ \A j \in 1..mapped_len(w) : mapped_blobs[w][j] = blobs[w][j]
<1>1. /\ blobs[w] \in Seq(Blob) /\ Len(blobs[w]) \in Nat
      /\ blobOnDisk[w] \in Nat /\ blobOnDisk[w] <= Len(blobs[w])
  BY FileTypes DEF Written
<1>2. mapped_len(w) \in Nat /\ mapped_len(w) <= blobOnDisk[w]
  BY DEF MappedEnough
<1>3. CASE w \in DOMAIN mapped
  <2>1. mapped_len(w) = mapped[w] /\ mapped_blobs[w] = SubSeq(blobs[w], 1, mapped[w])
    BY <1>3 DEF mapped_len, mapped_blobs
  <2> DEFINE n == mapped[w]
             bytes == blobs[w]
  <2>2. /\ n \in Nat /\ n <= Len(bytes) /\ bytes \in Seq(Blob) /\ Len(bytes) \in Nat
    BY <1>1, <1>2, <2>1
  <2> HIDE DEF n, bytes
  <2>3. Len(SubSeq(bytes, 1, n)) = n /\ \A j \in 1..n : SubSeq(bytes, 1, n)[j] = bytes[j]
    BY <2>2
  <2> QED
    BY <2>1, <2>3 DEF n, bytes
<1>4. CASE w \notin DOMAIN mapped
  BY <1>4 DEF mapped_len, mapped_blobs
<1> QED
  BY <1>3, <1>4

LEMMA ReaderPast ==
    ASSUME Written, MappedEnough, IndexedEnough, reader = "indexed",
           NEW pa, NEW q \in Int, q <= promised
    PROVE  /\ SamePast(pa, q, index, mapped_blobs, build_lazy_index(log), blobs)
           /\ DOMAIN index \subseteq Nat /\ DOMAIN build_lazy_index(log) \subseteq Nat
<1>1. PICK n \in 0..logOnDisk :
         /\ index = build_lazy_index(SubSeq(log, 1, n))
         /\ \A i \in (n + 1)..Len(log) : ~(snapshot_of(log[i].key) <= promised)
  BY DEF IndexedEnough
<1> DEFINE recs == SubSeq(log, 1, n)
           idx2 == build_lazy_index(log)
<1>2. /\ log \in Seq(Slot) /\ Len(log) \in Nat /\ n \in Nat /\ n <= Len(log) /\ n \in 0..Len(log)
      /\ promised \in Int
  BY FileTypes DEF Written, MappedEnough
<1>3. recs \in Seq(Slot) /\ Len(recs) = n /\ \A i \in 1..n : recs[i] = log[i]
  BY <1>2, FirstOf
<1>4. index = build_lazy_index(recs)
  BY <1>1
<1> HIDE DEF recs
<1>5. ASSUME NEW k \in Nat, Past(pa, q, k)
      PROVE  /\ k \in DOMAIN index <=> k \in DOMAIN idx2
             /\ k \in DOMAIN index =>
                   /\ index[k] = idx2[k] /\ index[k] \in Slot /\ index[k].key = k
                   /\ DeltaWithin(index[k])
                   /\ SameBytes(index[k], mapped_blobs, blobs)
  <2>1. snapshot_of(k) <= promised
    <3>1. snapshot_of(k) \in Nat /\ snapshot_of(k) <= q
      BY <1>5, SnapNat DEF Past
    <3> QED
      BY <1>2, <3>1
  <2>2. \A i \in (Len(recs) + 1)..Len(log) : log[i].key # k
    BY <1>1, <1>3, <2>1
  <2>3. /\ k \in DOMAIN index <=> k \in DOMAIN idx2
        /\ k \in DOMAIN index => index[k] = idx2[k]
    <3>1. Len(recs) <= Len(log) /\ \A i \in 1..Len(recs) : log[i] = recs[i]
      BY <1>2, <1>3
    <3> QED
      BY <1>2, <1>3, <1>4, <2>2, <3>1, IndexGrows
  <2>4. ASSUME k \in DOMAIN index
        PROVE  /\ index[k] \in Slot /\ index[k].key = k
               /\ DeltaWithin(index[k]) /\ SameBytes(index[k], mapped_blobs, blobs)
    <3>1. PICK i \in 1..Len(recs) : recs[i].key = k /\ index[k] = recs[i]
      BY <1>3, <1>4, <2>4, IndexHolds
    <3>2. i \in 1..Len(log) /\ index[k] = log[i] /\ log[i].key = k
      BY <1>2, <1>3, <3>1
    <3> DEFINE rec == log[i]
               w   == rec.worker_id
    <3>3. /\ rec \in Slot /\ DeltaWithin(rec) /\ w \in Workers
          /\ rec.offset + rec.len <= mapped_len(w)
      <4>1. rec \in Slot /\ DeltaWithin(rec) /\ w \in Workers
        BY <3>2, LogSlots DEF Written, Sealed, DeltasWithin, WellFormed
      <4>2. rec.offset + rec.len <= mapped_len(w)
        BY <2>1, <3>2 DEF MappedEnough
      <4> QED
        BY <4>1, <4>2
    <3> HIDE DEF rec, w
    <3>4. rec.offset \in Nat /\ rec.len \in 0..1
      BY <3>3 DEF Slot
    <3>5. /\ mapped_len(w) \in Nat /\ mapped_len(w) <= Len(blobs[w]) /\ Len(blobs[w]) \in Nat
          /\ Len(mapped_blobs[w]) = mapped_len(w)
          /\ \A j \in 1..mapped_len(w) : mapped_blobs[w][j] = blobs[w][j]
      <4>1. mapped_len(w) \in Nat /\ mapped_len(w) <= blobOnDisk[w]
        BY <3>3 DEF MappedEnough
      <4>2. blobOnDisk[w] \in Nat /\ blobOnDisk[w] <= Len(blobs[w]) /\ Len(blobs[w]) \in Nat
        BY <3>3, FileTypes DEF Written
      <4>3. mapped_len(w) <= Len(blobs[w])
        BY <4>1, <4>2
      <4> QED
        BY <3>3, <4>1, <4>2, <4>3, SeenBytes
    <3>6. SameBytes(rec, mapped_blobs, blobs)
      <4>1. rec.offset + rec.len <= Len(blobs[w]) /\ rec.offset + rec.len <= Len(mapped_blobs[w])
        BY <3>3, <3>4, <3>5
      <4>2. rec.len = 1 => rec.offset + 1 \in 1..mapped_len(w)
        BY <3>3, <3>4, <3>5
      <4>3. in_range(mapped_blobs, rec) /\ in_range(blobs, rec)
        BY <3>3, <4>1 DEF in_range, w
      <4> QED
        BY <3>5, <4>2, <4>3 DEF SameBytes, w
    <3> QED
      BY <3>2, <3>3, <3>6 DEF rec
  <2> QED
    BY <2>3, <2>4
<1>6. DOMAIN index \subseteq Nat /\ DOMAIN idx2 \subseteq Nat
  BY <1>2, <1>3, <1>4, IndexNat
<1> QED
  BY <1>5, <1>6 DEF SamePast

\* However far the writer has gone on since the reader mapped the files, and
\* between that and the first lookup, crashes, failed writes and reopenings
\* included: the snapshots that were sealed when the reader opened load as they
\* do from all that the writer has written.
THEOREM ReaderAlwaysSeesSealed == SpecReaders => []ReaderSeesSealed
<1>1. Written /\ Mapped => ReaderSeesSealed
  <2> SUFFICES ASSUME Written, Mapped, reader = "indexed",
                      NEW pa \in Pas, NEW q \in Queries, q <= promised
               PROVE  load_page(index, mapped_blobs, pa, q)
                        = load_page(build_lazy_index(log), blobs, pa, q)
    BY DEF ReaderSeesSealed
  <2>1. q \in 0..MAX_SNAPSHOT_ID /\ q \in Int /\ pa \in 0..(PaLimit - 1)
    BY QueriesAssumption, SnapshotRange, Constants DEF Pas
  <2>2. /\ SamePast(pa, q, index, mapped_blobs, build_lazy_index(log), blobs)
        /\ DOMAIN index \subseteq Nat /\ DOMAIN build_lazy_index(log) \subseteq Nat
    BY <2>1, ReaderPast DEF Mapped
  <2> QED
    BY <2>1, <2>2, SameLoad
<1>2. Written => TypeOK
  BY DEF Written
<1> QED
  BY <1>1, <1>2, ReadersImplement, AlwaysWritten, MappedInit, MappedStep, PTL DEF SpecReaders

-----------------------------------------------------------------------------
(* The raw chain: what the stream has made of a part of the log.           *)

PaAt(recs, i) == pa_of(recs[i].key)

\* The log is in the order of the saves, and no version is there twice.
InSaveOrder(recs) ==
    \A i, j \in DOMAIN recs : i < j =>
        \/ SnapAt(recs, i) < SnapAt(recs, j)
        \/ SnapAt(recs, i) = SnapAt(recs, j) /\ PaAt(recs, i) < PaAt(recs, j)

\* In what follows s is a part of the log, and pages are what its records
\* resolve to.
CurrentAt(recs, s) == IF s = {} THEN 0 ELSE SnapAt(recs, Max(s))

LastPaAt(recs, s) == IF s = {} THEN 0 ELSE PaAt(recs, Max(s))

OnPage(recs, s, pa) == {i \in s : PaAt(recs, i) = pa}

ImageAtEnd(recs, pages, s) ==
    [pa \in {PaAt(recs, i) : i \in s} |-> pages[Max(OnPage(recs, s, pa))]]

SavedAt(recs, s, t) == {i \in s : SnapAt(recs, i) = t}

\* The pages of snapshot t that are in its file.
KeptAt(recs, pages, s, t) ==
    {i \in SavedAt(recs, s, t) : t # 0 \/ ~is_all_zero(pages[i])}

FileAt(recs, pages, s, t) ==
    [pa \in {PaAt(recs, i) : i \in KeptAt(recs, pages, s, t)} |->
        pages[Max(OnPage(recs, SavedAt(recs, s, t), pa))]]

SnapsAt(recs, s) == {0} \union {SnapAt(recs, i) : i \in s}

RawAt(recs, pages, s) ==
    [files   |-> [t \in {u \in SnapsAt(recs, s) : u < CurrentAt(recs, s)} |->
                     FileAt(recs, pages, s, t)],
     image   |-> ImageAtEnd(recs, pages, s),
     dirty   |-> {PaAt(recs, i) : i \in SavedAt(recs, s, CurrentAt(recs, s))},
     current |-> CurrentAt(recs, s),
     last_pa |-> LastPaAt(recs, s),
     status  |-> "streaming"]

\* The greatest of a part of the log.
LEMMA MaxIs ==
    ASSUME NEW recs \in Seq(Slot), NEW s \in SUBSET DOMAIN recs,
           NEW i \in s, \A j \in s : j <= i
    PROVE  Max(s) = i
<1>1. DOMAIN recs = 1..Len(recs) /\ Len(recs) \in Nat
  OBVIOUS
<1>2. Max(s) \in s /\ \A j \in s : j <= Max(s)
  BY <1>1, GreatestIn
<1>3. i \in Nat /\ Max(s) \in Nat /\ i <= Max(s) /\ Max(s) <= i
  BY <1>1, <1>2
<1> QED
  BY <1>3

LEMMA PasNat ==
    ASSUME NEW recs \in Seq(Slot)
    PROVE  \A i \in DOMAIN recs : PaAt(recs, i) \in Nat
  BY SnapsNat, SnapNat DEF PaAt

\* A page has one version at most in a snapshot.
LEMMA OneVersion ==
    ASSUME NEW recs \in Seq(Slot), InSaveOrder(recs), NEW i \in DOMAIN recs, NEW j \in DOMAIN recs,
           SnapAt(recs, i) = SnapAt(recs, j), PaAt(recs, i) = PaAt(recs, j)
    PROVE  i = j
<1>1. /\ i \in Nat /\ j \in Nat /\ SnapAt(recs, i) \in Nat /\ SnapAt(recs, j) \in Nat
      /\ PaAt(recs, i) \in Nat /\ PaAt(recs, j) \in Nat
  BY SnapsNat, PasNat
<1>2. ~(i < j) /\ ~(j < i)
  BY <1>1 DEF InSaveOrder
<1> QED
  BY <1>1, <1>2

LEMMA VersionAt ==
    ASSUME NEW recs \in Seq(Slot), InSaveOrder(recs), NEW s \in SUBSET DOMAIN recs, NEW i \in s
    PROVE  Max(OnPage(recs, SavedAt(recs, s, SnapAt(recs, i)), PaAt(recs, i))) = i
<1> DEFINE e == OnPage(recs, SavedAt(recs, s, SnapAt(recs, i)), PaAt(recs, i))
<1>1. e = {i}
  BY OneVersion DEF OnPage, SavedAt
<1>2. i <= i
  BY SnapsNat
<1> HIDE DEF e
<1> QED
  BY <1>1, <1>2, MaxIs DEF e

\* The page of a record of the last snapshot is the one in the image.
LEMMA NewestOnPage ==
    ASSUME NEW recs \in Seq(Slot), InSaveOrder(recs), NEW s \in SUBSET DOMAIN recs,
           NEW i \in SavedAt(recs, s, CurrentAt(recs, s))
    PROVE  Max(OnPage(recs, s, PaAt(recs, i))) = i
<1>1. DOMAIN recs = 1..Len(recs) /\ Len(recs) \in Nat
  OBVIOUS
<1>2. i \in s /\ s # {} /\ SnapAt(recs, i) = SnapAt(recs, Max(s))
  BY DEF SavedAt, CurrentAt
<1>3. Max(s) \in s /\ \A j \in s : j <= Max(s)
  BY <1>1, <1>2, GreatestIn
<1>4. ASSUME NEW j \in OnPage(recs, s, PaAt(recs, i)) PROVE j <= i
  <2>1. j \in s /\ PaAt(recs, j) = PaAt(recs, i)
    BY DEF OnPage
  <2>2. /\ SnapAt(recs, j) \in Nat /\ SnapAt(recs, i) \in Nat /\ SnapAt(recs, Max(s)) \in Nat
        /\ PaAt(recs, i) \in Nat /\ i \in Nat /\ j \in Nat /\ Max(s) \in Nat
    BY <1>2, <1>3, <2>1, SnapsNat, PasNat
  <2>3. j = Max(s) \/ j < Max(s)
    BY <1>3, <2>1, <2>2
  <2>4. SnapAt(recs, j) <= SnapAt(recs, Max(s))
    BY <1>3, <2>1, <2>2, <2>3 DEF InSaveOrder
  <2>5. ~(i < j)
    BY <1>2, <2>1, <2>2, <2>4 DEF InSaveOrder
  <2> QED
    BY <2>2, <2>5
<1>5. i \in OnPage(recs, s, PaAt(recs, i)) /\ OnPage(recs, s, PaAt(recs, i)) \in SUBSET DOMAIN recs
  BY <1>2 DEF OnPage
<1> QED
  BY <1>4, <1>5, MaxIs

\* The current snapshot is the last.
LEMMA CurrentIsLast ==
    ASSUME NEW recs \in Seq(Slot), InSaveOrder(recs), NEW s \in SUBSET DOMAIN recs
    PROVE  /\ CurrentAt(recs, s) \in SnapsAt(recs, s) /\ CurrentAt(recs, s) \in Nat
           /\ \A u \in SnapsAt(recs, s) :
                 u \in Nat /\ (u = CurrentAt(recs, s) \/ u < CurrentAt(recs, s))
<1> DEFINE c == CurrentAt(recs, s)
<1>1. DOMAIN recs = 1..Len(recs) /\ Len(recs) \in Nat
  OBVIOUS
<1>2. CASE s = {}
  BY <1>2 DEF CurrentAt, SnapsAt
<1>3. CASE s # {}
  <2>1. Max(s) \in s /\ \A i \in s : i <= Max(s)
    BY <1>1, <1>3, GreatestIn
  <2>2. c = SnapAt(recs, Max(s)) /\ c \in Nat
    BY <1>3, <2>1, SnapsNat DEF CurrentAt
  <2>3. ASSUME NEW i \in s
        PROVE  SnapAt(recs, i) \in Nat /\ (SnapAt(recs, i) = c \/ SnapAt(recs, i) < c)
    <3>1. /\ i \in Nat /\ Max(s) \in Nat /\ SnapAt(recs, i) \in Nat
          /\ (i = Max(s) \/ i < Max(s))
      BY <2>1, SnapsNat
    <3> QED
      BY <2>1, <2>2, <3>1 DEF InSaveOrder
  <2>4. 0 = c \/ 0 < c
    BY <2>2
  <2> QED
    BY <2>1, <2>2, <2>3, <2>4 DEF SnapsAt
<1> QED
  BY <1>2, <1>3

\* With the file of the last snapshot the chain has a file for every snapshot.
LEMMA FlushedAt ==
    ASSUME NEW recs \in Seq(Slot), InSaveOrder(recs), NEW pages, NEW s \in SUBSET DOMAIN recs
    PROVE  flush_snapshot(RawAt(recs, pages, s))
              = [t \in SnapsAt(recs, s) |-> FileAt(recs, pages, s, t)]
<1> DEFINE raw == RawAt(recs, pages, s)
           c == CurrentAt(recs, s)
<1>1. /\ raw.files = [t \in {u \in SnapsAt(recs, s) : u < c} |-> FileAt(recs, pages, s, t)]
      /\ raw.image = ImageAtEnd(recs, pages, s) /\ raw.current = c
      /\ raw.dirty = {PaAt(recs, i) : i \in SavedAt(recs, s, c)}
  BY DEF RawAt
<1>2. c \in SnapsAt(recs, s) /\ \A u \in SnapsAt(recs, s) : u = c \/ u < c
  BY CurrentIsLast
<1>3. \A i \in SavedAt(recs, s, c) :
         /\ PaAt(recs, i) \in DOMAIN raw.image /\ raw.image[PaAt(recs, i)] = pages[i]
         /\ Max(OnPage(recs, SavedAt(recs, s, c), PaAt(recs, i))) = i
  BY <1>1, NewestOnPage, VersionAt DEF ImageAtEnd, SavedAt
<1>4. written_pages(raw) = {PaAt(recs, i) : i \in KeptAt(recs, pages, s, c)}
  BY <1>1, <1>3 DEF written_pages, KeptAt
<1>5. [pa \in written_pages(raw) |-> raw.image[pa]] = FileAt(recs, pages, s, c)
  <2>1. \A i \in KeptAt(recs, pages, s, c) :
           raw.image[PaAt(recs, i)] = pages[Max(OnPage(recs, SavedAt(recs, s, c), PaAt(recs, i)))]
    BY <1>3 DEF KeptAt
  <2> QED
    BY <1>4, <2>1 DEF FileAt
<1> HIDE DEF raw
<1>6. DOMAIN raw.files \union {c} = SnapsAt(recs, s)
  <2>1. DOMAIN raw.files = {u \in SnapsAt(recs, s) : u < c}
    BY <1>1
  <2> QED
    BY <1>2, <2>1
<1>7. \A t \in SnapsAt(recs, s) : t # c => raw.files[t] = FileAt(recs, pages, s, t)
  BY <1>1, <1>2
<1> QED
  BY <1>1, <1>5, <1>6, <1>7 DEF flush_snapshot, raw

IsStreaming(raw) ==
    raw = [files |-> raw.files, image |-> raw.image, dirty |-> raw.dirty,
           current |-> raw.current, last_pa |-> raw.last_pa, status |-> "streaming"]

\* A record that resolves goes into the image and the file of its snapshot.
Streamed(raw, rec, page) ==
    [files   |-> IF snapshot_of(rec.key) = raw.current THEN raw.files ELSE flush_snapshot(raw),
     image   |-> [p \in DOMAIN raw.image \union {pa_of(rec.key)} |->
                     IF p = pa_of(rec.key) THEN page ELSE raw.image[p]],
     dirty   |-> (IF snapshot_of(rec.key) = raw.current THEN raw.dirty ELSE {})
                    \union {pa_of(rec.key)},
     current |-> snapshot_of(rec.key),
     last_pa |-> pa_of(rec.key),
     status  |-> "streaming"]

LEMMA StreamIs ==
    ASSUME NEW raw, IsStreaming(raw), NEW rec, ~out_of_order(raw, rec),
           NEW page, NEW ans, ans # Error, ans[2] = page
    PROVE  stream(raw, rec, ans) = Streamed(raw, rec, page)
<1> DEFINE files == raw.files
           image == raw.image
           dirty == raw.dirty
           current == raw.current
           last_pa == raw.last_pa
<1>0. raw = [files |-> files, image |-> image, dirty |-> dirty, current |-> current,
             last_pa |-> last_pa, status |-> "streaming"]
  BY DEF IsStreaming
<1> HIDE DEF files, image, dirty, current, last_pa
<1> DEFINE in == [files |-> IF snapshot_of(rec.key) = current THEN files ELSE flush_snapshot(raw),
                  image |-> image,
                  dirty |-> IF snapshot_of(rec.key) = current THEN dirty ELSE {},
                  current |-> snapshot_of(rec.key), last_pa |-> pa_of(rec.key),
                  status |-> "streaming"]
<1>1. stream(raw, rec, ans) = put_page(enter(raw, rec), pa_of(rec.key), page)
  BY <1>0 DEF stream, apply_record
<1>2. enter(raw, rec) = in
  <2>1. CASE snapshot_of(rec.key) = current
    <3>1. enter(raw, rec) = [raw EXCEPT !.last_pa = pa_of(rec.key)]
      BY <1>0, <2>1 DEF enter
    <3> QED
      BY <1>0, <2>1, <3>1
  <2>2. CASE snapshot_of(rec.key) # current
    <3> DEFINE flushed == flush_snapshot(raw)
    <3>1. enter(raw, rec) = [raw EXCEPT !.files = flushed, !.dirty = {},
                                        !.current = snapshot_of(rec.key), !.last_pa = pa_of(rec.key)]
      BY <1>0, <2>2 DEF enter
    <3> HIDE DEF flushed
    <3>2. enter(raw, rec) = [files |-> flushed, image |-> image, dirty |-> {},
                             current |-> snapshot_of(rec.key), last_pa |-> pa_of(rec.key),
                             status |-> "streaming"]
      BY <1>0, <3>1
    <3> QED
      BY <2>2, <3>2 DEF flushed
  <2> QED
    BY <2>1, <2>2
<1>3. /\ in.files = IF snapshot_of(rec.key) = current THEN files ELSE flush_snapshot(raw)
      /\ in.image = image /\ in.dirty = IF snapshot_of(rec.key) = current THEN dirty ELSE {}
      /\ in.current = snapshot_of(rec.key) /\ in.last_pa = pa_of(rec.key)
      /\ in.status = "streaming"
      /\ in = [files |-> in.files, image |-> in.image, dirty |-> in.dirty, current |-> in.current,
               last_pa |-> in.last_pa, status |-> in.status]
  OBVIOUS
<1> HIDE DEF in
<1>4. put_page(in, pa_of(rec.key), page) =
         [files   |-> in.files,
          image   |-> [p \in DOMAIN in.image \union {pa_of(rec.key)} |->
                          IF p = pa_of(rec.key) THEN page ELSE in.image[p]],
          dirty   |-> in.dirty \union {pa_of(rec.key)},
          current |-> in.current, last_pa |-> in.last_pa, status |-> in.status]
  <2> DEFINE newImage == [p \in DOMAIN in.image \union {pa_of(rec.key)} |->
                        IF p = pa_of(rec.key) THEN page ELSE in.image[p]]
             touched == in.dirty \union {pa_of(rec.key)}
  <2>1. put_page(in, pa_of(rec.key), page) = [in EXCEPT !.dirty = touched, !.image = newImage]
    BY <1>3 DEF put_page
  <2> HIDE DEF newImage, touched
  <2>2. [in EXCEPT !.dirty = touched, !.image = newImage]
           = [files |-> in.files, image |-> newImage, dirty |-> touched, current |-> in.current,
              last_pa |-> in.last_pa, status |-> in.status]
    <3> DEFINE fs == in.files
               cu == in.current
               la == in.last_pa
               im == in.image
               di == in.dirty
    <3>1. in = [files |-> fs, image |-> im, dirty |-> di, current |-> cu, last_pa |-> la,
                status |-> "streaming"]
      BY <1>3
    <3> HIDE DEF fs, cu, la, im, di
    <3> DEFINE first == [in EXCEPT !.dirty = touched]
    <3>3. first = [files |-> fs, image |-> im, dirty |-> touched, current |-> cu, last_pa |-> la,
                   status |-> "streaming"]
      BY <3>1
    <3>4. [in EXCEPT !.dirty = touched, !.image = newImage] = [first EXCEPT !.image = newImage]
      BY <3>1, <3>3
    <3> HIDE DEF first
    <3>5. [first EXCEPT !.image = newImage]
             = [files |-> fs, image |-> newImage, dirty |-> touched, current |-> cu, last_pa |-> la,
                status |-> "streaming"]
      BY <3>3
    <3>2. [in EXCEPT !.dirty = touched, !.image = newImage]
             = [files |-> fs, image |-> newImage, dirty |-> touched, current |-> cu, last_pa |-> la,
                status |-> "streaming"]
      BY <3>4, <3>5
    <3> QED
      BY <1>3, <3>2 DEF fs, cu, la
  <2> QED
    BY <2>1, <2>2 DEF newImage, touched
<1> QED
  BY <1>1, <1>2, <1>3, <1>4 DEF Streamed, files, image, dirty, current

\* One record more of the log, and the stream is one record further.
LEMMA RawNext ==
    ASSUME NEW recs \in Seq(Slot), InSaveOrder(recs), NEW pages,
           NEW t \in SUBSET DOMAIN recs, NEW x \in DOMAIN recs, \A i \in t : i < x,
           NEW s, s = t \union {x}, NEW ans, ans # Error, ans[2] = pages[x]
    PROVE  stream(RawAt(recs, pages, t), recs[x], ans) = RawAt(recs, pages, s)
<1> DEFINE c == CurrentAt(recs, t)
           y == SnapAt(recs, x)
           pa == PaAt(recs, x)
           raw == RawAt(recs, pages, t)
<1>1. /\ s \in SUBSET DOMAIN recs /\ x \in s /\ x \in Nat /\ y \in Nat /\ pa \in Nat
      /\ \A i \in s : i \in Nat /\ SnapAt(recs, i) \in Nat /\ PaAt(recs, i) \in Nat
  BY SnapsNat, PasNat
<1>2. Max(s) = x
  <2>1. \A i \in s : i <= x
    BY <1>1
  <2> QED
    BY <1>1, <2>1, MaxIs
<1>3. CurrentAt(recs, s) = y /\ LastPaAt(recs, s) = pa
  BY <1>1, <1>2 DEF CurrentAt, LastPaAt
<1>4. /\ c \in SnapsAt(recs, t) /\ c \in Nat
      /\ \A u \in SnapsAt(recs, t) : u \in Nat /\ (u = c \/ u < c)
  BY CurrentIsLast
<1>5. /\ c <= y /\ (y = c => LastPaAt(recs, t) <= pa)
  <2>1. CASE t = {}
    BY <1>1, <2>1 DEF CurrentAt, LastPaAt
  <2>2. CASE t # {}
    <3>1. DOMAIN recs = 1..Len(recs) /\ Len(recs) \in Nat
      OBVIOUS
    <3>2. Max(t) \in t
      BY <2>2, <3>1, GreatestIn
    <3>3. c = SnapAt(recs, Max(t)) /\ LastPaAt(recs, t) = PaAt(recs, Max(t)) /\ Max(t) < x
      BY <2>2, <3>2 DEF CurrentAt, LastPaAt
    <3>4. PaAt(recs, Max(t)) \in Nat
      BY <3>2, PasNat
    <3>5. c < y \/ (c = y /\ PaAt(recs, Max(t)) < pa)
      BY <3>2, <3>3 DEF InSaveOrder
    <3> QED
      BY <1>1, <1>4, <3>3, <3>4, <3>5
  <2> QED
    BY <2>1, <2>2
<1>6. LastPaAt(recs, t) \in Nat
  <2>1. DOMAIN recs = 1..Len(recs) /\ Len(recs) \in Nat
    OBVIOUS
  <2>2. t # {} => Max(t) \in t
    BY <2>1, GreatestIn
  <2> QED
    BY <2>2, PasNat DEF LastPaAt
<1>7. ~out_of_order(raw, recs[x])
  <2>1. raw.current = c /\ raw.last_pa = LastPaAt(recs, t)
    BY DEF RawAt
  <2>2. snapshot_of(recs[x].key) = y /\ pa_of(recs[x].key) = pa
    BY DEF SnapAt, PaAt
  <2> HIDE DEF c, y, pa, raw
  <2> QED
    BY <1>1, <1>4, <1>5, <1>6, <2>1, <2>2 DEF out_of_order
<1>8. stream(raw, recs[x], ans) =
         [files   |-> IF y = c THEN raw.files ELSE flush_snapshot(raw),
          image   |-> [p \in DOMAIN raw.image \union {pa} |->
                          IF p = pa THEN pages[x] ELSE raw.image[p]],
          dirty   |-> (IF y = c THEN raw.dirty ELSE {}) \union {pa},
          current |-> y, last_pa |-> pa, status |-> "streaming"]
  <2>1. /\ raw.current = c
        /\ raw = [files |-> raw.files, image |-> raw.image, dirty |-> raw.dirty,
                  current |-> raw.current, last_pa |-> raw.last_pa, status |-> "streaming"]
        /\ snapshot_of(recs[x].key) = y /\ pa_of(recs[x].key) = pa
    BY DEF RawAt, SnapAt, PaAt
  <2> HIDE DEF c, y, pa, raw
  <2>2. IsStreaming(raw)
    BY <2>1 DEF IsStreaming
  <2>3. stream(raw, recs[x], ans) = Streamed(raw, recs[x], pages[x])
    BY <1>7, <2>2, StreamIs
  <2> QED
    BY <2>1, <2>3 DEF Streamed
<1>9. /\ raw.files = [u \in {v \in SnapsAt(recs, t) : v < c} |-> FileAt(recs, pages, t, u)]
      /\ raw.image = ImageAtEnd(recs, pages, t)
      /\ raw.dirty = {PaAt(recs, i) : i \in SavedAt(recs, t, c)}
  BY DEF RawAt
<1>10. [p \in DOMAIN raw.image \union {pa} |-> IF p = pa THEN pages[x] ELSE raw.image[p]]
         = ImageAtEnd(recs, pages, s)
  <2>1. DOMAIN raw.image = {PaAt(recs, i) : i \in t}
    BY <1>9 DEF ImageAtEnd
  <2>2. DOMAIN raw.image \union {pa} = {PaAt(recs, i) : i \in s}
    BY <2>1
  <2>3. Max(OnPage(recs, s, pa)) = x
    <3>1. /\ OnPage(recs, s, pa) \in SUBSET DOMAIN recs /\ x \in OnPage(recs, s, pa)
          /\ \A i \in OnPage(recs, s, pa) : i <= x
      BY <1>1 DEF OnPage
    <3> QED
      BY <3>1, MaxIs
  <2>4. \A p \in DOMAIN raw.image : p # pa => OnPage(recs, s, p) = OnPage(recs, t, p)
    BY DEF OnPage
  <2>5. \A p \in DOMAIN raw.image : raw.image[p] = pages[Max(OnPage(recs, t, p))]
    BY <1>9 DEF ImageAtEnd
  <2> HIDE DEF pa, raw
  <2> QED
    BY <2>2, <2>3, <2>4, <2>5 DEF ImageAtEnd
<1>11. \A u : u # y => SavedAt(recs, s, u) = SavedAt(recs, t, u)
  BY DEF SavedAt
<1>12. ASSUME NEW u, u # y PROVE FileAt(recs, pages, s, u) = FileAt(recs, pages, t, u)
  <2>1. SavedAt(recs, s, u) = SavedAt(recs, t, u)
    BY <1>11, <1>12
  <2>2. KeptAt(recs, pages, s, u) = KeptAt(recs, pages, t, u)
    BY <2>1 DEF KeptAt
  <2> QED
    BY <2>1, <2>2 DEF FileAt
<1>13. SavedAt(recs, s, y) = SavedAt(recs, t, y) \union {x}
  BY DEF SavedAt
<1>14. SnapsAt(recs, s) = SnapsAt(recs, t) \union {y}
  BY DEF SnapsAt
<1>15. (IF y = c THEN raw.dirty ELSE {}) \union {pa} = {PaAt(recs, i) : i \in SavedAt(recs, s, y)}
  <2>1. CASE y = c
    <3>1. raw.dirty = {PaAt(recs, i) : i \in SavedAt(recs, t, y)}
      BY <1>9, <2>1
    <3>2. {PaAt(recs, i) : i \in SavedAt(recs, s, y)}
             = {PaAt(recs, i) : i \in SavedAt(recs, t, y)} \union {pa}
      BY <1>13
    <3> HIDE DEF raw, c, y, pa
    <3> QED
      BY <2>1, <3>1, <3>2
  <2>2. CASE y # c
    <3>1. SavedAt(recs, t, y) = {}
      <4> SUFFICES ASSUME NEW i \in SavedAt(recs, t, y) PROVE FALSE
        OBVIOUS
      <4>1. y \in SnapsAt(recs, t)
        BY DEF SavedAt, SnapsAt
      <4> HIDE DEF y, c
      <4> QED
        BY <1>1, <1>4, <1>5, <2>2, <4>1
    <3> QED
      BY <1>13, <2>2, <3>1
  <2> QED
    BY <2>1, <2>2
<1>16. (IF y = c THEN raw.files ELSE flush_snapshot(raw))
          = [u \in {v \in SnapsAt(recs, s) : v < y} |-> FileAt(recs, pages, s, u)]
  <2>1. CASE y = c
    <3>1. {v \in SnapsAt(recs, s) : v < y} = {v \in SnapsAt(recs, t) : v < c}
      BY <1>4, <1>14, <2>1
    <3>2. \A v \in {v \in SnapsAt(recs, t) : v < c} : v # y
      BY <1>4, <2>1
    <3> HIDE DEF y, c, raw
    <3> QED
      BY <1>9, <1>12, <2>1, <3>1, <3>2
  <2>2. CASE y # c
    <3>1. {v \in SnapsAt(recs, s) : v < y} = SnapsAt(recs, t)
      <4> HIDE DEF y, c
      <4>1. ~(y < y)
        BY <1>1
      <4>2. \A v \in SnapsAt(recs, t) : v < y
        BY <1>1, <1>4, <1>5, <2>2
      <4> QED
        BY <1>14, <4>1, <4>2
    <3>2. \A v \in SnapsAt(recs, t) : v # y
      <4> HIDE DEF y, c
      <4> QED
        BY <1>1, <1>4, <1>5, <2>2
    <3>3. flush_snapshot(raw) = [u \in SnapsAt(recs, t) |-> FileAt(recs, pages, t, u)]
      BY FlushedAt
    <3> HIDE DEF y, c, raw
    <3> QED
      BY <1>12, <2>2, <3>1, <3>2, <3>3
  <2> QED
    BY <2>1, <2>2
<1>17. RawAt(recs, pages, s) =
         [files   |-> [u \in {v \in SnapsAt(recs, s) : v < y} |-> FileAt(recs, pages, s, u)],
          image   |-> ImageAtEnd(recs, pages, s),
          dirty   |-> {PaAt(recs, i) : i \in SavedAt(recs, s, y)},
          current |-> y, last_pa |-> pa, status |-> "streaming"]
  BY <1>3 DEF RawAt
<1> HIDE DEF y, c, pa, raw
<1> QED
  BY <1>8, <1>10, <1>15, <1>16, <1>17 DEF raw

-----------------------------------------------------------------------------
(* The conversion as a whole.                                              *)

\* One record more of the stream, from what f says that it has made of the part
\* of the log before the last record of s.
StreamFrom(recs, idx, files, f) ==
    [s \in SUBSET DOMAIN recs |->
        IF s = {} THEN StartRaw
        ELSE stream(f[s \ {Max(s)}], recs[Max(s)], resolve_uncached(idx, files, recs[Max(s)]))]

StreamedLog(recs, idx, files) ==
    FoldLeft(LAMBDA raw, rec : stream(raw, rec, resolve_uncached(idx, files, rec)), StartRaw, recs)

\* The stream is a solution of its recursive definition, at the whole log.
LEMMA StreamFolds ==
    ASSUME NEW recs, NEW idx, NEW files
    PROVE  StreamedLog(recs, idx, files)
              = (CHOOSE f : f = StreamFrom(recs, idx, files, f))[DOMAIN recs]
  BY DEF StreamedLog, FoldLeft, MapThenFoldSet, StreamFrom

LEMMA StreamsAgree ==
    ASSUME NEW recs \in Seq(Slot), NEW idx, NEW files, NEW f, NEW g,
           f = StreamFrom(recs, idx, files, f), g = StreamFrom(recs, idx, files, g)
    PROVE  f[DOMAIN recs] = g[DOMAIN recs]
<1>1. DOMAIN recs = 1..Len(recs) /\ Len(recs) \in Nat
  OBVIOUS
<1>2. f[{}] = g[{}]
  BY DEF StreamFrom
<1>3. ASSUME NEW m \in 1..Len(recs), f[1..(m - 1)] = g[1..(m - 1)] PROVE f[1..m] = g[1..m]
  <2>1. /\ 1..m \in SUBSET DOMAIN recs /\ 1..m # {} /\ Max(1..m) = m
        /\ (1..m) \ {m} = 1..(m - 1)
    BY <1>1, LastOfBeginning
  <2>2. /\ f[1..m] = stream(f[(1..m) \ {Max(1..m)}], recs[Max(1..m)],
                            resolve_uncached(idx, files, recs[Max(1..m)]))
        /\ g[1..m] = stream(g[(1..m) \ {Max(1..m)}], recs[Max(1..m)],
                            resolve_uncached(idx, files, recs[Max(1..m)]))
    BY <2>1 DEF StreamFrom
  <2> QED
    BY <1>3, <2>1, <2>2
<1> QED
  BY <1>1, <1>2, <1>3, BeginningsAgree

\* Record i resolves to pages[i].
ResolveTo(recs, idx, files, pages) ==
    \A i \in DOMAIN recs : /\ resolve_uncached(idx, files, recs[i]) # Error
                           /\ resolve_uncached(idx, files, recs[i])[2] = pages[i]

RawTable(recs, pages) == [s \in SUBSET DOMAIN recs |-> RawAt(recs, pages, s)]

\* What the stream has made of each part of the log is a solution.
LEMMA RawSolves ==
    ASSUME NEW recs \in Seq(Slot), InSaveOrder(recs), NEW idx, NEW files, NEW pages,
           ResolveTo(recs, idx, files, pages)
    PROVE  RawTable(recs, pages) = StreamFrom(recs, idx, files, RawTable(recs, pages))
<1> DEFINE g == RawTable(recs, pages)
<1>1. DOMAIN recs = 1..Len(recs) /\ Len(recs) \in Nat
  OBVIOUS
<1>2. RawAt(recs, pages, {}) = StartRaw
  <2>1. CurrentAt(recs, {}) = 0 /\ LastPaAt(recs, {}) = 0 /\ SavedAt(recs, {}, 0) = {}
    BY DEF CurrentAt, LastPaAt, SavedAt
  <2>2. {u \in SnapsAt(recs, {}) : u < 0} = {}
    BY DEF SnapsAt
  <2> QED
    BY <2>1, <2>2 DEF RawAt, StartRaw, ImageAtEnd, NoChain
<1>3. ASSUME NEW s \in SUBSET DOMAIN recs
      PROVE  g[s] = IF s = {} THEN StartRaw
                    ELSE stream(g[s \ {Max(s)}], recs[Max(s)],
                                resolve_uncached(idx, files, recs[Max(s)]))
  <2>1. CASE s = {}
    BY <1>2, <2>1 DEF RawTable
  <2>2. CASE s # {}
    <3> DEFINE x == Max(s)
               t == s \ {x}
    <3>1. x \in s /\ \A i \in s : i <= x
      BY <1>1, <2>2, GreatestIn
    <3>2. t \in SUBSET DOMAIN recs /\ x \in DOMAIN recs /\ s = t \union {x}
      BY <3>1
    <3>3. \A i \in t : i < x
      BY <1>1, <3>1, <3>2
    <3>4. g[s] = RawAt(recs, pages, s) /\ g[t] = RawAt(recs, pages, t)
      BY <3>2 DEF RawTable
    <3> HIDE DEF x, t
    <3>5. /\ resolve_uncached(idx, files, recs[x]) # Error
          /\ resolve_uncached(idx, files, recs[x])[2] = pages[x]
      BY <3>2 DEF ResolveTo
    <3>6. stream(RawAt(recs, pages, t), recs[x], resolve_uncached(idx, files, recs[x]))
            = RawAt(recs, pages, s)
      BY <3>2, <3>3, <3>5, RawNext
    <3> QED
      BY <2>2, <3>4, <3>6 DEF x, t
  <2> QED
    BY <2>1, <2>2
<1>4. g = [s \in SUBSET DOMAIN recs |-> g[s]]
  BY DEF RawTable
<1> HIDE DEF g
<1>5. g = StreamFrom(recs, idx, files, g)
  BY <1>3, <1>4 DEF StreamFrom
<1> QED
  BY <1>5 DEF g

ChainOf(recs, pages) ==
    [status |-> "done",
     files  |-> [t \in SnapsAt(recs, DOMAIN recs) |-> FileAt(recs, pages, DOMAIN recs, t)],
     max    |-> CurrentAt(recs, DOMAIN recs)]

\* A log in the order of the saves of which every record resolves is converted as
\* a whole, into one file for each of its snapshots.
LEMMA Converts ==
    ASSUME NEW recs \in Seq(Slot), InSaveOrder(recs), NEW idx, NEW files, NEW pages,
           ResolveTo(recs, idx, files, pages)
    PROVE  convert_to_raw(recs, idx, files) = ChainOf(recs, pages)
<1> DEFINE g == RawTable(recs, pages)
           f == CHOOSE h : h = StreamFrom(recs, idx, files, h)
           last == StreamedLog(recs, idx, files)
<1>1. g = StreamFrom(recs, idx, files, g)
  BY RawSolves
<1>2. g[DOMAIN recs] = RawAt(recs, pages, DOMAIN recs)
  BY DEF RawTable
<1> HIDE DEF g
<1>3. f = StreamFrom(recs, idx, files, f)
  BY <1>1
<1>4. last = f[DOMAIN recs]
  BY StreamFolds
<1> HIDE DEF f
<1>5. last = RawAt(recs, pages, DOMAIN recs)
  BY <1>1, <1>2, <1>3, <1>4, StreamsAgree
<1>6. convert_to_raw(recs, idx, files) =
         CASE last.status = "panicked"  -> [status |-> "panicked", files |-> last.files, max |-> 0]
           [] last.status = "truncated" ->
                 [status |-> "truncated", files |-> last.files,
                  max |-> IF last.current = 0 THEN 0 ELSE last.current - 1]
           [] last.status = "streaming" ->
                 [status |-> "done", files |-> flush_snapshot(last), max |-> last.current]
  BY DEF convert_to_raw, StreamedLog
<1> HIDE DEF last
<1>7. last.status = "streaming" /\ last.current = CurrentAt(recs, DOMAIN recs)
  BY <1>5 DEF RawAt
<1>8. flush_snapshot(last)
         = [t \in SnapsAt(recs, DOMAIN recs) |-> FileAt(recs, pages, DOMAIN recs, t)]
  BY <1>5, FlushedAt
<1>9. convert_to_raw(recs, idx, files)
         = [status |-> "done", files |-> flush_snapshot(last), max |-> last.current]
  BY <1>6, <1>7
<1> QED
  BY <1>7, <1>8, <1>9 DEF ChainOf

-----------------------------------------------------------------------------
(* The records of a database without faults.                              *)

\* Every record of the log resolves to some page.
RecordsHold ==
    FaultFree => \A i \in 1..Len(log) : \E page \in Page : Holds(log, blobs, log[i], page)

LEMMA RecordsInit == Init => RecordsHold
  BY DEF Init, RecordsHold

\* Without faults the worker files only grow, and the log by the records of the
\* save in progress.
LEMMA OnlyGrow ==
    ASSUME TypeOK, Placed, Slotted, Based, [Next]_vars, FaultFree'
    PROVE  /\ FilesExtend(blobs, blobs')
           /\ log' = log \/ \E spill \in SpillChoices : WriteRecord(spill)
<1> USE DEF diskVars, configVars, handleVars, groupVars, callVars, resultVars, countVars
<1>0. Call \/ Step \/ UNCHANGED vars
  BY FaultsCounted
<1>1. CASE Call
  <2>1. UNCHANGED <<log, blobs>>
    BY <1>1
    DEF Call, Open, SaveBadLength, SaveNothing, BeginSaveAll, BeginSaveBitmap, BeginSave, BeginFlush
  <2> QED
    BY <2>1, FilesSame
<1>2. ASSUME NEW g \in Groups, NEW spill \in SpillChoices, EmitDelta(g, spill) \/ EmitFull(g, spill)
      PROVE  FilesExtend(blobs, blobs') /\ log' = log
  <2>1. log' = log
    BY <1>2 DEF EmitDelta, EmitFull
  <2>2. PICK w \in Workers, blob \in Blob : append_blob(g, w, blob, spill)
    BY <1>2, Appends
  <2> QED
    BY <2>1, <2>2, AppendExtends
<1>3. ASSUME NEW g \in Groups, NEW pa \in Pas, EmitZero(g, pa) \/ LockBlob(g, pa)
      PROVE  UNCHANGED <<log, blobs>>
  BY <1>3 DEF EmitZero, LockBlob
<1>4. ASSUME PassDone \/ PassFail \/ SeekHeader \/ UpdateHeader \/ FlushBlob \/ EndFlush \/ Close
      PROVE  UNCHANGED <<log, blobs>>
  BY <1>4 DEF PassDone, PassFail, SeekHeader, UpdateHeader, FlushBlob, EndFlush, Close
<1>5. ASSUME NEW spill \in SpillChoices, WriteRecord(spill) PROVE UNCHANGED blobs
  BY <1>5 DEF WriteRecord
<1>6. CASE UNCHANGED vars
  <2>1. UNCHANGED <<log, blobs>>
    BY <1>6 DEF vars
  <2> QED
    BY <2>1, FilesSame
<1> QED
  BY <1>0, <1>1, <1>2, <1>3, <1>4, <1>5, <1>6, FilesSame DEF Step

LEMMA RecordsStep ==
    ASSUME TypeOK, Placed, Slotted, Based, Exact, RecordsHold, [Next]_vars
    PROVE  RecordsHold'
<1>1. RecordsHold' <=> (FaultFree' => \A i \in 1..Len(log') :
                           \E page \in Page : Holds(log', blobs', log'[i], page))
  BY DEF RecordsHold, FaultFree, Holds, ImageAt, HoldsFull, HoldsPatch, compute_xor_patch, Xor,
         ZeroPage, Page, Word
<1> SUFFICES ASSUME FaultFree', NEW i \in 1..Len(log')
             PROVE  \E page \in Page : Holds(log', blobs', log'[i], page)
  BY <1>1
<1>2. FaultFree /\ log \in Seq(Slot)
  BY FaultsCounted, FileTypes
<1>3. FilesExtend(blobs, blobs')
  BY OnlyGrow
<1>4. ASSUME log' \in Seq(Slot), LogExtends(log, log'), i \in 1..Len(log)
      PROVE  \E page \in Page : Holds(log', blobs', log'[i], page)
  <2>1. PICK page \in Page : Holds(log, blobs, log[i], page)
    BY <1>2, <1>4 DEF RecordsHold
  <2>2. log'[i] = log[i] /\ log[i] \in Slot
    BY <1>2, <1>4 DEF LogExtends
  <2>3. Holds(log', blobs', log[i], page)
    BY <1>2, <1>3, <1>4, <2>1, <2>2, HoldsStays
  <2> QED
    BY <2>2, <2>3
<1>5. CASE log' = log
  <2>1. log' \in Seq(Slot) /\ LogExtends(log, log') /\ i \in 1..Len(log)
    BY <1>2, <1>5 DEF LogExtends
  <2> QED
    BY <1>4, <2>1
<1>6. ASSUME NEW spill, WriteRecord(spill)
      PROVE  \E page \in Page : Holds(log', blobs', log'[i], page)
  <2> DEFINE rec == records_buf[next]
  <2>1. /\ pc = "write" /\ next < total_dirty /\ log' = Append(log, rec) /\ UNCHANGED blobs
        /\ Saving
    BY <1>6 DEF WriteRecord, Saving
  <2>2. rec \in Slot /\ DOMAIN memory \in SUBSET Pas /\ next \in Nat /\ total_dirty \in Nat
    BY <2>1, NextSlot, BelowFinite DEF TypeOK, total_dirty
  <2>3. PICK pa \in DOMAIN memory : Rank(DOMAIN memory, pa) = next
    BY <2>1, <2>2, RankOnto DEF total_dirty
  <2>4. Done(pa) /\ Rec(pa) = rec /\ memory[pa] \in Page
    <3>1. memory[pa] \in Page
      BY <2>3 DEF TypeOK
    <3>2. Done(pa)
      BY <2>1, <2>2, <2>3, GroupOf DEF Slotted, Done
    <3> QED
      BY <2>3, <3>1, <3>2 DEF Rec
  <2> HIDE DEF rec
  <2>5. /\ log' \in Seq(Slot) /\ Len(log') = Len(log) + 1 /\ log'[Len(log) + 1] = rec
        /\ LogExtends(log, log') /\ Len(log) \in Nat
    <3>1. Len(log) \in Nat /\ Len(log') = Len(log) + 1 /\ log'[Len(log) + 1] = rec
      BY <1>2, <2>1, <2>2
    <3>2. log' \in Seq(Slot) /\ \A j \in 1..Len(log) : log'[j] = log[j]
      BY <1>2, <2>1, <2>2
    <3> QED
      BY <3>1, <3>2 DEF LogExtends
  <2>6. CASE i = Len(log) + 1
    <3>1. Holds(log, blobs, rec, memory[pa])
      BY <1>2, <2>1, <2>3, <2>4 DEF Exact, SavedHolds
    <3>2. Holds(log', blobs', rec, memory[pa])
      BY <1>2, <1>3, <2>2, <2>5, <3>1, HoldsStays
    <3> QED
      BY <2>4, <2>5, <2>6, <3>2
  <2>7. CASE i # Len(log) + 1
    <3>1. i \in 1..Len(log)
      BY <2>5, <2>7
    <3> QED
      BY <1>4, <2>5, <3>1
  <2> QED
    BY <2>6, <2>7
<1> QED
  BY <1>5, <1>6, OnlyGrow

-----------------------------------------------------------------------------
(* What the loader of the chain finds.                                    *)

LEMMA MissingIsZero == Missing[2] = ZeroPage
  BY DEF Missing

\* The loader of the chain finds the page that the search in the index finds.
LEMMA ChainLoads ==
    ASSUME NEW recs \in Seq(Slot), InSaveOrder(recs), NEW files, NEW pages,
           \A i \in DOMAIN recs :
              resolve_uncached(build_lazy_index(recs), files, recs[i]) = Ok(pages[i]),
           \A i \in DOMAIN recs : pages[i] \in Page,
           NEW pa \in 0..(PaLimit - 1), NEW q \in 0..MAX_SNAPSHOT_ID
    PROVE  load_raw(ChainOf(recs, pages).files, pa, q)
              = load_page(build_lazy_index(recs), files, pa, q)[2]
<1> DEFINE d       == DOMAIN recs
           idx     == build_lazy_index(recs)
           chain   == ChainOf(recs, pages).files
           holders == {s \in DOMAIN chain : s <= q /\ pa \in DOMAIN chain[s]}
           newest  == LatestOf(recs, pa, q, d)
<1>1. chain = [t \in SnapsAt(recs, d) |-> FileAt(recs, pages, d, t)]
  BY DEF ChainOf
<1>2. load_raw(chain, pa, q) =
         IF holders = {} THEN ZeroPage
         ELSE chain[CHOOSE s \in holders : \A t \in holders : t <= s][pa]
  BY DEF load_raw
<1>3. load_page(idx, files, pa, q) = resolve(idx, files, {recs[i] : i \in newest})
  BY FloorFinds DEF load_page, FoundIn
<1> HIDE DEF chain
<1>4. \A s : pa \in DOMAIN FileAt(recs, pages, d, s) <=>
                \E i \in KeptAt(recs, pages, d, s) : PaAt(recs, i) = pa
  BY DEF FileAt
<1>5. \A s : s \in holders <=>
                /\ s \in SnapsAt(recs, d) /\ s <= q
                /\ \E i \in KeptAt(recs, pages, d, s) : PaAt(recs, i) = pa
  BY <1>1, <1>4
<1>6. \A i \in d : /\ i \in Nat /\ SnapAt(recs, i) \in Nat
                   /\ (Past(pa, q, recs[i].key) <=> PaAt(recs, i) = pa /\ SnapAt(recs, i) <= q)
  BY SnapsNat DEF Past, PaAt, SnapAt
<1>7. ASSUME NEW s \in holders
      PROVE  \E i \in d : /\ PaAt(recs, i) = pa /\ SnapAt(recs, i) = s /\ SnapAt(recs, i) <= q
                          /\ (s # 0 \/ ~is_all_zero(pages[i]))
  BY <1>5, <1>7 DEF KeptAt, SavedAt
<1> HIDE DEF holders
<1>8. CASE newest = {}
  <2>1. \A i \in d : ~Past(pa, q, recs[i].key)
    BY <1>8, LatestExists, SnapshotRange
  <2>2. holders = {}
    BY <1>6, <1>7, <2>1
  <2>3. load_page(idx, files, pa, q) = Missing
    BY <1>3, <1>8 DEF resolve
  <2> QED
    BY <1>2, <2>2, <2>3, MissingIsZero DEF chain, idx
<1>9. ASSUME NEW i \in newest
      PROVE  load_raw(chain, pa, q) = load_page(idx, files, pa, q)[2]
  <2>1. newest = {i}
    BY <1>9, LatestUnique
  <2>2. /\ i \in d /\ PaAt(recs, i) = pa /\ SnapAt(recs, i) <= q
        /\ \A j \in d : PaAt(recs, j) = pa /\ SnapAt(recs, j) <= q =>
              SnapAt(recs, j) <= SnapAt(recs, i)
    <3>1. i \in d /\ Past(pa, q, recs[i].key)
      BY <1>9 DEF LatestOf
    <3>2. \A j \in d : Past(pa, q, recs[j].key) =>
             SnapAt(recs, j) < SnapAt(recs, i) \/ SnapAt(recs, j) = SnapAt(recs, i)
      BY <1>9 DEF LatestOf
    <3>3. \A j \in d : Past(pa, q, recs[j].key) => SnapAt(recs, j) <= SnapAt(recs, i)
      BY <1>6, <3>1, <3>2
    <3> QED
      BY <1>6, <3>1, <3>3
  <2>3. load_page(idx, files, pa, q) = Ok(pages[i])
    <3>1. {recs[j] : j \in newest} = {recs[i]}
      BY <2>1
    <3>2. resolve(idx, files, {recs[i]}) = resolve_uncached(idx, files, recs[i])
      BY DEF resolve
    <3> QED
      BY <1>3, <2>2, <3>1, <3>2
  <2>4. load_page(idx, files, pa, q)[2] = pages[i]
    BY <2>3 DEF Ok
  <2> DEFINE t == SnapAt(recs, i)
  <2>5. CASE t # 0 \/ ~is_all_zero(pages[i])
    <3>1. i \in KeptAt(recs, pages, d, t) /\ t \in SnapsAt(recs, d)
      BY <2>2, <2>5 DEF KeptAt, SavedAt, SnapsAt
    <3>2. t \in holders
      BY <1>5, <2>2, <3>1
    <3>3. \A s \in holders : s <= t
      BY <1>7, <2>2
    <3>4. t \in Nat /\ \A s \in holders : s \in Nat
      BY <1>6, <1>7, <2>2
    <3>5. (CHOOSE s \in holders : \A u \in holders : u <= s) = t
      BY <3>2, <3>3, <3>4
    <3>6. chain[t] = FileAt(recs, pages, d, t)
      BY <1>1, <3>1
    <3>7. FileAt(recs, pages, d, t)[pa] = pages[Max(OnPage(recs, SavedAt(recs, d, t), pa))]
      BY <2>2, <3>1 DEF FileAt
    <3>8. Max(OnPage(recs, SavedAt(recs, d, t), pa)) = i
      BY <2>2, VersionAt
    <3>9. holders # {}
      BY <3>2
    <3> QED
      BY <1>2, <2>4, <3>5, <3>6, <3>7, <3>8, <3>9
  <2>6. CASE t = 0 /\ is_all_zero(pages[i])
    <3>1. holders = {}
      <4> SUFFICES ASSUME NEW s \in holders PROVE FALSE
        OBVIOUS
      <4>1. PICK j \in d : /\ PaAt(recs, j) = pa /\ SnapAt(recs, j) = s /\ SnapAt(recs, j) <= q
                           /\ (s # 0 \/ ~is_all_zero(pages[j]))
        BY <1>7
      <4>2. SnapAt(recs, j) = 0
        BY <1>6, <2>2, <2>6, <4>1
      <4>3. j = i
        BY <2>2, <2>6, <4>1, <4>2, OneVersion
      <4> QED
        BY <2>6, <4>1, <4>2, <4>3
    <3>2. pages[i] = ZeroPage
      BY <2>2, <2>6, ZeroIsZero
    <3> QED
      BY <1>2, <2>4, <3>1, <3>2
  <2> QED
    BY <2>5, <2>6
<1> QED
  BY <1>8, <1>9 DEF chain, idx

\* A closed database that no fault has touched is converted as a whole.
LEMMA ChainComplete ==
    ASSUME TypeOK, Sorted, FaultFree, RecordsHold
    PROVE  \A chain \in {convert_to_raw(log, build_lazy_index(log), blobs)} :
              /\ chain.status = "done"
              /\ \A pa \in Pas, q \in Queries :
                    load_raw(chain.files, pa, q) = answers(log, blobs)[pa][q][2]
<1> DEFINE idx == build_lazy_index(log)
           pages == [i \in DOMAIN log |-> CHOOSE page \in Page : Holds(log, blobs, log[i], page)]
<1>1. log \in Seq(Slot) /\ DOMAIN log = 1..Len(log)
  BY FileTypes
<1>2. \A i \in DOMAIN log : pages[i] \in Page /\ Holds(log, blobs, log[i], pages[i])
  BY <1>1 DEF RecordsHold
<1> HIDE DEF pages
<1>3. \A i \in DOMAIN log : resolve_uncached(idx, blobs, log[i]) = Ok(pages[i])
  BY <1>2, KeysDiffer, HoldsResolves
<1>4. InSaveOrder(log)
  BY <1>1 DEF InSaveOrder, Sorted, FaultFree, Before, Snap, SnapAt, PaAt
<1>5. ResolveTo(log, idx, blobs, pages)
  <2>1. \A i \in DOMAIN log : Ok(pages[i]) # Error /\ Ok(pages[i])[2] = pages[i]
    BY DEF Ok, Error
  <2> QED
    BY <1>3, <2>1 DEF ResolveTo
<1>6. convert_to_raw(log, idx, blobs) = ChainOf(log, pages)
  BY <1>1, <1>4, <1>5, Converts
<1>7. ASSUME NEW pa \in Pas, NEW q \in Queries
      PROVE  load_raw(ChainOf(log, pages).files, pa, q) = answers(log, blobs)[pa][q][2]
  <2>1. pa \in 0..(PaLimit - 1)
    BY Constants, ChunkAssumption DEF Pas
  <2>2. q \in 0..MAX_SNAPSHOT_ID
    BY QueriesAssumption
  <2>3. load_raw(ChainOf(log, pages).files, pa, q) = load_page(idx, blobs, pa, q)[2]
    BY <1>1, <1>2, <1>3, <1>4, <2>1, <2>2, ChainLoads
  <2> QED
    BY <2>3, AnswersAre
<1>8. ChainOf(log, pages).status = "done"
  BY DEF ChainOf
<1> QED
  BY <1>6, <1>7, <1>8

\* The chain that convert-to-raw makes of a closed database without crashes and
\* write errors is complete, and every page of every snapshot in it loads as from
\* the database: the files of the snapshots leave out no page that a later one
\* needs, those of zero pages in snapshot 0 excepted, which load as zero anyway.
THEOREM ChainAlwaysAnswers == SpecReaders => []ChainAnswers
<1>1. TypeOK /\ Sorted /\ RecordsHold => ChainAnswers
  <2> SUFFICES ASSUME TypeOK, Sorted, RecordsHold, crashes = 0, ioErrors = 0,
                      NEW chain \in {convert_to_raw(log, build_lazy_index(log), blobs)}
               PROVE  /\ chain.status = "done"
                      /\ \A pa \in Pas, q \in Queries : q <= chain.max =>
                            load_raw(chain.files, pa, q) = answers(log, blobs)[pa][q][2]
    BY DEF ChainAnswers
  <2>1. FaultFree
    BY DEF FaultFree
  <2> QED
    BY <2>1, ChainComplete
<1>2. Spec => [](TypeOK /\ Placed /\ Slotted /\ Based /\ Exact /\ Sorted)
  BY TypeCorrect, PlacedInit, PlacedStep, SlottedInit, SlottedStep, AscendingInit, AscendingStep,
     SortedInit, SortedStep, BasedInit, BasedStep, AlwaysExact, PTL DEF Spec
<1>3. Spec => []RecordsHold
  BY <1>2, RecordsInit, RecordsStep, PTL DEF Spec
<1> QED
  BY <1>1, <1>2, <1>3, ReadersImplement, PTL
=============================================================================
