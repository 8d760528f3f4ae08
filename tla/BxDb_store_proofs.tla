-------------------------- MODULE BxDb_store_proofs -------------------------
(***************************************************************************)
(* The database implements VersionedStore, for all values of the constants *)
(* but with neither crashes nor write errors: after those, and before the  *)
(* next flush, a save may be there in part.                                *)
(*                                                                         *)
(* The invariant says what the bytes of the files are: Exact.  The shadow  *)
(* of a page is the image of a Full chunk, that of the log or of the save  *)
(* in progress, and a page that is done is what its record resolves to.    *)
(* With it and with the order of the log, a commit answers the pages of    *)
(* the save, and whatever else happens answers the same as before.         *)
(***************************************************************************)
EXTENDS BxDb_proofs

-----------------------------------------------------------------------------
(* The inductive invariant.                                                *)

FaultFree == crashes = 0 /\ ioErrors = 0

\* The record locates the image of a page.
HoldsFull(files, rec, page) ==
    /\ rec.kind = "Full" /\ rec.len = 1
    /\ rec.worker_id \in Workers
    /\ rec.offset + 1 <= Len(files[rec.worker_id])
    /\ files[rec.worker_id][rec.offset + 1] = [kind |-> "Full", data |-> page]

\* The record locates a patch, which takes no byte if it has no entry.
HoldsPatch(files, rec, patch) ==
    /\ rec.kind = "Delta"
    /\ rec.worker_id \in Workers
    /\ rec.offset + rec.len <= Len(files[rec.worker_id])
    /\ rec.len = IF DOMAIN patch = {} THEN 0 ELSE 1
    /\ DOMAIN patch # {} =>
          files[rec.worker_id][rec.offset + 1] = [kind |-> "Delta", data |-> patch]

\* The log has the image of a page at key k.
ImageAt(recs, files, k, page) ==
    \E j \in 1..Len(recs) : recs[j].key = k /\ HoldsFull(files, recs[j], page)

\* The record resolves to a page.
Holds(recs, files, rec, page) ==
    \/ rec.kind = "Zero" /\ page = ZeroPage
    \/ HoldsFull(files, rec, page)
    \/ \E base \in Page : /\ HoldsPatch(files, rec, compute_xor_patch(page, base))
                          /\ ImageAt(recs, files, rec.base_key, base)

\* The records of the save in progress are the last ones of the log, and those
\* before them are of earlier snapshots.
SaveLast ==
    Saving =>
        /\ next <= Len(log)
        /\ \A i \in 1..(Len(log) - next) : Snap(log[i]) < snapshot_id
        /\ \A i \in (Len(log) - next + 1)..Len(log) :
              \E pa \in DOMAIN memory : log[i].key = encode_key(pa, snapshot_id)

\* What the shadow remembers is what is in the files.
ShadowHolds ==
    \A pa \in Pas : shadow[pa].key # None =>
        \/ ImageAt(log, blobs, shadow[pa].key, shadow[pa].page)
        \/ /\ Saving /\ Done(pa)
           /\ Rec(pa).key = shadow[pa].key
           /\ HoldsFull(blobs, Rec(pa), shadow[pa].page)

\* So is what the records of the save in progress stand for.
SavedHolds ==
    Saving => \A pa \in DOMAIN memory : Done(pa) => Holds(log, blobs, Rec(pa), memory[pa])

\* The inductive invariant, together with TypeOK, Placed, Slotted, Ascending,
\* Sorted, Based and Sealed.
Exact == FaultFree => SaveLast /\ ShadowHolds /\ SavedHolds

-----------------------------------------------------------------------------
(* The files only grow.                                                    *)

LogExtends(recs1, recs2) ==
    /\ Len(recs1) <= Len(recs2)
    /\ \A i \in 1..Len(recs1) : recs2[i] = recs1[i]

FilesExtend(files1, files2) ==
    \A w \in Workers :
        /\ Len(files1[w]) \in Nat /\ Len(files2[w]) \in Nat
        /\ Len(files1[w]) <= Len(files2[w])
        /\ \A j \in 1..Len(files1[w]) : files2[w][j] = files1[w][j]

\* What is in the files stays there.
LEMMA FullStays ==
    ASSUME NEW files1, NEW files2, FilesExtend(files1, files2), NEW rec \in Slot, NEW page,
           HoldsFull(files1, rec, page)
    PROVE  HoldsFull(files2, rec, page)
<1> DEFINE w == rec.worker_id
<1>1. w \in Workers /\ rec.offset \in Nat /\ rec.offset + 1 <= Len(files1[w])
  BY DEF HoldsFull, Slot
<1>2. /\ Len(files1[w]) \in Nat /\ Len(files2[w]) \in Nat /\ Len(files1[w]) <= Len(files2[w])
      /\ \A j \in 1..Len(files1[w]) : files2[w][j] = files1[w][j]
  BY <1>1 DEF FilesExtend
<1>3. rec.offset + 1 \in 1..Len(files1[w]) /\ rec.offset + 1 <= Len(files2[w])
  BY <1>1, <1>2
<1> QED
  BY <1>2, <1>3 DEF HoldsFull

LEMMA PatchStays ==
    ASSUME NEW files1, NEW files2, FilesExtend(files1, files2), NEW rec \in Slot, NEW patch,
           HoldsPatch(files1, rec, patch)
    PROVE  HoldsPatch(files2, rec, patch)
<1> DEFINE w == rec.worker_id
<1>1. /\ w \in Workers /\ rec.offset \in Nat /\ rec.len \in 0..1
      /\ rec.offset + rec.len <= Len(files1[w])
      /\ DOMAIN patch # {} => rec.len = 1
  BY DEF HoldsPatch, Slot
<1>2. /\ Len(files1[w]) \in Nat /\ Len(files2[w]) \in Nat /\ Len(files1[w]) <= Len(files2[w])
      /\ \A j \in 1..Len(files1[w]) : files2[w][j] = files1[w][j]
  BY <1>1 DEF FilesExtend
<1>3. rec.offset + rec.len <= Len(files2[w])
  BY <1>1, <1>2
<1>4. DOMAIN patch # {} => rec.offset + 1 \in 1..Len(files1[w])
  BY <1>1, <1>2
<1> QED
  BY <1>2, <1>3, <1>4 DEF HoldsPatch

LEMMA ImageStays ==
    ASSUME NEW recs1 \in Seq(Slot), NEW recs2 \in Seq(Slot), LogExtends(recs1, recs2),
           NEW files1, NEW files2, FilesExtend(files1, files2),
           NEW k, NEW page, ImageAt(recs1, files1, k, page)
    PROVE  ImageAt(recs2, files2, k, page)
<1>1. PICK j \in 1..Len(recs1) : recs1[j].key = k /\ HoldsFull(files1, recs1[j], page)
  BY DEF ImageAt
<1>2. recs2[j] = recs1[j] /\ j \in 1..Len(recs2) /\ recs1[j] \in Slot
  BY DEF LogExtends
<1>3. HoldsFull(files2, recs1[j], page)
  BY <1>1, <1>2, FullStays
<1> QED
  BY <1>1, <1>2, <1>3 DEF ImageAt

LEMMA HoldsStays ==
    ASSUME NEW recs1 \in Seq(Slot), NEW recs2 \in Seq(Slot), LogExtends(recs1, recs2),
           NEW files1, NEW files2, FilesExtend(files1, files2),
           NEW rec \in Slot, NEW page, Holds(recs1, files1, rec, page)
    PROVE  Holds(recs2, files2, rec, page)
<1>1. CASE rec.kind = "Zero" /\ page = ZeroPage
  BY <1>1 DEF Holds
<1>2. CASE HoldsFull(files1, rec, page)
  BY <1>2, FullStays DEF Holds
<1>3. CASE \E base \in Page : /\ HoldsPatch(files1, rec, compute_xor_patch(page, base))
                              /\ ImageAt(recs1, files1, rec.base_key, base)
  <2>1. PICK base \in Page : /\ HoldsPatch(files1, rec, compute_xor_patch(page, base))
                             /\ ImageAt(recs1, files1, rec.base_key, base)
    BY <1>3
  <2>2. HoldsPatch(files2, rec, compute_xor_patch(page, base))
    BY <2>1, PatchStays
  <2>3. ImageAt(recs2, files2, rec.base_key, base)
    BY <2>1, ImageStays
  <2> QED
    BY <2>2, <2>3 DEF Holds
<1> QED
  BY <1>1, <1>2, <1>3 DEF Holds

LEMMA FilesSame == TypeOK /\ UNCHANGED blobs => FilesExtend(blobs, blobs')
  BY FileTypes DEF FilesExtend

\* An append puts its blob where the record says.
LEMMA AppendExtends ==
    ASSUME TypeOK, NEW g, NEW w \in Workers, NEW blob \in Blob, NEW spill,
           append_blob(g, w, blob, spill)
    PROVE  /\ FilesExtend(blobs, blobs')
           /\ blob_len(blob) = 0 => blobs'[w] = blobs[w]
           /\ blob_len(blob) # 0 => /\ Len(blobs'[w]) = Len(blobs[w]) + 1
                                    /\ blobs'[w][Len(blobs[w]) + 1] = blob
<1>1. \A v \in Workers : blobs[v] \in Seq(Blob) /\ Len(blobs[v]) \in Nat
  BY FileTypes
<1>2. /\ \A v \in Workers : v # w => blobs'[v] = blobs[v]
      /\ blob_len(blob) = 0 => blobs'[w] = blobs[w]
      /\ blob_len(blob) # 0 => blobs'[w] = Append(blobs[w], blob)
  BY DEF append_blob, TypeOK
<1>3. /\ Len(Append(blobs[w], blob)) = Len(blobs[w]) + 1
      /\ Append(blobs[w], blob)[Len(blobs[w]) + 1] = blob
      /\ \A j \in 1..Len(blobs[w]) : Append(blobs[w], blob)[j] = blobs[w][j]
  BY <1>1
<1>4. \A v \in Workers :
         /\ Len(blobs'[v]) \in Nat /\ Len(blobs[v]) <= Len(blobs'[v])
         /\ \A j \in 1..Len(blobs[v]) : blobs'[v][j] = blobs[v][j]
  BY <1>1, <1>2, <1>3
<1> QED
  BY <1>1, <1>2, <1>3, <1>4 DEF FilesExtend

\* A group appends at the end of its file.
LEMMA AppendsAtEnd ==
    ASSUME TypeOK, Placed, pc = "pass", NEW g \in Groups, cur[g] # None
    PROVE  /\ wid(cur[g]) \in Workers
           /\ at[g] = Len(blobs[wid(cur[g])]) /\ at[g] \in Nat
<1>1. wid(cur[g]) \in Workers /\ wid(cur[g]) < blob_count /\ isOpen
  BY CurrentPage, WorkerOf DEF Placed, CallOpen, TypeOK
<1>2. at[g] = Len(blobs[wid(cur[g])])
  BY <1>1 DEF Placed, OffsetAtEnd, AppendAlone
<1> QED
  BY <1>1, <1>2, FileTypes

-----------------------------------------------------------------------------
(* The invariance of Exact.                                                *)

\* What the parts say of the next state.
LEMMA NextState ==
    /\ ShadowHolds' <=>
          \A pa \in Pas : shadow'[pa].key # None =>
              \/ ImageAt(log', blobs', shadow'[pa].key, shadow'[pa].page)
              \/ /\ Saving' /\ Done(pa)'
                 /\ Rec(pa)'.key = shadow'[pa].key
                 /\ HoldsFull(blobs', Rec(pa)', shadow'[pa].page)
    /\ SavedHolds' <=>
          (Saving' => \A pa \in DOMAIN memory' :
                         Done(pa)' => Holds(log', blobs', Rec(pa)', memory'[pa]))
    /\ SaveLast' <=>
          (Saving' =>
              /\ next' <= Len(log')
              /\ \A i \in 1..(Len(log') - next') : Snap(log'[i]) < snapshot_id'
              /\ \A i \in (Len(log') - next' + 1)..Len(log') :
                    \E pa \in DOMAIN memory' : log'[i].key = encode_key(pa, snapshot_id'))
<1>1. ShadowHolds' <=>
          \A pa \in Pas : shadow'[pa].key # None =>
              \/ ImageAt(log', blobs', shadow'[pa].key, shadow'[pa].page)
              \/ /\ Saving' /\ Done(pa)'
                 /\ Rec(pa)'.key = shadow'[pa].key
                 /\ HoldsFull(blobs', Rec(pa)', shadow'[pa].page)
  BY DEF ShadowHolds, ImageAt, HoldsFull
<1>2. SavedHolds' <=>
          (Saving' => \A pa \in DOMAIN memory' :
                         Done(pa)' => Holds(log', blobs', Rec(pa)', memory'[pa]))
  BY DEF SavedHolds, Holds, ImageAt, HoldsFull, HoldsPatch, compute_xor_patch, Xor, ZeroPage, Page, Word
<1>3. SaveLast' <=>
          (Saving' =>
              /\ next' <= Len(log')
              /\ \A i \in 1..(Len(log') - next') : Snap(log'[i]) < snapshot_id'
              /\ \A i \in (Len(log') - next' + 1)..Len(log') :
                    \E pa \in DOMAIN memory' : log'[i].key = encode_key(pa, snapshot_id'))
  BY DEF SaveLast, Snap, snapshot_of, encode_key
<1> QED
  BY <1>1, <1>2, <1>3

\* The records of the save in progress are records.
LEMMA RecSlot == TypeOK => \A pa \in DOMAIN memory : Rec(pa) \in Slot
<1> SUFFICES ASSUME TypeOK, NEW pa \in DOMAIN memory PROVE Rec(pa) \in Slot
  OBVIOUS
<1>1. DOMAIN memory \in SUBSET Pas /\ records_buf \in [Pas -> Slot]
  BY DEF TypeOK
<1>2. Rank(DOMAIN memory, pa) \in Pas
  BY <1>1, RankAscends
<1> QED
  BY <1>1, <1>2 DEF Rec

\* Steps that at most append a blob or two.
LEMMA ExactFrame ==
    ASSUME TypeOK, Exact, FilesExtend(blobs, blobs'),
           UNCHANGED <<log, shadow, todo, memory, snapshot_id, records_buf, crashes, ioErrors>>,
           Saving' <=> Saving, Saving => next' = next
    PROVE  Exact'
<1> SUFFICES ASSUME FaultFree PROVE SaveLast' /\ ShadowHolds' /\ SavedHolds'
  BY DEF Exact, FaultFree
<1>1. SaveLast /\ ShadowHolds /\ SavedHolds
  BY DEF Exact
<1>2. \A pa : (Done(pa)' <=> Done(pa)) /\ Rec(pa)' = Rec(pa)
  BY DEF Done, Rec, Rank, Below, group_of
<1>3. log \in Seq(Slot) /\ LogExtends(log, log)
  BY FileTypes DEF LogExtends
<1>4. SaveLast'
  BY <1>1, NextState DEF SaveLast
<1>5. ShadowHolds'
  <2> SUFFICES ASSUME NEW pa \in Pas, shadow[pa].key # None
               PROVE  \/ ImageAt(log, blobs', shadow[pa].key, shadow[pa].page)
                      \/ /\ Saving' /\ Done(pa)'
                         /\ Rec(pa)'.key = shadow[pa].key
                         /\ HoldsFull(blobs', Rec(pa)', shadow[pa].page)
    BY NextState
  <2>1. CASE ImageAt(log, blobs, shadow[pa].key, shadow[pa].page)
    BY <1>3, <2>1, ImageStays
  <2>2. CASE /\ Saving /\ Done(pa)
             /\ Rec(pa).key = shadow[pa].key
             /\ HoldsFull(blobs, Rec(pa), shadow[pa].page)
    <3>1. Rec(pa) \in Slot
      BY <2>2, RecSlot DEF Done
    <3> QED
      BY <1>2, <2>2, <3>1, FullStays
  <2> QED
    BY <1>1, <2>1, <2>2 DEF ShadowHolds
<1>6. SavedHolds'
  <2> SUFFICES ASSUME Saving, NEW pa \in DOMAIN memory, Done(pa)
               PROVE  Holds(log, blobs', Rec(pa), memory[pa])
    BY <1>2, NextState
  <2>1. Holds(log, blobs, Rec(pa), memory[pa])
    BY <1>1 DEF SavedHolds
  <2> QED
    BY <1>3, <2>1, RecSlot, HoldsStays
<1> QED
  BY <1>4, <1>5, <1>6

\* Steps after which no save is in progress.
LEMMA ExactIdle ==
    ASSUME Exact, ~Saving', UNCHANGED <<log, blobs, crashes, ioErrors>>,
           FaultFree => \A pa \in Pas : shadow'[pa].key # None =>
                           ImageAt(log, blobs, shadow'[pa].key, shadow'[pa].page)
    PROVE  Exact'
  BY NextState DEF Exact, FaultFree

\* At the start of a save the log is of the past, and no page is done.
LEMMA ExactBegin ==
    ASSUME TypeOK, Ascending, Based, Exact, NEW s \in Snapshots, NEW mem, NEW first,
           DOMAIN mem \subseteq Pas, BeginSave(s, mem, first)
    PROVE  Exact'
<1>1. /\ isOpen /\ accepts(s) /\ pc = "idle" /\ pc' = "pass" /\ memory' = mem
      /\ snapshot_id' = s /\ todo' = [g \in Groups |-> pages_of(g, DOMAIN mem)]
      /\ UNCHANGED <<log, blobs, shadow, next, crashes, ioErrors>>
  BY DEF BeginSave, diskVars, countVars
<1> SUFFICES ASSUME FaultFree PROVE SaveLast' /\ ShadowHolds' /\ SavedHolds'
  BY <1>1 DEF Exact, FaultFree
<1>2. Recent /\ ShadowHolds /\ next = 0 /\ ~Saving
  BY <1>1 DEF Exact, Ascending, Based, Progress, FaultFree, Saving
<1>3. \A pa \in DOMAIN memory' : ~Done(pa)'
  <2>1. \A pa \in DOMAIN mem : pa \in todo'[group_of(pa)]
    BY <1>1, GroupOf DEF pages_of
  <2> QED
    BY <1>1, <2>1, Stable DEF Done
<1>4. SaveLast'
  <2>1. \A i \in 1..Len(log) : Snap(log[i]) < s
    BY <1>1, <1>2, AcceptsBeyond DEF Recent
  <2>2. Len(log) \in Nat
    BY FileTypes
  <2> QED
    BY <1>1, <1>2, <2>1, <2>2, NextState
<1>5. ShadowHolds'
  BY <1>1, <1>2, NextState DEF ShadowHolds
<1>6. SavedHolds'
  BY <1>3, NextState
<1> QED
  BY <1>4, <1>5, <1>6

\* A page is done, with a record that resolves to it.
LEMMA ExactEmit ==
    ASSUME TypeOK, Slotted, Based, Exact, pc = "pass", FilesExtend(blobs, blobs'),
           NEW g \in Groups, NEW pa \in todo[g], \A q \in todo[g] : pa <= q,
           NEW rec \in Slot, EmitRecord(g, pa, rec),
           FaultFree => Holds(log, blobs', rec, memory[pa]),
           UNCHANGED <<log, memory, snapshot_id, pc, next, crashes, ioErrors>>,
           \A q \in Pas : q # pa => shadow'[q] = shadow[q],
           \/ shadow'[pa] = shadow[pa]
           \/ shadow'[pa].key = rec.key /\ HoldsFull(blobs', rec, shadow'[pa].page)
    PROVE  Exact'
<1> SUFFICES ASSUME FaultFree PROVE SaveLast' /\ ShadowHolds' /\ SavedHolds'
  BY DEF Exact, FaultFree
<1>1. SaveLast /\ ShadowHolds /\ SavedHolds /\ ~failed /\ Saving /\ Saving'
  BY DEF Exact, Based, FaultFree, Saving
<1>2. /\ pa \in DOMAIN memory /\ pa \in Pas /\ ~Done(pa)
      /\ Rec(pa)' = rec /\ Done(pa)'
      /\ \A q \in DOMAIN memory : q # pa => Rec(q)' = Rec(q) /\ (Done(q)' <=> Done(q))
  BY <1>1, EmitDone
<1>3. log \in Seq(Slot) /\ LogExtends(log, log)
  BY FileTypes DEF LogExtends
<1>4. SaveLast'
  BY <1>1, NextState DEF SaveLast
<1>5. ShadowHolds'
  <2> SUFFICES ASSUME NEW q \in Pas, shadow'[q].key # None
               PROVE  \/ ImageAt(log, blobs', shadow'[q].key, shadow'[q].page)
                      \/ /\ Done(q)'
                         /\ Rec(q)'.key = shadow'[q].key
                         /\ HoldsFull(blobs', Rec(q)', shadow'[q].page)
    BY <1>1, NextState
  <2>1. CASE q = pa /\ shadow'[pa].key = rec.key /\ HoldsFull(blobs', rec, shadow'[pa].page)
    BY <1>2, <2>1
  <2>2. CASE shadow'[q] = shadow[q] /\ ImageAt(log, blobs, shadow[q].key, shadow[q].page)
    BY <1>3, <2>2, ImageStays
  <2>3. CASE /\ shadow'[q] = shadow[q] /\ Done(q)
             /\ Rec(q).key = shadow[q].key
             /\ HoldsFull(blobs, Rec(q), shadow[q].page)
    <3>1. q \in DOMAIN memory /\ q # pa /\ Rec(q) \in Slot
      BY <1>2, <2>3, RecSlot DEF Done
    <3> QED
      BY <1>2, <2>3, <3>1, FullStays
  <2>4. shadow'[q] = shadow[q] \/ (q = pa /\ shadow'[pa].key = rec.key
                                   /\ HoldsFull(blobs', rec, shadow'[pa].page))
    OBVIOUS
  <2> QED
    BY <1>1, <2>1, <2>2, <2>3, <2>4 DEF ShadowHolds
<1>6. SavedHolds'
  <2> SUFFICES ASSUME NEW q \in DOMAIN memory, Done(q)'
               PROVE  Holds(log, blobs', Rec(q)', memory[q])
    BY NextState
  <2>1. CASE q = pa
    BY <1>2, <2>1
  <2>2. CASE q # pa
    <3>1. Holds(log, blobs, Rec(q), memory[q]) /\ Rec(q)' = Rec(q)
      BY <1>1, <1>2, <2>2 DEF SavedHolds
    <3> QED
      BY <1>3, <3>1, RecSlot, HoldsStays
  <2> QED
    BY <2>1, <2>2
<1> QED
  BY <1>4, <1>5, <1>6

\* A record of the save goes to the end of the log.
LEMMA ExactWrite ==
    ASSUME TypeOK, Slotted, Exact, NEW spill, WriteRecord(spill)
    PROVE  Exact'
<1> DEFINE rec == records_buf[next]
<1>1. /\ pc = "write" /\ next < total_dirty /\ next' = next + 1 /\ log' = Append(log, rec)
      /\ UNCHANGED <<pc, blobs, shadow, todo, memory, snapshot_id, records_buf,
                     crashes, ioErrors>>
  BY DEF WriteRecord, handleVars, groupVars, resultVars, countVars
<1> SUFFICES ASSUME FaultFree PROVE SaveLast' /\ ShadowHolds' /\ SavedHolds'
  BY <1>1 DEF Exact, FaultFree
<1>2. SaveLast /\ ShadowHolds /\ SavedHolds /\ Saving /\ (Saving' <=> Saving)
  BY <1>1 DEF Exact, Saving
<1>3. rec \in Slot /\ DOMAIN memory \in SUBSET Pas /\ next \in Nat /\ total_dirty \in Nat
  BY <1>1, NextSlot, BelowFinite DEF TypeOK, total_dirty
<1>4. log \in Seq(Slot) /\ Len(log) \in Nat
  BY FileTypes
<1>5. /\ log' \in Seq(Slot) /\ Len(log') = Len(log) + 1 /\ log'[Len(log) + 1] = rec
      /\ \A i \in 1..Len(log) : log'[i] = log[i]
  BY <1>1, <1>3, <1>4
<1>6. LogExtends(log, log') /\ FilesExtend(blobs, blobs)
  BY <1>1, <1>4, <1>5, FilesSame DEF LogExtends
<1>7. \A pa : (Done(pa)' <=> Done(pa)) /\ Rec(pa)' = Rec(pa)
  BY <1>1 DEF Done, Rec, Rank, Below, group_of
<1>8. SaveLast'
  <2>1. PICK pa \in DOMAIN memory : Rank(DOMAIN memory, pa) = next
    BY <1>1, <1>3, RankOnto DEF total_dirty
  <2>2. rec.key = encode_key(pa, snapshot_id)
    <3>1. InSlot(pa)
      BY <1>1, <1>3, <2>1, GroupOf DEF Slotted
    <3> QED
      BY <2>1, <3>1 DEF InSlot
  <2> HIDE DEF rec
  <2>3. \A i \in (Len(log') - next' + 1)..Len(log') :
           \E p \in DOMAIN memory : log'[i].key = encode_key(p, snapshot_id)
    <3> SUFFICES ASSUME NEW i \in (Len(log') - next' + 1)..Len(log')
                 PROVE  \E p \in DOMAIN memory : log'[i].key = encode_key(p, snapshot_id)
      OBVIOUS
    <3>1. CASE i = Len(log) + 1
      BY <1>5, <2>2, <3>1
    <3>2. CASE i # Len(log) + 1
      <4>1. i \in (Len(log) - next + 1)..Len(log) /\ i \in 1..Len(log)
        BY <1>1, <1>2, <1>3, <1>4, <1>5, <3>2 DEF SaveLast
      <4> QED
        BY <1>2, <1>5, <4>1 DEF SaveLast
    <3> QED
      BY <3>1, <3>2
  <2>4. \A i \in 1..(Len(log') - next') : Snap(log'[i]) < snapshot_id
    <3> SUFFICES ASSUME NEW i \in 1..(Len(log') - next') PROVE Snap(log'[i]) < snapshot_id
      OBVIOUS
    <3>1. i \in 1..(Len(log) - next) /\ i \in 1..Len(log)
      BY <1>1, <1>3, <1>4, <1>5
    <3> QED
      BY <1>2, <1>5, <3>1 DEF SaveLast
  <2>5. next' <= Len(log')
    BY <1>1, <1>2, <1>3, <1>4, <1>5 DEF SaveLast
  <2> QED
    BY <1>1, <2>3, <2>4, <2>5, NextState
<1>9. ShadowHolds'
  <2> SUFFICES ASSUME NEW pa \in Pas, shadow[pa].key # None
               PROVE  \/ ImageAt(log', blobs, shadow[pa].key, shadow[pa].page)
                      \/ /\ Done(pa)
                         /\ Rec(pa).key = shadow[pa].key
                         /\ HoldsFull(blobs, Rec(pa), shadow[pa].page)
    BY <1>1, <1>2, <1>7, NextState
  <2>1. CASE ImageAt(log, blobs, shadow[pa].key, shadow[pa].page)
    BY <1>4, <1>5, <1>6, <2>1, ImageStays
  <2> QED
    BY <1>2, <2>1 DEF ShadowHolds
<1>10. SavedHolds'
  <2> SUFFICES ASSUME NEW pa \in DOMAIN memory, Done(pa)
               PROVE  Holds(log', blobs, Rec(pa), memory[pa])
    BY <1>1, <1>7, NextState
  <2>1. Holds(log, blobs, Rec(pa), memory[pa])
    BY <1>2 DEF SavedHolds
  <2> QED
    BY <1>4, <1>5, <1>6, <2>1, RecSlot, HoldsStays
<1> QED
  BY <1>8, <1>9, <1>10

\* When the records have been written the log has what the shadow remembers.
LEMMA ShadowWritten ==
    ASSUME TypeOK, Slotted, Based, Exact, FaultFree, pc = "header",
           NEW pa \in Pas, shadow[pa].key # None
    PROVE  ImageAt(log, blobs, shadow[pa].key, shadow[pa].page)
<1>1. ShadowHolds /\ Progress
  BY DEF Exact, Based, FaultFree
<1> SUFFICES ASSUME Done(pa), Rec(pa).key = shadow[pa].key,
                    HoldsFull(blobs, Rec(pa), shadow[pa].page)
             PROVE  ImageAt(log, blobs, shadow[pa].key, shadow[pa].page)
  BY <1>1 DEF ShadowHolds
<1>2. DOMAIN memory \in SUBSET Pas /\ pa \in DOMAIN memory /\ next \in Nat
  BY DEF TypeOK, Done
<1>3. Rank(DOMAIN memory, pa) \in 0..(total_dirty - 1) /\ Rank(DOMAIN memory, pa) < next
  <2>1. /\ Rank(DOMAIN memory, pa) \in Nat /\ Rank(DOMAIN memory, pa) < total_dirty
        /\ total_dirty \in Nat
    BY <1>2, RankAscends, BelowFinite DEF total_dirty
  <2> QED
    BY <1>1, <1>2, <2>1 DEF Progress
<1>4. PICK j \in 1..Len(log) : log[j] = Rec(pa)
  BY <1>1, <1>3 DEF Progress, Rec
<1> QED
  BY <1>4 DEF ImageAt

LEMMA ZeroIsZero == \A page \in Page : is_all_zero(page) => page = ZeroPage
  BY DEF Page, is_all_zero, ZeroPage

LEMMA ExactZero ==
    ASSUME TypeOK, Slotted, Based, Exact, NEW g \in Groups, NEW pa \in Pas, EmitZero(g, pa)
    PROVE  Exact'
<1> DEFINE rec == new_zero(encode_key(pa, snapshot_id))
<1>1. /\ pc = "pass" /\ pa \in todo[g] /\ \A q \in todo[g] : pa <= q
      /\ is_all_zero(memory[pa]) /\ EmitRecord(g, pa, rec)
      /\ UNCHANGED <<log, blobs, memory, snapshot_id, pc, next, crashes, ioErrors, shadow>>
  BY DEF EmitZero, Turns, diskVars, handleVars, resultVars, callVars, countVars
<1>2. rec \in Slot /\ rec.kind = "Zero"
  BY SaveKey DEF new_zero, Slot, ChunkKind
<1>3. memory[pa] = ZeroPage
  <2>1. memory[pa] \in Page
    BY <1>1 DEF TypeOK
  <2> QED
    BY <1>1, <2>1, ZeroIsZero
<1>4. Holds(log, blobs', rec, memory[pa])
  BY <1>2, <1>3 DEF Holds
<1>5. FilesExtend(blobs, blobs')
  BY <1>1, FilesSame
<1> HIDE DEF rec
<1> QED
  BY <1>1, <1>2, <1>4, <1>5, ExactEmit

LEMMA ExactFull ==
    ASSUME TypeOK, Placed, Slotted, Based, Exact, NEW g \in Groups, NEW spill, EmitFull(g, spill)
    PROVE  Exact'
<1> DEFINE pa   == cur[g]
           w    == wid(pa)
           blob == [kind |-> "Full", data |-> memory[pa]]
           rec  == new_full(encode_key(pa, snapshot_id), w, at[g], blob_len(blob))
<1>1. /\ pc = "pass" /\ pa # None
      /\ append_blob(g, w, blob, spill) /\ EmitRecord(g, pa, rec)
      /\ insert_if_newer(pa, encode_key(pa, snapshot_id), memory[pa])
      /\ UNCHANGED <<log, memory, snapshot_id, pc, next, crashes, ioErrors>>
  BY DEF EmitFull, resultVars, callVars, countVars
<1>2. /\ pa \in todo[g] /\ (\A q \in todo[g] : pa <= q) /\ pa \in Pas
      /\ w \in Workers /\ at[g] = Len(blobs[w]) /\ at[g] \in Nat
      /\ encode_key(pa, snapshot_id) \in Nat /\ memory[pa] \in Patch
  BY <1>1, CurrentPage, AppendsAtEnd, SaveKey, Values DEF Slotted, CurrentLeast
<1>3. blob \in Blob /\ blob_len(blob) = 1
  BY <1>2 DEF Blob, blob_len
<1>4. /\ rec \in Slot /\ rec.kind = "Full" /\ rec.len = 1 /\ rec.worker_id = w
      /\ rec.offset = at[g] /\ rec.key = encode_key(pa, snapshot_id)
  BY <1>2, <1>3, Constants DEF new_full, Slot, ChunkKind, Workers
<1>5. /\ FilesExtend(blobs, blobs')
      /\ Len(blobs'[w]) = Len(blobs[w]) + 1 /\ blobs'[w][Len(blobs[w]) + 1] = blob
  <2> HIDE DEF blob
  <2> QED
    BY <1>1, <1>2, <1>3, AppendExtends
<1>6. HoldsFull(blobs', rec, memory[pa])
  <2> HIDE DEF rec, w
  <2> QED
    BY <1>2, <1>4, <1>5 DEF HoldsFull
<1>7. Holds(log, blobs', rec, memory[pa])
  BY <1>6 DEF Holds
<1>8. /\ \A q \in Pas : q # pa => shadow'[q] = shadow[q]
      /\ \/ shadow'[pa] = shadow[pa]
         \/ shadow'[pa].key = rec.key /\ HoldsFull(blobs', rec, shadow'[pa].page)
  <2>1. /\ \A q \in Pas : q # pa => shadow'[q] = shadow[q]
        /\ \/ shadow'[pa] = shadow[pa]
           \/ /\ shadow'[pa].key = encode_key(pa, snapshot_id)
              /\ shadow'[pa].page = memory[pa]
    BY <1>1, <1>2 DEF insert_if_newer, TypeOK
  <2> HIDE DEF rec
  <2> QED
    BY <1>4, <1>6, <2>1
<1> HIDE DEF rec, pa, w, blob
<1> QED
  BY <1>1, <1>2, <1>4, <1>5, <1>7, <1>8, ExactEmit

LEMMA ExactDelta ==
    ASSUME TypeOK, Placed, Slotted, Based, Exact, NEW g \in Groups, NEW spill, EmitDelta(g, spill)
    PROVE  Exact'
<1> DEFINE pa    == cur[g]
           w     == wid(pa)
           base  == shadow[pa].page
           patch == patch_of(pa)
           blob  == [kind |-> "Delta", data |-> patch]
           rec   == new_delta(encode_key(pa, snapshot_id), w, at[g], blob_len(blob), shadow[pa].key)
<1>1. /\ pc = "pass" /\ pa # None
      /\ append_blob(g, w, blob, spill) /\ EmitRecord(g, pa, rec) /\ shadow[pa].key # None
      /\ UNCHANGED <<log, memory, snapshot_id, pc, next, crashes, ioErrors, shadow>>
  BY DEF EmitDelta, DeltaFits, resultVars, callVars, countVars
<1>2. /\ pa \in todo[g] /\ (\A q \in todo[g] : pa <= q) /\ pa \in Pas
      /\ w \in Workers /\ at[g] = Len(blobs[w]) /\ at[g] \in Nat
      /\ encode_key(pa, snapshot_id) \in Nat /\ patch \in Patch
  BY <1>1, CurrentPage, AppendsAtEnd, SaveKey, Values DEF Slotted, CurrentLeast
<1>3. /\ blob \in Blob /\ blob.kind = "Delta" /\ blob.data = patch
      /\ blob_len(blob) = IF DOMAIN patch = {} THEN 0 ELSE 1
  <2> HIDE DEF patch
  <2> QED
    BY <1>2 DEF Blob, blob_len
<1>4. base \in Page /\ shadow[pa].key \in Nat
  BY <1>1, <1>2 DEF TypeOK
<1>5. /\ rec \in Slot /\ rec.kind = "Delta" /\ rec.len = blob_len(blob) /\ rec.worker_id = w
      /\ rec.offset = at[g] /\ rec.base_key = shadow[pa].key
  <2>1. w \in Nat /\ blob_len(blob) \in 0..1
    BY <1>2, <1>3, Constants DEF Workers
  <2> HIDE DEF w, blob
  <2> QED
    BY <1>2, <1>4, <2>1, Records DEF new_delta
<1>6. /\ FilesExtend(blobs, blobs')
      /\ blob_len(blob) = 0 => blobs'[w] = blobs[w]
      /\ blob_len(blob) # 0 =>
            Len(blobs'[w]) = Len(blobs[w]) + 1 /\ blobs'[w][Len(blobs[w]) + 1] = blob
  <2> HIDE DEF blob
  <2> QED
    BY <1>1, <1>2, <1>3, AppendExtends
<1>7. HoldsPatch(blobs', rec, patch)
  <2>1. CASE DOMAIN patch = {}
    <3>1. rec.len = 0 /\ blobs'[w] = blobs[w]
      BY <1>3, <1>5, <1>6, <2>1
    <3>2. rec.offset + rec.len <= Len(blobs'[w])
      BY <1>2, <1>5, <3>1
    <3> HIDE DEF rec, w, patch
    <3> QED
      BY <1>2, <1>5, <2>1, <3>1, <3>2 DEF HoldsPatch
  <2>2. CASE DOMAIN patch # {}
    <3>1. rec.len = 1 /\ Len(blobs'[w]) = Len(blobs[w]) + 1 /\ blobs'[w][Len(blobs[w]) + 1] = blob
      BY <1>3, <1>5, <1>6, <2>2
    <3>2. rec.offset + rec.len <= Len(blobs'[w]) /\ blobs'[w][rec.offset + 1] = blob
      BY <1>2, <1>5, <3>1
    <3> HIDE DEF rec, w, patch
    <3> QED
      BY <1>2, <1>5, <2>2, <3>1, <3>2 DEF HoldsPatch
  <2> QED
    BY <2>1, <2>2
<1>8. ASSUME FaultFree PROVE Holds(log, blobs', rec, memory[pa])
  <2>1. ShadowHolds /\ ~failed
    BY <1>8 DEF Exact, Based, FaultFree
  <2>2. ~Done(pa)
    <3> HIDE DEF pa, rec
    <3>1. EmitRecord(g, pa, rec) /\ rec \in Slot
      BY <1>1, <1>5
    <3> QED
      BY <1>1, <1>2, <2>1, <3>1, EmitDone
  <2>3. ImageAt(log, blobs, shadow[pa].key, base)
    BY <1>1, <1>2, <2>1, <2>2 DEF ShadowHolds
  <2>4. log \in Seq(Slot) /\ LogExtends(log, log)
    BY FileTypes DEF LogExtends
  <2> HIDE DEF pa, rec
  <2>5. ImageAt(log, blobs', shadow[pa].key, shadow[pa].page)
    BY <1>6, <2>3, <2>4, ImageStays
  <2> QED
    BY <1>4, <1>5, <1>7, <2>5 DEF Holds, patch_of
<1> HIDE DEF rec, pa, w, blob, base, patch
<1> QED
  BY <1>1, <1>2, <1>5, <1>6, <1>8, ExactEmit

LEMMA ExactInit == Init => Exact
<1> SUFFICES ASSUME Init PROVE SaveLast /\ ShadowHolds /\ SavedHolds
  BY DEF Exact
<1>1. ~Saving /\ \A pa \in Pas : shadow[pa].key = None
  BY DEF Init, Saving, EmptyShadow, NoShadow
<1> QED
  BY <1>1 DEF SaveLast, ShadowHolds, SavedHolds

\* Without faults nothing but the code's own steps happens, and no call fails.
LEMMA FaultsCounted ==
    ASSUME TypeOK, Based, [Next]_vars, FaultFree'
    PROVE  FaultFree /\ (Call \/ Step \/ UNCHANGED vars) /\ ~PassFail
<1> USE DEF diskVars, configVars, handleVars, groupVars, callVars, resultVars, countVars
<1>1. crashes \in Nat /\ ioErrors \in Nat /\ crashes' = 0 /\ ioErrors' = 0
  BY DEF TypeOK, FaultFree
<1>2. ~Fault
  <2>1. ASSUME Fault PROVE crashes' = crashes + 1 \/ ioErrors' = ioErrors + 1
    BY <2>1 DEF Fault, AppendFail, GiveUp, WriteFail, Crash
  <2> QED
    BY <1>1, <2>1
<1>3. ASSUME Call PROVE UNCHANGED <<crashes, ioErrors>>
  BY <1>3
  DEF Call, Open, SaveBadLength, SaveNothing, BeginSaveAll, BeginSaveBitmap, BeginSave, BeginFlush
<1>4. ASSUME Step PROVE UNCHANGED <<crashes, ioErrors>>
  BY <1>4
  DEF Step, EmitZero, LockBlob, EmitDelta, EmitFull, PassDone, PassFail, WriteRecord, SeekHeader,
      UpdateHeader, FlushBlob, EndFlush, Close
<1>5. UNCHANGED vars => UNCHANGED <<crashes, ioErrors>>
  BY DEF vars
<1>6. Call \/ Step \/ UNCHANGED vars
  BY <1>2 DEF Next
<1>7. FaultFree
  BY <1>1, <1>3, <1>4, <1>5, <1>6 DEF FaultFree
<1> QED
  BY <1>6, <1>7 DEF PassFail, Based, FaultFree

\* The dirty pages of a save are pages of the memory.
LEMMA BeginsSave ==
    ASSUME NEW s \in Snapshots, NEW total \in PageCounts,
           \/ \E mem \in [0..(total - 1) -> Contents] : BeginSaveAll(s, total, mem)
           \/ \E bitmap \in SUBSET Pas :
                 \E mem \in [mask_last_word(bitmap, total) -> Contents] :
                    BeginSaveBitmap(s, total, bitmap, mem)
    PROVE  \E dirty \in SUBSET Pas : \E mem \in [dirty -> Contents] :
              \E first : BeginSave(s, mem, first)
<1>1. ASSUME NEW mem \in [0..(total - 1) -> Contents], BeginSaveAll(s, total, mem)
      PROVE  0..(total - 1) \in SUBSET Pas /\ \E first : BeginSave(s, mem, first)
  <2>1. total \in Nat /\ total <= MaxPages
    BY Constants, AppendOnlyDbAssumption
  <2> QED
    BY <1>1, <2>1, Constants DEF Pas, BeginSaveAll
<1>2. ASSUME NEW bitmap \in SUBSET Pas, NEW mem \in [mask_last_word(bitmap, total) -> Contents],
             BeginSaveBitmap(s, total, bitmap, mem)
      PROVE  mask_last_word(bitmap, total) \in SUBSET Pas /\ \E first : BeginSave(s, mem, first)
  BY <1>2 DEF mask_last_word, BeginSaveBitmap
<1> QED
  BY <1>1, <1>2

LEMMA ExactStep ==
    TypeOK /\ Placed /\ Slotted /\ Ascending /\ Based /\ Exact /\ [Next]_vars => Exact'
<1> SUFFICES ASSUME TypeOK, Placed, Slotted, Ascending, Based, Exact, [Next]_vars, FaultFree'
             PROVE  Exact'
  BY DEF Exact
<1> USE DEF diskVars, configVars, handleVars, groupVars, callVars, resultVars, countVars
<1>0. FaultFree /\ (Call \/ Step \/ UNCHANGED vars) /\ ~PassFail
  BY FaultsCounted
<1>1. ASSUME NEW n \in WorkerCounts, NEW t \in DeltaThresholds, NEW sh \in ShadowModes,
             Open(n, t, sh)
      PROVE  Exact'
  <2>1. /\ ~Saving' /\ UNCHANGED <<log, blobs, crashes, ioErrors>> /\ shadow' = EmptyShadow
    BY <1>1 DEF Open, Placed, CallOpen, Saving
  <2> QED
    BY <2>1, ExactIdle DEF EmptyShadow, NoShadow
<1>2. ASSUME NEW s \in Snapshots, NEW total \in PageCounts,
             \/ \E mem \in [0..(total - 1) -> Contents] : BeginSaveAll(s, total, mem)
             \/ \E bitmap \in SUBSET Pas :
                   \E mem \in [mask_last_word(bitmap, total) -> Contents] :
                      BeginSaveBitmap(s, total, bitmap, mem)
      PROVE  Exact'
  <2>1. PICK dirty \in SUBSET Pas : \E mem \in [dirty -> Contents] :
                                       \E first : BeginSave(s, mem, first)
    BY <1>2, BeginsSave
  <2>2. PICK mem \in [dirty -> Contents] : \E first : BeginSave(s, mem, first)
    BY <2>1
  <2>3. DOMAIN mem \subseteq Pas
    OBVIOUS
  <2> QED
    BY <2>2, <2>3, ExactBegin
<1>3. ASSUME NEW s \in Snapshots, SaveBadLength(s) \/ SaveNothing(s) PROVE Exact'
  BY <1>3, FilesSame, ExactFrame DEF SaveBadLength, SaveNothing, Saving
<1>4. ASSUME BeginFlush \/ FlushBlob \/ EndFlush PROVE Exact'
  <2>1. /\ ~Saving /\ ~Saving'
        /\ UNCHANGED <<blobs, log, shadow, todo, memory, snapshot_id, records_buf, crashes, ioErrors>>
    BY <1>4 DEF BeginFlush, FlushBlob, EndFlush, Flushed, Saving
  <2> QED
    BY <2>1, FilesSame, ExactFrame
<1>5. ASSUME NEW g \in Groups, NEW pa \in Pas, LockBlob(g, pa) PROVE Exact'
  BY <1>5, FilesSame, ExactFrame DEF LockBlob, Saving
<1>6. ASSUME PassDone \/ SeekHeader PROVE Exact'
  BY <1>6, FilesSame, ExactFrame DEF PassDone, SeekHeader, Saving
<1>7. ASSUME Close PROVE Exact'
  <2>1. ~Saving' /\ UNCHANGED <<log, blobs, crashes, ioErrors>> /\ shadow' = EmptyShadow
    BY <1>7 DEF Close, Flushed, Dropped, Saving
  <2> QED
    BY <2>1, ExactIdle DEF EmptyShadow, NoShadow
<1>8. ASSUME UpdateHeader PROVE Exact'
  <2>1. /\ pc = "header" /\ ~Saving' /\ UNCHANGED <<log, blobs, shadow, crashes, ioErrors>>
    BY <1>8 DEF UpdateHeader, Return, Saving
  <2> QED
    BY <1>0, <2>1, ShadowWritten, ExactIdle
<1>9. ASSUME UNCHANGED vars PROVE Exact'
  BY <1>9, FilesSame, ExactFrame DEF vars, Saving
<1> QED
  BY <1>0, <1>1, <1>2, <1>3, <1>4, <1>5, <1>6, <1>7, <1>8, <1>9,
     ExactZero, ExactFull, ExactDelta, ExactWrite
  DEF Call, Step

-----------------------------------------------------------------------------
(* What loads make of it.                                                  *)

LEMMA KeysDiffer == TypeOK /\ Sorted /\ FaultFree => KeysUnique
<1> SUFFICES ASSUME TypeOK, Sorted, FaultFree, NEW i \in 1..Len(log), NEW j \in 1..Len(log), i # j
             PROVE  log[i].key # log[j].key
  BY DEF KeysUnique
<1>1. \A m \in 1..Len(log) : Snap(log[m]) \in Nat /\ pa_of(log[m].key) \in Nat
  BY LogSlots, SnapType, SnapNat DEF Slot
<1>2. \A m, n \in 1..Len(log) : m < n => Before(log[m], log[n])
  BY DEF Sorted, FaultFree
<1>3. \A m, n \in 1..Len(log) : Before(log[m], log[n]) => log[m].key # log[n].key
  BY <1>1 DEF Before, Snap
<1>4. i < j \/ j < i
  BY FileTypes
<1> QED
  BY <1>2, <1>3, <1>4

\* Where keys are unique the index holds every record.
LEMMA IndexUnique ==
    ASSUME TypeOK, KeysUnique, NEW i \in 1..Len(log)
    PROVE  /\ log[i].key \in DOMAIN build_lazy_index(log)
           /\ build_lazy_index(log)[log[i].key] = log[i]
<1>1. log \in Seq(Slot) /\ i \in DOMAIN log /\ Len(log) \in Nat
  BY FileTypes
<1>2. \A j \in 1..(i - 1) : log[j].key # log[i].key
  BY <1>1 DEF KeysUnique
<1> QED
  BY <1>1, <1>2, IndexFirst

LEMMA FullDecompresses ==
    ASSUME NEW files, NEW rec, NEW page, HoldsFull(files, rec, page)
    PROVE  decompress_blob_into(files, rec) = Ok(page)
  BY DEF HoldsFull, decompress_blob_into, in_range

\* A patch that is found turns the base into the page.
LEMMA PatchApplies ==
    ASSUME NEW files, NEW rec, NEW page \in Page, NEW base \in Page,
           HoldsPatch(files, rec, compute_xor_patch(page, base))
    PROVE  apply_delta(Ok(base), delta_patch_of(files, rec)) = Ok(page)
<1> DEFINE patch == compute_xor_patch(page, base)
<1>1. apply_delta_patch(base, patch) = page
  BY PatchRoundTrip
<1>2. Ok(base) # Error /\ Ok(base)[2] = base
  BY DEF Ok, Error
<1>3. in_range(files, rec)
  BY DEF HoldsPatch, in_range
<1>4. CASE DOMAIN patch = {}
  <2>1. delta_patch_of(files, rec) = {<<>>}
    BY <1>3, <1>4 DEF HoldsPatch, delta_patch_of
  <2>2. apply_delta_patch(base, <<>>) = apply_delta_patch(base, patch)
    <3> HIDE DEF patch
    <3> QED
      BY <1>4 DEF apply_delta_patch
  <2>3. apply_delta(Ok(base), {<<>>}) = Ok(apply_delta_patch(base, <<>>))
    BY <1>2 DEF apply_delta
  <2> QED
    BY <1>1, <2>1, <2>2, <2>3
<1>5. CASE DOMAIN patch # {}
  <2>1. delta_patch_of(files, rec) = {patch}
    <3>1. /\ rec.len = 1
          /\ files[rec.worker_id][rec.offset + 1] = [kind |-> "Delta", data |-> patch]
      BY <1>5 DEF HoldsPatch
    <3> HIDE DEF patch
    <3> QED
      BY <1>3, <3>1 DEF delta_patch_of
  <2>2. apply_delta(Ok(base), {patch}) = Ok(apply_delta_patch(base, patch))
    <3> HIDE DEF patch
    <3> QED
      BY <1>2 DEF apply_delta
  <2> QED
    BY <1>1, <2>1, <2>2
<1> QED
  BY <1>4, <1>5

\* Whatever its kind, a record resolves to the page that it holds.
LEMMA HoldsResolves ==
    ASSUME TypeOK, KeysUnique, NEW rec, NEW page \in Page, Holds(log, blobs, rec, page)
    PROVE  resolve_uncached(build_lazy_index(log), blobs, rec) = Ok(page)
<1> DEFINE idx == build_lazy_index(log)
<1>1. CASE rec.kind = "Zero" /\ page = ZeroPage
  BY <1>1, Resolved
<1>2. CASE HoldsFull(blobs, rec, page)
  BY <1>2, Resolved, FullDecompresses DEF HoldsFull
<1>3. CASE \E base \in Page : /\ HoldsPatch(blobs, rec, compute_xor_patch(page, base))
                              /\ ImageAt(log, blobs, rec.base_key, base)
  <2>1. PICK base \in Page : /\ HoldsPatch(blobs, rec, compute_xor_patch(page, base))
                             /\ ImageAt(log, blobs, rec.base_key, base)
    BY <1>3
  <2>2. PICK j \in 1..Len(log) : log[j].key = rec.base_key /\ HoldsFull(blobs, log[j], base)
    BY <2>1 DEF ImageAt
  <2>3. rec.base_key \in DOMAIN idx /\ idx[rec.base_key] = log[j]
    BY <2>2, IndexUnique
  <2>4. decompress_blob_into(blobs, log[j]) = Ok(base) /\ log[j].kind = "Full"
    BY <2>2, FullDecompresses DEF HoldsFull
  <2> HIDE DEF idx
  <2>5. load_full(idx, blobs, rec.base_key) = Ok(base)
    <3>1. exact_sorted(idx, rec.base_key) = {log[j]}
      BY <2>3 DEF exact_sorted
    <3> QED
      BY <2>3, <2>4, <3>1 DEF load_full
  <2>6. rec.kind = "Delta"
    BY <2>1 DEF HoldsPatch
  <2>7. resolve_uncached(idx, blobs, rec) = apply_delta(Ok(base), delta_patch_of(blobs, rec))
    BY <2>5, <2>6, Resolved
  <2> QED
    BY <2>1, <2>7, PatchApplies DEF idx
<1> QED
  BY <1>1, <1>2, <1>3 DEF Holds

\* The save in progress has records of its snapshot, which are the last.
LEMMA LogUpTo ==
    ASSUME TypeOK, Exact, FaultFree, Saving, NEW i \in 1..Len(log)
    PROVE  snapshot_of(log[i].key) <= snapshot_id
<1>1. SaveLast /\ next \in Nat /\ Len(log) \in Nat /\ snapshot_id \in Nat
  BY FileTypes DEF Exact, TypeOK
<1>2. CASE i <= Len(log) - next
  <2>1. Snap(log[i]) < snapshot_id /\ Snap(log[i]) \in Nat
    BY <1>1, <1>2, SnapType, LogSlots DEF SaveLast
  <2> QED
    BY <1>1, <2>1 DEF Snap
<1>3. CASE ~(i <= Len(log) - next)
  <2>1. i \in (Len(log) - next + 1)..Len(log)
    BY <1>1, <1>3
  <2>2. PICK pa \in DOMAIN memory : log[i].key = encode_key(pa, snapshot_id)
    BY <1>1, <2>1 DEF SaveLast
  <2>3. pa \in Pas
    BY DEF TypeOK
  <2> QED
    BY <1>1, <2>2, <2>3, SaveKey
<1> QED
  BY <1>2, <1>3

\* From its snapshot on, loads answer the pages of the save once its records
\* have been written.
LEMMA SaveAnswers ==
    ASSUME TypeOK, Slotted, Based, Sorted, Exact, FaultFree, pc = "header",
           NEW pa \in DOMAIN memory, NEW q \in 0..MAX_SNAPSHOT_ID, snapshot_id <= q
    PROVE  load_page(build_lazy_index(log), blobs, pa, q) = Ok(memory[pa])
<1> DEFINE idx == build_lazy_index(log)
           key == encode_key(pa, snapshot_id)
           rec == Rec(pa)
<1>1. /\ Progress /\ SavedHolds /\ Saving /\ KeysUnique
  BY KeysDiffer DEF Based, FaultFree, Exact, Saving
<1>2. /\ DOMAIN memory \in SUBSET Pas /\ pa \in Pas /\ next \in Nat /\ memory[pa] \in Page
      /\ snapshot_id \in Nat /\ snapshot_id <= MAX_SNAPSHOT_ID
  BY DEF TypeOK
<1>3. Done(pa) /\ InSlot(pa)
  BY <1>2, GroupOf DEF Slotted, Done
<1>4. PICK i \in 1..Len(log) : log[i] = rec
  <2>1. /\ Rank(DOMAIN memory, pa) \in Nat /\ Rank(DOMAIN memory, pa) < total_dirty
        /\ total_dirty \in Nat
    BY <1>2, RankAscends, BelowFinite DEF total_dirty
  <2>2. Rank(DOMAIN memory, pa) \in 0..(total_dirty - 1) /\ Rank(DOMAIN memory, pa) < next
    BY <1>1, <1>2, <2>1 DEF Progress
  <2> QED
    BY <1>1, <2>2 DEF Progress, Rec
<1>5. log[i].key = key
  BY <1>3, <1>4 DEF InSlot, Rec
<1>6. key \in DOMAIN idx /\ idx[key] = rec
  BY <1>1, <1>4, <1>5, IndexUnique
<1>7. /\ key \in Nat /\ pa_of(key) = pa /\ snapshot_of(key) = snapshot_id
  BY <1>2, SaveKey
<1>8. DOMAIN idx \subseteq Nat
  BY FileTypes, IndexNat
<1>9. pa \in 0..(PaLimit - 1) /\ snapshot_id \in 0..MAX_SNAPSHOT_ID
  BY <1>2, Constants, SnapshotRange DEF Pas
<1>10. ASSUME NEW k \in DOMAIN idx, Past(pa, q, k) PROVE k <= key
  <2>1. k \in {log[m].key : m \in DOMAIN log}
    BY IndexDomain
  <2>2. PICK m \in 1..Len(log) : log[m].key = k
    BY <2>1, FileTypes
  <2>3. snapshot_of(k) <= snapshot_id
    BY <1>1, <2>2, LogUpTo
  <2>4. Past(pa, snapshot_id, k)
    BY <1>10, <2>3 DEF Past
  <2>5. k \in Nat
    BY <1>8
  <2> QED
    BY <1>9, <2>4, <2>5, FloorKeys
<1>11. Past(pa, q, key)
  BY <1>7 DEF Past
<1> HIDE DEF idx, key, rec
<1>12. {k \in DOMAIN idx : Past(pa, q, k) /\ \A j \in DOMAIN idx : Past(pa, q, j) => j <= k} = {key}
  <2>1. \A k \in DOMAIN idx : (k <= key /\ key <= k) => k = key
    BY <1>7, <1>8
  <2>2. \A k \in DOMAIN idx :
           (Past(pa, q, k) /\ \A j \in DOMAIN idx : Past(pa, q, j) => j <= k) <=> k = key
    BY <1>6, <1>10, <1>11, <2>1
  <2> QED
    BY <1>6, <2>2
<1>13. floor_sorted(idx, encode_key(pa, q), pa) = {rec}
  <2>1. floor_sorted(idx, encode_key(pa, q), pa) =
          {idx[k] : k \in {k \in DOMAIN idx :
              Past(pa, q, k) /\ \A j \in DOMAIN idx : Past(pa, q, j) => j <= k}}
    BY <1>8, <1>9, FloorMeaning
  <2> QED
    BY <1>6, <1>12, <2>1
<1>14. resolve_uncached(idx, blobs, rec) = Ok(memory[pa])
  <2>1. Holds(log, blobs, rec, memory[pa])
    BY <1>1, <1>3 DEF SavedHolds, rec
  <2> QED
    BY <1>1, <1>2, <2>1, HoldsResolves DEF idx
<1>15. resolve(idx, blobs, {rec}) = Ok(memory[pa])
  BY <1>14 DEF resolve
<1> QED
  BY <1>13, <1>15 DEF load_page, idx

-----------------------------------------------------------------------------
(* The steps of the store.                                                 *)

LEMMA SavingSame == (saving <=> Saving) /\ (saving' <=> Saving')
  BY DEF saving, Saving

\* The log without the records of the save in progress.
LEMMA Settled ==
    ASSUME TypeOK, Exact, FaultFree
    PROVE  /\ settled_log \in Seq(Slot) /\ Len(settled_log) \in Nat /\ Len(settled_log) <= Len(log)
           /\ Len(settled_log) = IF Saving THEN Len(log) - next ELSE Len(log)
           /\ \A i \in 1..Len(settled_log) : settled_log[i] = log[i]
<1>1. log \in Seq(Slot) /\ Len(log) \in Nat /\ next \in Nat
  BY FileTypes DEF TypeOK
<1>2. CASE ~Saving
  <2>1. settled_log = log
    BY <1>2, SavingSame DEF settled_log
  <2> QED
    BY <1>1, <1>2, <2>1
<1>3. CASE Saving
  <2> DEFINE n == Len(log) - next
  <2>1. settled_log = SubSeq(log, 1, n)
    BY <1>3, SavingSame DEF settled_log
  <2>2. n \in Nat /\ n <= Len(log)
    BY <1>1, <1>3 DEF Exact, SaveLast
  <2>3. \A i \in 1..n : log[i] \in Slot
    BY <1>1, <2>2
  <2> HIDE DEF n
  <2>4. /\ SubSeq(log, 1, n) \in Seq(Slot) /\ Len(SubSeq(log, 1, n)) = n
        /\ \A i \in 1..n : SubSeq(log, 1, n)[i] = log[i]
    BY <1>1, <2>2, <2>3, SubSeqProperties
  <2> QED
    BY <1>3, <2>1, <2>2, <2>4 DEF n
<1> QED
  BY <1>2, <1>3

\* Two tables of answers agree where the versions do.
LEMMA SameAnswer ==
    ASSUME NEW recs1 \in Seq(Slot), NEW recs2 \in Seq(Slot), NEW files1, NEW files2,
           NEW pa \in Pas, NEW q \in Queries,
           SamePast(pa, q, build_lazy_index(recs1), files1, build_lazy_index(recs2), files2)
    PROVE  answers(recs1, files1)[pa][q] = answers(recs2, files2)[pa][q]
<1>1. q \in 0..MAX_SNAPSHOT_ID /\ pa \in 0..(PaLimit - 1)
  BY QueriesAssumption, Constants DEF Pas
<1>2. /\ DOMAIN build_lazy_index(recs1) \subseteq Nat
      /\ DOMAIN build_lazy_index(recs2) \subseteq Nat
  BY IndexNat
<1>3. load_page(build_lazy_index(recs1), files1, pa, q)
        = load_page(build_lazy_index(recs2), files2, pa, q)
  BY <1>1, <1>2, SameLoad
<1>4. /\ answers(recs1, files1)[pa][q] = load_page(build_lazy_index(recs1), files1, pa, q)
      /\ answers(recs2, files2)[pa][q] = load_page(build_lazy_index(recs2), files2, pa, q)
  BY AnswersAre
<1> QED
  BY <1>3, <1>4

\* A part of the log from its start, and more of it behind that has no version
\* of the page up to the snapshot, while the files grow.
LEMMA PartPast ==
    ASSUME TypeOK, Placed, Sealed, FaultFree,
           NEW recs1 \in Seq(Slot), NEW recs2 \in Seq(Slot),
           LogExtends(recs1, recs2), Len(recs2) <= Len(log),
           \A i \in 1..Len(recs2) : recs2[i] = log[i],
           NEW files2, FilesExtend(blobs, files2), NEW pa, NEW q,
           \A i \in (Len(recs1) + 1)..Len(recs2) : ~Past(pa, q, recs2[i].key)
    PROVE  SamePast(pa, q, build_lazy_index(recs1), blobs, build_lazy_index(recs2), files2)
<1> DEFINE idx1 == build_lazy_index(recs1)
           idx2 == build_lazy_index(recs2)
<1>1. /\ Len(recs1) \in Nat /\ Len(recs2) \in Nat /\ Len(log) \in Nat /\ Len(recs1) <= Len(recs2)
      /\ \A i \in 1..Len(recs1) : recs2[i] = recs1[i]
  BY FileTypes DEF LogExtends
<1>2. ASSUME NEW k \in Nat, Past(pa, q, k)
      PROVE  /\ k \in DOMAIN idx1 <=> k \in DOMAIN idx2
             /\ k \in DOMAIN idx1 =>
                   /\ idx1[k] = idx2[k] /\ idx1[k] \in Slot /\ idx1[k].key = k
                   /\ DeltaWithin(idx1[k])
                   /\ SameBytes(idx1[k], blobs, files2)
  <2>1. \A i \in (Len(recs1) + 1)..Len(recs2) : recs2[i].key # k
    BY <1>2
  <2>2. /\ k \in DOMAIN idx1 <=> k \in DOMAIN idx2
        /\ k \in DOMAIN idx1 => idx1[k] = idx2[k]
    BY <1>1, <2>1, IndexGrows
  <2>3. ASSUME k \in DOMAIN idx1
        PROVE  /\ idx1[k] \in Slot /\ idx1[k].key = k
               /\ DeltaWithin(idx1[k]) /\ SameBytes(idx1[k], blobs, files2)
    <3>1. PICK i \in 1..Len(recs1) : recs1[i].key = k /\ idx1[k] = recs1[i]
      BY <2>3, IndexHolds
    <3>2. i \in 1..Len(log) /\ idx1[k] = log[i] /\ log[i].key = k /\ log[i] \in Slot
      BY <1>1, <3>1, LogSlots
    <3> DEFINE rec == log[i]
               w   == rec.worker_id
    <3>3. DeltaWithin(rec)
      BY <3>2 DEF Sealed, DeltasWithin, WellFormed
    <3>4. w \in Workers /\ rec.offset + rec.len <= Len(blobs[w])
      BY <3>2 DEF Placed, Located, RecordsWithin, Within, FaultFree
    <3>5. /\ Len(blobs[w]) \in Nat /\ Len(files2[w]) \in Nat /\ Len(blobs[w]) <= Len(files2[w])
          /\ \A j \in 1..Len(blobs[w]) : files2[w][j] = blobs[w][j]
      BY <3>4 DEF FilesExtend
    <3>6. rec.offset \in Nat /\ rec.len \in 0..1
      BY <3>2 DEF Slot
    <3> HIDE DEF rec, w
    <3>7. /\ rec.offset + rec.len <= Len(files2[w])
          /\ rec.len = 1 => rec.offset + 1 \in 1..Len(blobs[w])
      <4>1. rec.offset + rec.len <= Len(blobs[w])
        BY <3>4
      <4>2. Len(blobs[w]) \in Nat /\ Len(files2[w]) \in Nat /\ Len(blobs[w]) <= Len(files2[w])
        BY <3>5
      <4> QED
        BY <3>6, <4>1, <4>2
    <3>8. SameBytes(rec, blobs, files2)
      <4>1. in_range(blobs, rec) /\ in_range(files2, rec)
        BY <3>4, <3>7 DEF in_range, w
      <4>2. rec.len = 1 => files2[w][rec.offset + 1] = blobs[w][rec.offset + 1]
        BY <3>5, <3>7
      <4> QED
        BY <4>1, <4>2 DEF SameBytes, w
    <3> QED
      BY <3>2, <3>3, <3>8 DEF rec
  <2> QED
    BY <2>2, <2>3
<1> QED
  BY <1>2 DEF SamePast

\* Nothing happens to the answers when the log without the save in progress
\* stays as it is, whatever is appended to the files.
LEMMA ContentKept ==
    ASSUME TypeOK, Placed, Sealed, Exact, FaultFree,
           settled_log' = settled_log, FilesExtend(blobs, blobs')
    PROVE  content' = content
<1> DEFINE recs == settled_log
<1>1. /\ recs \in Seq(Slot) /\ Len(recs) \in Nat /\ Len(recs) <= Len(log)
      /\ \A i \in 1..Len(recs) : recs[i] = log[i]
  BY Settled
<1>2. LogExtends(recs, recs) /\ \A i \in (Len(recs) + 1)..Len(recs) : FALSE
  BY <1>1 DEF LogExtends
<1> HIDE DEF recs
<1>3. ASSUME NEW pa \in Pas, NEW q \in Queries
      PROVE  load_page(build_lazy_index(recs), blobs, pa, q)
               = load_page(build_lazy_index(recs), blobs', pa, q)
  <2>1. SamePast(pa, q, build_lazy_index(recs), blobs, build_lazy_index(recs), blobs')
    BY <1>1, <1>2, PartPast
  <2>2. q \in 0..MAX_SNAPSHOT_ID /\ pa \in 0..(PaLimit - 1)
    BY QueriesAssumption, Constants DEF Pas
  <2>3. DOMAIN build_lazy_index(recs) \subseteq Nat
    BY <1>1, IndexNat
  <2> QED
    BY <2>1, <2>2, <2>3, SameLoad
<1>4. answers(recs, blobs) = answers(recs, blobs')
  BY <1>3, AnswersAre
<1>5. content = answers(recs, blobs)
  BY DEF content, recs
<1>6. content' = answers(recs, blobs')
  BY DEF content, answers, recs
<1> QED
  BY <1>4, <1>5, <1>6

\* What a step of the store is here that changes nothing.
LEMMA StoreStutter ==
    ASSUME TypeOK, Placed, Sealed, Exact, FaultFree,
           settled_log' = settled_log, FilesExtend(blobs, blobs'),
           Saving' <=> Saving, Saving => UNCHANGED <<snapshot_id, memory>>
    PROVE  UNCHANGED <<content, pending>>
<1>1. pending' = pending
  BY SavingSame DEF pending
<1> QED
  BY <1>1, ContentKept

LEMMA SettledSame ==
    ASSUME UNCHANGED log, Saving' <=> Saving, Saving => next' = next
    PROVE  settled_log' = settled_log
  BY SavingSame DEF settled_log

LEMMA SettledWrite ==
    ASSUME TypeOK, Exact, FaultFree, NEW spill, WriteRecord(spill)
    PROVE  settled_log' = settled_log
<1> DEFINE n   == Len(log) - next
           rec == records_buf[next]
<1>1. /\ pc = "write" /\ pc' = "write" /\ next < total_dirty
      /\ log' = Append(log, rec) /\ next' = next + 1
  BY DEF WriteRecord, resultVars
<1>2. Saving /\ Saving'
  BY <1>1 DEF Saving
<1>3. log \in Seq(Slot) /\ Len(log) \in Nat /\ next \in Nat /\ rec \in Slot
  BY <1>1, FileTypes, NextSlot DEF TypeOK
<1>4. n \in 0..Len(log)
  BY <1>2, <1>3 DEF Exact, SaveLast
<1>5. /\ log' \in Seq(Slot) /\ Len(log') = Len(log) + 1 /\ Len(log') - next' = n
      /\ \A i \in 1..Len(log) : log'[i] = log[i]
  <2> HIDE DEF rec
  <2> QED
    BY <1>1, <1>3
<1>6. settled_log = SubSeq(log, 1, n) /\ settled_log' = SubSeq(log', 1, n)
  <2>1. settled_log' = SubSeq(log', 1, Len(log') - next')
    BY <1>2, SavingSame DEF settled_log
  <2> QED
    BY <1>2, <1>5, <2>1, SavingSame DEF settled_log
<1> HIDE DEF n
<1>7. n \in 0..Len(log') /\ \A i \in 1..n : log'[i] = log[i]
  BY <1>3, <1>4, <1>5
<1>8. SubSeq(log, 1, n) = SubSeq(log', 1, n)
  BY <1>3, <1>4, <1>5, <1>7, FirstOf, SameSequence
<1> QED
  BY <1>6, <1>8

\* The start of a save.
LEMMA StoreBegins ==
    ASSUME TypeOK, Placed, Sealed, Based, Exact, FaultFree, NEW s \in Snapshots,
           NEW dirty \in SUBSET Pas, NEW mem \in [dirty -> Contents], NEW first,
           BeginSave(s, mem, first)
    PROVE  Store!Begin
<1>1. /\ pc = "idle" /\ pc' = "pass" /\ snapshot_id' = s /\ memory' = mem
      /\ UNCHANGED <<log, blobs, next>>
  BY DEF BeginSave, diskVars
<1>2. ~Saving /\ Saving' /\ next = 0 /\ s \in Nat
  BY <1>1, AppendOnlyDbAssumption DEF Saving, Based, Progress, FaultFree
<1>3. pending = Store!NoSave
  BY <1>2, SavingSame DEF pending, Store!NoSave
<1>4. pending' = [snapshot |-> s, memory |-> mem] /\ pending' # Store!NoSave
  <2>1. pending' = [snapshot |-> s, memory |-> mem]
    BY <1>1, <1>2, SavingSame DEF pending
  <2>2. pending'.snapshot # Store!NoSave.snapshot
    BY <1>2, <2>1 DEF Store!NoSave
  <2> QED
    BY <2>1, <2>2
<1>5. settled_log' = settled_log
  <2>1. log \in Seq(Slot) /\ Len(log) \in Nat
    BY FileTypes
  <2>2. settled_log = log
    BY <1>2, SavingSame DEF settled_log
  <2>3. settled_log' = SubSeq(log, 1, Len(log))
    <3>1. settled_log' = SubSeq(log', 1, Len(log') - next')
      BY <1>2, SavingSame DEF settled_log
    <3> QED
      BY <1>1, <1>2, <2>1, <3>1
  <2>4. SubSeq(log, 1, Len(log)) = log
    BY <2>1, FirstOf, SameSequence
  <2> QED
    BY <2>2, <2>3, <2>4
<1>6. content' = content
  BY <1>1, <1>5, FilesSame, ContentKept
<1> QED
  BY <1>3, <1>4, <1>6 DEF Store!Begin

\* The end of a save: a page the save gave has its contents from then on, and
\* any other load answers as the records before the save do.
LEMMA CommitAnswers ==
    ASSUME TypeOK, Placed, Slotted, Sorted, Based, Sealed, Exact, FaultFree,
           Saving, pc = "header",
           NEW recs \in Seq(Slot), Len(recs) = Len(log) - next,
           \A i \in 1..Len(recs) : recs[i] = log[i]
    PROVE  answers(log, blobs) =
             [pa \in Pas |-> [q \in Queries |->
                 IF pa \in DOMAIN memory /\ q >= snapshot_id
                 THEN Ok(memory[pa]) ELSE answers(recs, blobs)[pa][q]]]
<1>1. /\ log \in Seq(Slot) /\ Len(log) \in Nat /\ next \in Nat
      /\ Len(recs) \in Nat /\ Len(recs) <= Len(log)
  <2>1. log \in Seq(Slot) /\ Len(log) \in Nat /\ Len(recs) \in Nat
    BY FileTypes
  <2>2. next \in Nat
    BY DEF TypeOK
  <2> QED
    BY <2>1, <2>2
<1>2. LogExtends(recs, log)
  BY <1>1 DEF LogExtends
<1>3. FilesExtend(blobs, blobs)
  BY FileTypes DEF FilesExtend
<1>4. ASSUME NEW pa \in Pas, NEW q \in Queries,
             ~(pa \in DOMAIN memory /\ q >= snapshot_id)
      PROVE  answers(log, blobs)[pa][q] = answers(recs, blobs)[pa][q]
  <2>1. ASSUME NEW i \in (Len(recs) + 1)..Len(log) PROVE ~Past(pa, q, log[i].key)
    <3>1. PICK p \in DOMAIN memory : log[i].key = encode_key(p, snapshot_id)
      BY <1>1 DEF Exact, SaveLast
    <3>2. p \in Pas
      BY DEF TypeOK
    <3>3. pa_of(log[i].key) = p /\ snapshot_of(log[i].key) = snapshot_id
      BY <3>1, <3>2, SaveKey
    <3>4. q \in Int /\ snapshot_id \in Nat
      BY QueriesAssumption, SnapshotRange DEF TypeOK
    <3> QED
      BY <1>4, <3>3, <3>4 DEF Past
  <2>2. SamePast(pa, q, build_lazy_index(recs), blobs, build_lazy_index(log), blobs)
    BY <1>1, <1>2, <1>3, <2>1, PartPast
  <2>3. log \in Seq(Slot)
    BY <1>1
  <2>4. \A f1, f2 : SamePast(pa, q, build_lazy_index(recs), f1, build_lazy_index(log), f2)
                    => answers(recs, f1)[pa][q] = answers(log, f2)[pa][q]
    BY <2>3, SameAnswer
  <2> QED
    BY <2>2, <2>4
<1>5. ASSUME NEW pa \in DOMAIN memory, NEW q \in Queries, q >= snapshot_id
      PROVE  answers(log, blobs)[pa][q] = Ok(memory[pa])
  <2>1. q \in 0..MAX_SNAPSHOT_ID /\ snapshot_id <= q /\ pa \in Pas
    BY <1>5, QueriesAssumption, SnapshotRange DEF TypeOK
  <2>2. load_page(build_lazy_index(log), blobs, pa, q) = Ok(memory[pa])
    BY <2>1, SaveAnswers
  <2> QED
    BY <2>1, <2>2, AnswersAre
<1>6. answers(log, blobs) = [pa \in Pas |-> [q \in Queries |-> answers(log, blobs)[pa][q]]]
  BY AnswersAre
<1>7. \A pa \in Pas, q \in Queries :
         answers(log, blobs)[pa][q] = IF pa \in DOMAIN memory /\ q >= snapshot_id
                                      THEN Ok(memory[pa]) ELSE answers(recs, blobs)[pa][q]
  BY <1>4, <1>5
<1> QED
  BY <1>6, <1>7

LEMMA StoreCommits ==
    ASSUME TypeOK, Placed, Slotted, Sorted, Based, Sealed, Exact, FaultFree, UpdateHeader
    PROVE  Store!Commit
<1>1. /\ pc = "header" /\ Saving /\ ~Saving' /\ UNCHANGED <<log, blobs>>
  BY DEF UpdateHeader, Return, Saving
<1>2. /\ pending = [snapshot |-> snapshot_id, memory |-> memory]
      /\ pending' = Store!NoSave /\ pending # Store!NoSave
  <2>1. /\ pending = [snapshot |-> snapshot_id, memory |-> memory]
        /\ pending' = Store!NoSave
    BY <1>1, SavingSame DEF pending, Store!NoSave
  <2>2. pending.snapshot # Store!NoSave.snapshot
    BY <2>1 DEF Store!NoSave, TypeOK
  <2> QED
    BY <2>1, <2>2
<1>3. content = answers(settled_log, blobs) /\ content' = answers(log, blobs)
  <2>1. settled_log' = log
    BY <1>1, SavingSame DEF settled_log
  <2> QED
    BY <1>1, <2>1 DEF content, answers
<1>4. /\ settled_log \in Seq(Slot) /\ Len(settled_log) = Len(log) - next
      /\ \A i \in 1..Len(settled_log) : settled_log[i] = log[i]
  BY <1>1, Settled
<1>5. answers(log, blobs) =
        [pa \in Pas |-> [q \in Queries |->
            IF pa \in DOMAIN memory /\ q >= snapshot_id
            THEN Ok(memory[pa]) ELSE answers(settled_log, blobs)[pa][q]]]
  BY <1>1, <1>4, CommitAnswers
<1>6. content' = [pa \in Pas |-> [q \in Queries |->
                     IF pa \in DOMAIN pending.memory /\ q >= pending.snapshot
                     THEN Ok(pending.memory[pa]) ELSE content[pa][q]]]
  BY <1>2, <1>3, <1>5
<1> QED
  BY <1>2, <1>6 DEF Store!Commit


\* Every step of the writer is a step of the store or none.
LEMMA StoreStep ==
    ASSUME TypeOK, TypeOK', Placed, Slotted, Ascending, Sorted, Based, Sealed, Exact,
           [Next]_vars, FaultFree'
    PROVE  [Store!Next]_<<content, pending>>
<1> USE DEF diskVars, configVars, handleVars, groupVars, callVars, resultVars, countVars
<1>0. FaultFree /\ (Call \/ Step \/ UNCHANGED vars) /\ ~PassFail
  BY FaultsCounted
<1> DEFINE Stutter == UNCHANGED <<content, pending>>
<1>1. ASSUME NEW n \in WorkerCounts, NEW t \in DeltaThresholds, NEW sh \in ShadowModes,
             Open(n, t, sh)
      PROVE  Stutter
  <2>1. ~Saving /\ ~Saving' /\ UNCHANGED <<log, blobs>>
    BY <1>1 DEF Open, Placed, CallOpen, Saving
  <2> QED
    BY <1>0, <2>1, FilesSame, SettledSame, StoreStutter
<1>2. ASSUME NEW s \in Snapshots, NEW total \in PageCounts,
             \/ \E mem \in [0..(total - 1) -> Contents] : BeginSaveAll(s, total, mem)
             \/ \E bitmap \in SUBSET Pas :
                   \E mem \in [mask_last_word(bitmap, total) -> Contents] :
                      BeginSaveBitmap(s, total, bitmap, mem)
      PROVE  Store!Begin
  <2>1. PICK dirty \in SUBSET Pas : \E mem \in [dirty -> Contents] :
                                       \E first : BeginSave(s, mem, first)
    BY <1>2, BeginsSave
  <2>2. PICK mem \in [dirty -> Contents] : \E first : BeginSave(s, mem, first)
    BY <2>1
  <2> QED
    BY <1>0, <2>2, StoreBegins
<1>3. ASSUME NEW s \in Snapshots, SaveBadLength(s) \/ SaveNothing(s) PROVE Stutter
  <2>1. ~Saving /\ ~Saving' /\ UNCHANGED <<log, blobs>>
    BY <1>3 DEF SaveBadLength, SaveNothing, Saving
  <2> QED
    BY <1>0, <2>1, FilesSame, SettledSame, StoreStutter
<1>4. ASSUME BeginFlush \/ FlushBlob \/ EndFlush PROVE Stutter
  <2>1. ~Saving /\ ~Saving' /\ UNCHANGED <<log, blobs>>
    BY <1>4 DEF BeginFlush, FlushBlob, EndFlush, Flushed, Saving
  <2> QED
    BY <1>0, <2>1, FilesSame, SettledSame, StoreStutter
<1>5. ASSUME Close PROVE Stutter
  <2>1. ~Saving /\ ~Saving' /\ UNCHANGED <<log, blobs>>
    BY <1>5 DEF Close, Flushed, Dropped, Saving
  <2> QED
    BY <1>0, <2>1, FilesSame, SettledSame, StoreStutter
<1>6. ASSUME NEW g \in Groups, NEW pa \in Pas, EmitZero(g, pa) \/ LockBlob(g, pa) PROVE Stutter
  <2>1. Saving /\ Saving' /\ UNCHANGED <<log, blobs, next, snapshot_id, memory>>
    BY <1>6 DEF EmitZero, LockBlob, Turns, EmitRecord, Saving
  <2> QED
    BY <1>0, <2>1, FilesSame, SettledSame, StoreStutter
<1>7. ASSUME NEW g \in Groups, NEW spill \in SpillChoices, EmitDelta(g, spill) \/ EmitFull(g, spill)
      PROVE  Stutter
  <2>1. Saving /\ Saving' /\ UNCHANGED <<log, next, snapshot_id, memory>>
    BY <1>7 DEF EmitDelta, EmitFull, EmitRecord, Saving
  <2>2. PICK w \in Workers, blob \in Blob : append_blob(g, w, blob, spill)
    BY <1>7, Appends
  <2>3. FilesExtend(blobs, blobs')
    BY <2>2, AppendExtends
  <2> QED
    BY <1>0, <2>1, <2>3, SettledSame, StoreStutter
<1>8. ASSUME PassDone \/ SeekHeader PROVE Stutter
  <2>1. Saving /\ Saving' /\ UNCHANGED <<log, blobs, next, snapshot_id, memory>>
    BY <1>8 DEF PassDone, SeekHeader, Saving
  <2> QED
    BY <1>0, <2>1, FilesSame, SettledSame, StoreStutter
<1>9. ASSUME NEW spill \in SpillChoices, WriteRecord(spill) PROVE Stutter
  <2>1. Saving /\ Saving' /\ UNCHANGED <<blobs, snapshot_id, memory>>
    BY <1>9 DEF WriteRecord, Saving
  <2> QED
    BY <1>0, <1>9, <2>1, FilesSame, SettledWrite, StoreStutter
<1>10. ASSUME UpdateHeader PROVE Store!Commit
  BY <1>0, <1>10, StoreCommits
<1>11. ASSUME UNCHANGED vars PROVE Stutter
  <2>1. (Saving' <=> Saving) /\ UNCHANGED <<log, blobs, next, snapshot_id, memory>>
    BY <1>11 DEF vars, Saving
  <2> QED
    BY <1>0, <2>1, FilesSame, SettledSame, StoreStutter
<1> HIDE DEF Stutter
<1>12. Stutter \/ Store!Begin \/ Store!Commit
  BY <1>0, <1>1, <1>2, <1>3, <1>4, <1>5, <1>6, <1>7, <1>8, <1>9, <1>10, <1>11
  DEF Call, Step
<1> QED
  BY <1>12 DEF Stutter, Store!Next

\* A database without records answers nothing.
LEMMA StoreInit == Init => Store!Init
<1> SUFFICES ASSUME Init PROVE Store!Init
  OBVIOUS
<1>1. log = <<>> /\ ~Saving
  BY DEF Init, Saving
<1>2. content = answers(log, blobs) /\ pending = Store!NoSave
  BY <1>1, SavingSame DEF content, settled_log, pending, Store!NoSave
<1>3. ASSUME NEW pa \in Pas, NEW q \in Queries PROVE answers(log, blobs)[pa][q] = Missing
  <2>1. DOMAIN build_lazy_index(log) = {}
    BY <1>1 DEF build_lazy_index
  <2>2. load_page(build_lazy_index(log), blobs, pa, q) = Missing
    <3>1. floor_sorted(build_lazy_index(log), encode_key(pa, q), pa) = {}
      BY <2>1 DEF floor_sorted
    <3> QED
      BY <3>1 DEF load_page, resolve
  <2> QED
    BY <2>2, AnswersAre
<1> QED
  BY <1>2, <1>3, AnswersAre DEF Store!Init

\* The constants may forbid faults.
LEMMA NoFaults ==
    ASSUME MaxCrashes = 0, MaxIoErrors = 0
    PROVE  Spec => []FaultFree
<1> USE DEF diskVars, configVars, handleVars, groupVars, callVars, resultVars, countVars
<1>1. Init => FaultFree
  BY DEF Init, FaultFree
<1>2. FaultFree /\ [Next]_vars => FaultFree'
  <2> SUFFICES ASSUME FaultFree, [Next]_vars PROVE FaultFree'
    OBVIOUS
  <2>1. ~Fault
    BY DEF Fault, AppendFail, GiveUp, WriteFail, Crash, FaultFree
  <2>2. ASSUME Call PROVE UNCHANGED <<crashes, ioErrors>>
    BY <2>2
    DEF Call, Open, SaveBadLength, SaveNothing, BeginSaveAll, BeginSaveBitmap, BeginSave, BeginFlush
  <2>3. ASSUME Step PROVE UNCHANGED <<crashes, ioErrors>>
    BY <2>3
    DEF Step, EmitZero, LockBlob, EmitDelta, EmitFull, PassDone, PassFail, WriteRecord, SeekHeader,
        UpdateHeader, FlushBlob, EndFlush, Close
  <2>4. UNCHANGED vars => UNCHANGED <<crashes, ioErrors>>
    BY DEF vars
  <2> QED
    BY <2>1, <2>2, <2>3, <2>4 DEF Next, FaultFree
<1> QED
  BY <1>1, <1>2, PTL DEF Spec

\* The records of a save resolve to its pages, in every run; a run with a fault
\* is one that Exact says nothing about.
LEMMA AlwaysExact == Spec => []Exact
  BY TypeCorrect, PlacedInit, PlacedStep, SlottedInit, SlottedStep, AscendingInit, AscendingStep,
     BasedInit, BasedStep, ExactInit, ExactStep, PTL DEF Spec

\* Every save is atomic and exact.  Without crashes and write errors, for any
\* number of pages, workers, groups and snapshots, any threshold and any mixture
\* of chunks, and whatever the threads of the pool do first: from the return of
\* a save on, a load of a page of it at its snapshot or later answers the
\* contents the save was given, until a later save gives it others; all other
\* loads, those of the past included, answer as before; and until the return no
\* load of what was there before notices the save.
THEOREM SavesAreAtomic ==
    ASSUME MaxCrashes = 0, MaxIoErrors = 0
    PROVE  Spec => RefinesStore
<1>1. Spec => []FaultFree
  BY NoFaults
<1>2. Spec => [](TypeOK /\ Placed /\ Slotted /\ Ascending /\ Sorted /\ Based)
  BY TypeCorrect, PlacedInit, PlacedStep, SlottedInit, SlottedStep, AscendingInit, AscendingStep,
     SortedInit, SortedStep, BasedInit, BasedStep, PTL DEF Spec
<1>3. Spec => [](Sealed /\ Exact)
  BY AlwaysSealed, AlwaysExact, PTL
<1> QED
  BY <1>1, <1>2, <1>3, StoreInit, StoreStep, PTL DEF Spec, RefinesStore, Store!Safety
=============================================================================
