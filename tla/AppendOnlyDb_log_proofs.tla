---------------------- MODULE AppendOnlyDb_log_proofs -----------------------
(*************************************************************************)
(* What the log holds, for all values of the constants.                    *)
(*                                                                         *)
(* Slotted: the tasks of the parallel pass write every slot of             *)
(* records_buf, each one once, and in ascending order of the pages.        *)
(*                                                                         *)
(* Sorted: the log is in the order of snapshots and pages.  Within a       *)
(* snapshot this is the order of the slots of records_buf; from one        *)
(* snapshot to the next it is what the acceptance of ids is for.           *)
(*                                                                         *)
(* Based: every Delta of the log has its base before it, with crashes at   *)
(* any step.  The base that a Delta is made against comes from the shadow, *)
(* which the tasks of the pass change before any record is in the log.     *)
(* What keeps this right is that the entry of a page only changes when the *)
(* page is done, and that a call which ends well has written all of its    *)
(* records.                                                                *)
(*************************************************************************)
EXTENDS AppendOnlyDb_blobs_proofs

-----------------------------------------------------------------------------
(* The rank of a dirty page is the slot that its record belongs to.        *)

Below(dirty, pa) == {q \in dirty : q < pa}

Rank(dirty, pa) == Cardinality(Below(dirty, pa))

LEMMA GroupsAscend ==
    ASSUME NEW p \in Nat, NEW q \in Nat
    PROVE  /\ group_of(p) \in Nat
           /\ p <= q => group_of(p) <= group_of(q)
           /\ group_of(p) * PagesPerGroup <= p
<1>1. PagesPerGroup \in Nat /\ PagesPerGroup > 0
  BY AppendOnlyDbAssumption
<1> QED
  BY <1>1, SMT DEF group_of

LEMMA FirstOfGroup ==
    ASSUME NEW g \in Nat
    PROVE  g * PagesPerGroup \in Nat /\ group_of(g * PagesPerGroup) = g
<1>1. PagesPerGroup \in Nat /\ PagesPerGroup > 0
  BY AppendOnlyDbAssumption
<1> QED
  BY <1>1, SMT DEF group_of

LEMMA GroupOf == \A pa \in Pas : group_of(pa) \in Groups
<1> SUFFICES ASSUME NEW pa \in Pas PROVE group_of(pa) \in Groups
  OBVIOUS
<1>1. pa \in Nat /\ MaxPages - 1 \in Nat /\ pa <= MaxPages - 1
  BY Constants DEF Pas
<1>2. group_of(pa) \in Nat /\ group_of(MaxPages - 1) \in Nat
      /\ group_of(pa) <= group_of(MaxPages - 1)
  BY <1>1, GroupsAscend
<1> QED
  BY <1>2 DEF Groups

\* Of two pages of a snapshot, the greater has the greater key.
LEMMA KeysAscend ==
    ASSUME NEW p \in Nat, NEW q \in Nat, p < q, q <= PaLimit - 1,
           NEW s \in Nat, s <= MAX_SNAPSHOT_ID
    PROVE  encode_key(p, s) < encode_key(q, s)
<1>1. s < SNAPSHOT_LIMIT
  BY SMT DEF MAX_SNAPSHOT_ID, SNAPSHOT_LIMIT
<1>2. p % PaLimit = p /\ q % PaLimit = q
  BY ChunkAssumption, SMT
<1>3. encode_key(p, s) = p * SNAPSHOT_LIMIT + s /\ encode_key(q, s) = q * SNAPSHOT_LIMIT + s
  BY <1>1, <1>2, SplitKey DEF encode_key
<1> QED
  BY <1>3, SMT DEF SNAPSHOT_LIMIT

LEMMA BelowFinite ==
    ASSUME NEW dirty \in SUBSET Pas, NEW pa
    PROVE  /\ IsFiniteSet(dirty) /\ Cardinality(dirty) \in Nat
           /\ Cardinality(dirty) <= MaxPages
           /\ IsFiniteSet(Below(dirty, pa)) /\ Rank(dirty, pa) \in Nat
<1>1. IsFiniteSet(Pas) /\ Cardinality(Pas) = MaxPages
  BY FS_Interval, Constants DEF Pas
<1>2. IsFiniteSet(dirty) /\ Cardinality(dirty) <= MaxPages
  BY <1>1, FS_Subset
<1>3. Below(dirty, pa) \in SUBSET dirty
  BY DEF Below
<1>4. IsFiniteSet(Below(dirty, pa))
  BY <1>2, <1>3, FS_Subset
<1> QED
  BY <1>2, <1>4, FS_CardinalityType DEF Rank

\* The rank of the next dirty page.
LEMMA RankNext ==
    ASSUME NEW dirty \in SUBSET Pas, NEW p \in dirty, NEW q \in dirty, p < q,
           \A r \in dirty : r <= p \/ q <= r
    PROVE  Rank(dirty, q) = Rank(dirty, p) + 1
<1>1. \A r \in dirty : r \in Nat
  BY Constants
<1>2. Below(dirty, q) = Below(dirty, p) \union {p} /\ p \notin Below(dirty, p)
  <2>1. \A r \in dirty : r < q <=> r < p \/ r = p
    BY <1>1
  <2>2. ~(p < p)
    BY <1>1
  <2> QED
    BY <2>1, <2>2 DEF Below
<1> QED
  BY <1>2, BelowFinite, FS_AddElement DEF Rank

\* Ranks ascend with the pages, and are slots of records_buf.
LEMMA RankAscends ==
    ASSUME NEW dirty \in SUBSET Pas, NEW p \in dirty
    PROVE  /\ Rank(dirty, p) < Cardinality(dirty)
           /\ Rank(dirty, p) \in Pas
           /\ \A q \in dirty : p < q => Rank(dirty, p) < Rank(dirty, q)
<1>1. \A r \in dirty : r \in Nat
  BY Constants
<1> DEFINE upto == Below(dirty, p) \union {p}
<1>2. IsFiniteSet(upto) /\ Cardinality(upto) = Rank(dirty, p) + 1
  <2>1. p \notin Below(dirty, p)
    BY <1>1 DEF Below
  <2> QED
    BY <2>1, BelowFinite, FS_AddElement DEF Rank
<1>3. Rank(dirty, p) < Cardinality(dirty)
  <2>1. upto \in SUBSET dirty
    BY DEF Below
  <2>2. Cardinality(upto) <= Cardinality(dirty)
    BY <2>1, BelowFinite, FS_Subset
  <2> QED
    BY <1>2, <2>2, BelowFinite
<1>4. ASSUME NEW q \in dirty, p < q PROVE Rank(dirty, p) < Rank(dirty, q)
  <2>1. upto \in SUBSET Below(dirty, q)
    <3>1. p < q /\ \A r \in dirty : r < p => r < q
      BY <1>1, <1>4
    <3> QED
      BY <3>1 DEF Below
  <2>2. Cardinality(upto) <= Rank(dirty, q)
    BY <2>1, BelowFinite, FS_Subset DEF Rank
  <2> QED
    BY <1>2, <2>2, BelowFinite
<1>5. Rank(dirty, p) \in Pas
  BY <1>3, BelowFinite, Constants DEF Pas
<1> QED
  BY <1>3, <1>4, <1>5

\* No slot is left over.
LEMMA RankOnto ==
    ASSUME NEW dirty \in SUBSET Pas, NEW i \in 0..(Cardinality(dirty) - 1)
    PROVE  \E pa \in dirty : Rank(dirty, pa) = i
<1> DEFINE slots == 0..(Cardinality(dirty) - 1)
           rank  == [pa \in dirty |-> Rank(dirty, pa)]
<1>1. Cardinality(dirty) \in Nat
  BY BelowFinite
<1>2. IsFiniteSet(slots) /\ Cardinality(slots) = Cardinality(dirty)
  BY <1>1, FS_Interval
<1>3. \A pa \in dirty : Rank(dirty, pa) \in slots
  BY <1>1, BelowFinite, RankAscends
<1>4. rank \in [dirty -> slots]
  BY <1>3
<1>5. ASSUME NEW p \in dirty, NEW q \in dirty, rank[p] = rank[q] PROVE p = q
  <2>1. Rank(dirty, p) = Rank(dirty, q) /\ Rank(dirty, p) \in Nat
    BY <1>5, BelowFinite
  <2>2. ~(p < q) /\ ~(q < p)
    BY <2>1, RankAscends
  <2> QED
    BY <2>2, Constants
<1>6. rank \in Injection(dirty, slots)
  BY <1>4, <1>5 DEF Injection, IsInjective
<1>7. rank \in Surjection(dirty, slots)
  BY <1>2, <1>6, FS_Injection
<1>8. PICK pa \in dirty : rank[pa] = i
  BY <1>7 DEF Surjection
<1> QED
  BY <1>8

-----------------------------------------------------------------------------
(* The inductive invariant.                                                *)

\* The record of a page is in its slot.
InSlot(pa) ==
    /\ records_buf[Rank(DOMAIN memory, pa)].key = encode_key(pa, snapshot_id)
    /\ records_buf[Rank(DOMAIN memory, pa)].kind # "Uninit"

\* Group g has the last of its pages still to do, and its next slot is that of
\* the first of them.
Dealt(g) ==
    /\ todo[g] \subseteq pages_of(g, DOMAIN memory)
    /\ \A pa \in todo[g], q \in pages_of(g, DOMAIN memory) : pa <= q => q \in todo[g]
    /\ \A pa \in todo[g] :
          (\A q \in todo[g] : pa <= q) => write_idx[g] = Rank(DOMAIN memory, pa)

\* The page that a group is appending is the first that it has still to do.
CurrentLeast == \A g \in Groups : cur[g] # None => \A q \in todo[g] : cur[g] <= q

\* A group that has failed leaves the rest of its slots unwritten.
Slotted ==
    /\ CurrentLeast
    /\ pc \in {"pass", "write", "header"} /\ ~failed =>
          /\ \A g \in Groups : Dealt(g)
          /\ \A pa \in DOMAIN memory : pa \notin todo[group_of(pa)] => InSlot(pa)
    /\ pc \in {"write", "header"} => ~failed /\ \A g \in Groups : todo[g] = {}

LEMMA SlottedImplies == TypeOK /\ Slotted => SlotsWritten
<1> SUFFICES ASSUME TypeOK, Slotted, pc \in {"write", "header"}
             PROVE  /\ \A i \in 0..(total_dirty - 1) :
                          /\ records_buf[i].kind # "Uninit"
                          /\ pa_of(records_buf[i].key) \in DOMAIN memory
                          /\ snapshot_of(records_buf[i].key) = snapshot_id
                    /\ \A i, j \in 0..(total_dirty - 1) :
                          i < j => records_buf[i].key < records_buf[j].key
  BY DEF SlotsWritten
<1> DEFINE dirty == DOMAIN memory
<1>1. dirty \in SUBSET Pas /\ snapshot_id \in Nat /\ snapshot_id <= MAX_SNAPSHOT_ID
  BY DEF TypeOK
<1>2. \A pa \in dirty : InSlot(pa)
  BY <1>1, GroupOf DEF Slotted
<1>3. \A i \in 0..(total_dirty - 1) : \E pa \in dirty : Rank(dirty, pa) = i
  BY <1>1, RankOnto DEF total_dirty
<1>4. \A pa \in dirty : /\ encode_key(pa, snapshot_id) \in Nat
                        /\ pa_of(encode_key(pa, snapshot_id)) = pa
                        /\ snapshot_of(encode_key(pa, snapshot_id)) = snapshot_id
  <2> SUFFICES ASSUME NEW pa \in dirty
               PROVE  /\ encode_key(pa, snapshot_id) \in Nat
                      /\ pa_of(encode_key(pa, snapshot_id)) = pa
                      /\ snapshot_of(encode_key(pa, snapshot_id)) = snapshot_id
    OBVIOUS
  <2>1. pa \in 0..(PaLimit - 1)
    BY <1>1, Constants DEF Pas
  <2> QED
    BY <1>1, <2>1, KeyRoundTrip
<1>5. ASSUME NEW i \in 0..(total_dirty - 1)
      PROVE  /\ records_buf[i].kind # "Uninit"
             /\ pa_of(records_buf[i].key) \in dirty
             /\ snapshot_of(records_buf[i].key) = snapshot_id
  <2>1. PICK pa \in dirty : Rank(dirty, pa) = i
    BY <1>3
  <2> QED
    BY <2>1, <1>2, <1>4 DEF InSlot
<1>6. ASSUME NEW i \in 0..(total_dirty - 1), NEW j \in 0..(total_dirty - 1), i < j
      PROVE  records_buf[i].key < records_buf[j].key
  <2>1. PICK p \in dirty : Rank(dirty, p) = i
    BY <1>3
  <2>2. PICK q \in dirty : Rank(dirty, q) = j
    BY <1>3
  <2>3. p \in Nat /\ q \in Nat /\ p <= PaLimit - 1 /\ q <= PaLimit - 1
    BY <1>1, Constants DEF Pas
  <2>4. p < q
    <3>1. i \in Int /\ j \in Int
      BY <1>6, BelowFinite, <1>1 DEF total_dirty
    <3>2. q < p => Rank(dirty, q) < Rank(dirty, p)
      BY <1>1, RankAscends
    <3>3. ~(q < p) /\ p # q
      BY <1>6, <2>1, <2>2, <3>1, <3>2
    <3> QED
      BY <2>3, <3>3
  <2>5. encode_key(p, snapshot_id) < encode_key(q, snapshot_id)
    BY <1>1, <2>3, <2>4, KeysAscend
  <2> QED
    BY <2>1, <2>2, <2>5, <1>2 DEF InSlot
<1> QED
  BY <1>5, <1>6

-----------------------------------------------------------------------------
(* The parts speak of these variables only, and of whether a save is       *)
(* running.                                                                *)

LEMMA SlottedFrame ==
    ASSUME Slotted,
           UNCHANGED <<todo, write_idx, cur, memory, snapshot_id, records_buf, failed>>,
           pc' \in {"pass", "write", "header"} => pc \in {"pass", "write", "header"},
           pc' \in {"write", "header"} => ~failed /\ \A g \in Groups : todo[g] = {}
    PROVE  Slotted'
<1>1. CurrentLeast'
  BY DEF Slotted, CurrentLeast
<1>2. \A g \in Groups : Dealt(g) => Dealt(g)'
  BY DEF Dealt, pages_of, Rank, Below
<1>3. \A pa : InSlot(pa) => InSlot(pa)'
  BY DEF InSlot, Rank, Below
<1> QED
  BY <1>1, <1>2, <1>3 DEF Slotted

\* The first slot that a group is given is that of its first page.
LEMMA SlottedBegin ==
    ASSUME TypeOK, NEW s, NEW mem, NEW first \in [Groups -> Nat], DOMAIN mem \subseteq Pas,
           BeginSave(s, mem, first),
           \A g \in Groups : \A pa \in pages_of(g, DOMAIN mem) :
              (\A q \in pages_of(g, DOMAIN mem) : pa <= q) => first[g] = Rank(DOMAIN mem, pa)
    PROVE  Slotted'
<1>1. /\ pc = "idle" /\ pc' = "pass" /\ memory' = mem /\ write_idx' = first /\ cur' = cur
      /\ todo' = [g \in Groups |-> pages_of(g, DOMAIN mem)]
  BY DEF BeginSave
<1>2. CurrentLeast'
  BY <1>1 DEF TypeOK, CurrentLeast
<1>3. ASSUME NEW g \in Groups PROVE Dealt(g)'
  <2>1. todo'[g] = pages_of(g, DOMAIN memory') /\ write_idx'[g] = first[g]
    BY <1>1
  <2> QED
    BY <1>1, <2>1 DEF Dealt, pages_of, Rank, Below
<1>4. \A pa \in DOMAIN memory' : pa \in todo'[group_of(pa)]
  BY <1>1, GroupOf DEF pages_of
<1> QED
  BY <1>1, <1>2, <1>3, <1>4 DEF Slotted, group_of

\* The groups' dirty pages before a group have the lower ranks.
LEMMA FirstRank ==
    ASSUME NEW dirty \in SUBSET Pas, NEW g \in Groups, NEW pa \in pages_of(g, dirty),
           \A q \in pages_of(g, dirty) : pa <= q
    PROVE  Below(dirty, pa) = {q \in dirty : group_of(q) < g}
<1>1. pa \in dirty /\ group_of(pa) = g /\ g \in Nat /\ \A q \in dirty : q \in Nat
  BY Constants DEF pages_of
<1>2. ASSUME NEW q \in dirty PROVE q < pa <=> group_of(q) < g
  <2>1. /\ group_of(q) \in Nat
        /\ q <= pa => group_of(q) <= g
        /\ pa <= q => g <= group_of(q)
    BY <1>1, GroupsAscend
  <2>2. group_of(q) = g => pa <= q
    BY DEF pages_of
  <2> QED
    BY <1>1, <2>1, <2>2
<1> QED
  BY <1>2 DEF Below

\* Where all pages are dirty, the rank of a page is its number.
LEMMA FullRank ==
    ASSUME NEW total \in Nat, total <= MaxPages, NEW g \in Groups,
           NEW pa \in pages_of(g, 0..(total - 1)),
           \A q \in pages_of(g, 0..(total - 1)) : pa <= q
    PROVE  Rank(0..(total - 1), pa) = g * PagesPerGroup
<1>1. pa \in 0..(total - 1) /\ group_of(pa) = g /\ g \in Nat /\ pa \in Nat
  BY Constants DEF pages_of
<1>2. g * PagesPerGroup \in Nat /\ group_of(g * PagesPerGroup) = g
  BY <1>1, FirstOfGroup
<1>3. g * PagesPerGroup <= pa
  BY <1>1, GroupsAscend
<1>4. g * PagesPerGroup \in pages_of(g, 0..(total - 1))
  BY <1>1, <1>2, <1>3 DEF pages_of
<1>5. pa = g * PagesPerGroup
  BY <1>1, <1>2, <1>3, <1>4
<1>6. Below(0..(total - 1), pa) = 0..(pa - 1)
  BY <1>1 DEF Below
<1>7. Rank(0..(total - 1), pa) = pa
  BY <1>1, <1>6, FS_Interval DEF Rank
<1> QED
  BY <1>5, <1>7

\* A record is written to the slot of its page, and the group moves on to the
\* slot of its next page.
LEMMA SlottedEmit ==
    ASSUME TypeOK, Slotted, pc = "pass",
           NEW g \in Groups, NEW pa \in todo[g], \A q \in todo[g] : pa <= q,
           NEW rec \in Slot, EmitRecord(g, pa, rec),
           rec.key = encode_key(pa, snapshot_id), rec.kind # "Uninit",
           UNCHANGED <<memory, snapshot_id, failed, pc>>,
           \A h \in Groups : cur'[h] = None \/ (h # g /\ cur'[h] = cur[h])
    PROVE  Slotted'
<1> DEFINE dirty == DOMAIN memory
<1>1. /\ dirty \in SUBSET Pas /\ \A q \in dirty : q \in Nat
      /\ pa \in dirty /\ \A h \in Groups : todo[h] \subseteq dirty
  BY Constants DEF TypeOK
<1>2. /\ todo'[g] = todo[g] \ {pa} /\ write_idx'[g] = write_idx[g] + 1
      /\ \A h \in Groups : h # g => todo'[h] = todo[h] /\ write_idx'[h] = write_idx[h]
  BY DEF EmitRecord, TypeOK
<1>3. CurrentLeast'
  BY <1>2 DEF Slotted, CurrentLeast
<1>4. ASSUME ~failed
      PROVE  /\ \A h \in Groups : Dealt(h)'
             /\ \A p \in dirty : p \notin todo'[group_of(p)] => InSlot(p)'
  <2>1. (\A h \in Groups : Dealt(h)) /\ group_of(pa) = g
    BY <1>4 DEF Slotted, Dealt, pages_of
  <2>2. write_idx[g] = Rank(dirty, pa) /\ Rank(dirty, pa) \in Pas
    BY <1>1, <2>1, RankAscends DEF Dealt
  <2>3. /\ \A h \in Groups : pages_of(h, dirty)' = pages_of(h, dirty)
        /\ \A p : Rank(dirty, p)' = Rank(dirty, p)
    BY DEF pages_of, Rank, Below
  <2>4. \A h \in Groups : h # g => Dealt(h)'
    BY <1>2, <2>1, <2>3 DEF Dealt
  <2>5. ASSUME NEW p \in todo'[g], NEW q \in pages_of(g, dirty), p <= q PROVE q \in todo'[g]
    <3>1. p \in todo[g] /\ p # pa /\ pa <= p
      BY <1>2
    <3>2. q \in todo[g]
      BY <2>1, <2>5, <3>1 DEF Dealt
    <3>3. q # pa
      BY <1>1, <2>5, <3>1
    <3> QED
      BY <1>2, <3>2, <3>3
  <2>6. ASSUME NEW p \in todo'[g], \A q \in todo'[g] : p <= q
        PROVE  write_idx'[g] = Rank(dirty, p)
    <3>1. p \in dirty /\ pa < p /\ group_of(p) = g
      BY <1>1, <1>2, <2>1 DEF Dealt, pages_of
    <3>2. ASSUME NEW r \in dirty PROVE r <= pa \/ p <= r
      <4> SUFFICES ASSUME pa <= r, r <= p, r # pa PROVE p <= r
        BY <1>1, <3>1
      <4>1. group_of(r) = g
        BY <1>1, <2>1, <3>1, GroupsAscend
      <4>2. r \in todo[g]
        BY <2>1, <4>1 DEF Dealt, pages_of
      <4> QED
        BY <1>2, <2>6, <4>2
    <3>3. Rank(dirty, p) = Rank(dirty, pa) + 1
      BY <1>1, <3>1, <3>2, RankNext
    <3> QED
      BY <1>2, <2>2, <3>3
  <2>7. Dealt(g)'
    <3>1. todo'[g] \subseteq pages_of(g, dirty)
      BY <1>2, <2>1 DEF Dealt
    <3> QED
      BY <2>3, <2>5, <2>6, <3>1 DEF Dealt
  <2>8. ASSUME NEW p \in dirty, p \notin todo'[group_of(p)] PROVE InSlot(p)'
    <3>1. Rank(dirty, p) \in Pas /\ group_of(p) \in Groups
      BY <1>1, RankAscends, GroupOf
    <3>2. CASE p = pa
      <4>1. records_buf'[Rank(dirty, p)] = rec
        BY <2>2, <3>2 DEF EmitRecord, TypeOK
      <4> QED
        BY <2>3, <3>2, <4>1 DEF InSlot
    <3>3. CASE p # pa
      <4>1. InSlot(p)
        BY <1>2, <1>4, <2>8, <3>1, <3>3 DEF Slotted
      <4>2. Rank(dirty, p) # Rank(dirty, pa)
        <5>1. p < pa \/ pa < p
          BY <1>1, <3>3
        <5>2. Rank(dirty, p) \in Nat /\ Rank(dirty, pa) \in Nat
          BY <2>2, <3>1, Constants
        <5>3. /\ p < pa => Rank(dirty, p) < Rank(dirty, pa)
              /\ pa < p => Rank(dirty, pa) < Rank(dirty, p)
          BY <1>1, RankAscends
        <5> QED
          BY <5>1, <5>2, <5>3
      <4>3. records_buf'[Rank(dirty, p)] = records_buf[Rank(dirty, p)]
        BY <2>2, <3>1, <4>2 DEF EmitRecord, TypeOK
      <4> QED
        BY <2>3, <4>1, <4>3 DEF InSlot
    <3> QED
      BY <3>2, <3>3
  <2> QED
    BY <2>4, <2>7, <2>8
<1> QED
  BY <1>3, <1>4 DEF Slotted, group_of

-----------------------------------------------------------------------------

LEMMA SlottedInit == Init => Slotted
  BY DEF Init, NoCall, Slotted, CurrentLeast

LEMMA SlottedStep == TypeOK /\ Slotted /\ [Next]_vars => Slotted'
<1> SUFFICES ASSUME TypeOK, Slotted, [Next]_vars PROVE Slotted'
  OBVIOUS
<1> USE DEF diskVars, configVars, handleVars, groupVars, callVars, resultVars, countVars
<1>0. pc \in {"write", "header"} => ~failed /\ \A g \in Groups : todo[g] = {}
  BY DEF Slotted
<1>1. ASSUME NEW n \in WorkerCounts, NEW t \in DeltaThresholds, NEW sh \in ShadowModes,
             Open(n, t, sh)
      PROVE  Slotted'
  BY <1>0, <1>1, SlottedFrame DEF Open
<1>2. ASSUME NEW s \in Snapshots, SaveBadLength(s) \/ SaveNothing(s) PROVE Slotted'
  BY <1>0, <1>2, SlottedFrame DEF SaveBadLength, SaveNothing
<1>3. ASSUME NEW s \in Snapshots, NEW total \in PageCounts,
             NEW mem \in [0..(total - 1) -> Contents], BeginSaveAll(s, total, mem)
      PROVE  Slotted'
  <2> DEFINE first == [g \in Groups |-> g * PagesPerGroup]
  <2>1. total \in Nat /\ total <= MaxPages /\ DOMAIN mem \subseteq Pas
    BY Constants, AppendOnlyDbAssumption DEF Pas
  <2>2. first \in [Groups -> Nat]
    BY FirstOfGroup, Constants
  <2>3. ASSUME NEW g \in Groups, NEW pa \in pages_of(g, DOMAIN mem),
               \A q \in pages_of(g, DOMAIN mem) : pa <= q
        PROVE  first[g] = Rank(DOMAIN mem, pa)
    BY <2>1, <2>3, FullRank
  <2>4. BeginSave(s, mem, first)
    BY <1>3 DEF BeginSaveAll
  <2> HIDE DEF first
  <2> QED
    BY <2>1, <2>2, <2>3, <2>4, SlottedBegin
<1>4. ASSUME NEW s \in Snapshots, NEW total \in PageCounts, NEW bitmap \in SUBSET Pas,
             NEW mem \in [mask_last_word(bitmap, total) -> Contents],
             BeginSaveBitmap(s, total, bitmap, mem)
      PROVE  Slotted'
  <2> DEFINE first == offsets(DOMAIN mem)
  <2>1. DOMAIN mem \in SUBSET Pas
    BY DEF mask_last_word
  <2>2. \A g \in Groups : first[g] = Cardinality({pa \in DOMAIN mem : group_of(pa) < g})
    BY DEF offsets
  <2>3. first \in [Groups -> Nat]
    <3> SUFFICES ASSUME NEW g \in Groups PROVE first[g] \in Nat
      BY DEF offsets
    <3>1. {pa \in DOMAIN mem : group_of(pa) < g} \in SUBSET DOMAIN mem
      OBVIOUS
    <3>2. IsFiniteSet({pa \in DOMAIN mem : group_of(pa) < g})
      BY <2>1, <3>1, BelowFinite, FS_Subset
    <3> QED
      BY <2>2, <3>2, FS_CardinalityType
  <2>4. ASSUME NEW g \in Groups, NEW pa \in pages_of(g, DOMAIN mem),
               \A q \in pages_of(g, DOMAIN mem) : pa <= q
        PROVE  first[g] = Rank(DOMAIN mem, pa)
    BY <2>1, <2>2, <2>4, FirstRank DEF Rank
  <2>5. BeginSave(s, mem, first)
    BY <1>4 DEF BeginSaveBitmap
  <2> HIDE DEF first
  <2> QED
    BY <2>1, <2>3, <2>4, <2>5, SlottedBegin
<1>5. ASSUME BeginFlush \/ FlushBlob \/ EndFlush \/ Close PROVE Slotted'
  BY <1>5, SlottedFrame DEF BeginFlush, FlushBlob, EndFlush, Close, Flushed
<1>6. ASSUME NEW g \in Groups, NEW pa \in Pas, EmitZero(g, pa) PROVE Slotted'
  <2> DEFINE rec == new_zero(encode_key(pa, snapshot_id))
  <2>1. /\ pc = "pass" /\ cur[g] = None /\ pa \in todo[g] /\ \A q \in todo[g] : pa <= q
        /\ EmitRecord(g, pa, rec)
        /\ UNCHANGED <<memory, snapshot_id, failed, pc, cur>>
    BY <1>6 DEF EmitZero, Turns
  <2>2. pa \in 0..(PaLimit - 1)
    BY Constants DEF Pas
  <2>3. rec \in Slot /\ rec.key = encode_key(pa, snapshot_id) /\ rec.kind # "Uninit"
    BY <2>2, KeyRoundTrip DEF TypeOK, new_zero, Slot, ChunkKind
  <2> HIDE DEF rec
  <2>4. \A h \in Groups : cur'[h] = None \/ (h # g /\ cur'[h] = cur[h])
    BY <2>1
  <2> QED
    BY <2>1, <2>3, <2>4, SlottedEmit
<1>7. ASSUME NEW g \in Groups, NEW pa \in Pas, LockBlob(g, pa) PROVE Slotted'
  <2>1. /\ cur' = [cur EXCEPT ![g] = pa] /\ \A q \in todo[g] : pa <= q
        /\ UNCHANGED <<todo, write_idx, memory, snapshot_id, records_buf, failed, pc>>
    BY <1>7 DEF LockBlob, Turns
  <2>2. CurrentLeast'
    BY <2>1 DEF Slotted, CurrentLeast, TypeOK
  <2>3. \A h \in Groups : Dealt(h) => Dealt(h)'
    BY <2>1 DEF Dealt, pages_of, Rank, Below
  <2>4. \A p : InSlot(p) => InSlot(p)'
    BY <2>1 DEF InSlot, Rank, Below
  <2> QED
    BY <2>1, <2>2, <2>3, <2>4 DEF Slotted
<1>8. ASSUME NEW g \in Groups, NEW spill \in SpillChoices,
             EmitDelta(g, spill) \/ EmitFull(g, spill)
      PROVE  Slotted'
  <2>1. /\ pc = "pass" /\ cur[g] # None /\ cur' = [cur EXCEPT ![g] = None]
        /\ UNCHANGED <<memory, snapshot_id, failed, pc>>
    BY <1>8 DEF EmitDelta, EmitFull, append_blob
  <2>2. /\ cur[g] \in todo[g] /\ \A q \in todo[g] : cur[g] <= q
        /\ wid(cur[g]) \in Nat /\ at[g] \in Nat
        /\ encode_key(cur[g], snapshot_id) \in Nat
    BY <2>1, CurrentPage DEF Slotted, CurrentLeast
  <2>3. \E rec \in Slot : /\ EmitRecord(g, cur[g], rec)
                          /\ rec.key = encode_key(cur[g], snapshot_id)
                          /\ rec.kind # "Uninit"
    <3>1. CASE EmitDelta(g, spill)
      <4> DEFINE len == blob_len([kind |-> "Delta", data |-> patch_of(cur[g])])
      <4>1. shadow[cur[g]].key \in Nat /\ len \in 0..1
        BY <2>1, <3>1, BlobLen, CurrentPage DEF EmitDelta, DeltaFits, TypeOK
      <4>2. EmitRecord(g, cur[g], new_delta(encode_key(cur[g], snapshot_id), wid(cur[g]),
                                            at[g], len, shadow[cur[g]].key))
        BY <3>1 DEF EmitDelta
      <4> HIDE DEF len
      <4> QED
        BY <2>2, <4>1, <4>2, Records DEF new_delta
    <3>2. CASE EmitFull(g, spill)
      <4> DEFINE len == blob_len([kind |-> "Full", data |-> memory[cur[g]]])
      <4>1. len \in 0..1
        BY BlobLen
      <4>2. EmitRecord(g, cur[g], new_full(encode_key(cur[g], snapshot_id), wid(cur[g]),
                                           at[g], len))
        BY <3>2 DEF EmitFull
      <4> HIDE DEF len
      <4>3. new_full(encode_key(cur[g], snapshot_id), wid(cur[g]), at[g], len) \in Slot
        BY <2>2, <4>1 DEF new_full, Slot, ChunkKind
      <4> QED
        BY <4>2, <4>3 DEF new_full
    <3> QED
      BY <1>8, <3>1, <3>2
  <2>4. \A h \in Groups : cur'[h] = None \/ (h # g /\ cur'[h] = cur[h])
    BY <2>1 DEF TypeOK
  <2> QED
    BY <2>1, <2>2, <2>3, <2>4, SlottedEmit
<1>9. ASSUME PassDone PROVE Slotted'
  BY <1>9, SlottedFrame DEF PassDone
<1>10. ASSUME SeekHeader \/ \E spill \in SpillChoices : WriteRecord(spill) PROVE Slotted'
  BY <1>0, <1>10, SlottedFrame DEF WriteRecord, SeekHeader
\* A call that is over, and one that fails.
<1>11. ASSUME PassFail \/ UpdateHeader \/ WriteFail \/ Crash PROVE Slotted'
  <2>1. pc' = "idle" /\ \A g \in Groups : cur'[g] = None
    BY <1>11 DEF PassFail, UpdateHeader, WriteFail, Crash, Return, EndCall
  <2> QED
    BY <2>1 DEF Slotted, CurrentLeast, None
<1>12. ASSUME NEW g \in Groups, AppendFail(g) PROVE Slotted'
  <2>1. /\ pc' = "pass" /\ failed' = TRUE
        /\ cur' = [cur EXCEPT ![g] = None] /\ todo' = [todo EXCEPT ![g] = {}]
    BY <1>12 DEF AppendFail, GiveUp
  <2>2. CurrentLeast'
    BY <2>1 DEF Slotted, CurrentLeast, TypeOK
  <2> QED
    BY <2>1, <2>2 DEF Slotted
<1>13. ASSUME UNCHANGED vars PROVE Slotted'
  BY <1>0, <1>13, SlottedFrame DEF vars
<1> QED
  BY <1>1, <1>2, <1>3, <1>4, <1>5, <1>6, <1>7, <1>8, <1>9, <1>10, <1>11, <1>12, <1>13
  DEF Next, Call, Step, Fault

\* When the pass has come to its end without an error, slot i of records_buf holds
\* the record of the i-th dirty page, for any number of groups, threads and pages,
\* any bitmap and any interleaving: process_one's raw writes miss no slot and
\* meet in none, and set_len is sound.
THEOREM SlotsAllWritten == Spec => []SlotsWritten
<1>1. TypeOK /\ Slotted => SlotsWritten
  BY SlottedImplies
<1> QED
  BY SlottedInit, SlottedStep, TypeCorrect, <1>1, PTL DEF Spec

-----------------------------------------------------------------------------
(* The order of the log: the inductive invariant.                          *)

Before(r1, r2) ==
    \/ Snap(r1) < Snap(r2)
    \/ Snap(r1) = Snap(r2) /\ pa_of(r1.key) < pa_of(r2.key)

\* The inductive invariant, together with TypeOK, Placed, Ascending and Slotted:
\* the log is in order, and what is still to be written to it belongs behind it.
Sorted ==
    (crashes = 0 /\ ioErrors = 0) =>
        /\ \A i, j \in 1..Len(log) : i < j => Before(log[i], log[j])
        /\ pc = "pass" => \A i \in 1..Len(log) : Snap(log[i]) < snapshot_id
        /\ pc = "write" => \A i \in 1..Len(log), k \in next..(total_dirty - 1) :
                              Before(log[i], records_buf[k])

-----------------------------------------------------------------------------

\* Of two keys of one snapshot, the greater is that of the greater page.
LEMMA KeyOrder ==
    ASSUME NEW k \in Nat, NEW l \in Nat, k < l, snapshot_of(k) = snapshot_of(l)
    PROVE  pa_of(k) < pa_of(l)
  BY SMT DEF pa_of, snapshot_of, SNAPSHOT_LIMIT

\* The slots of records_buf are in order.
LEMMA SlotsAscend ==
    ASSUME TypeOK, Slotted, pc = "write",
           NEW i \in 0..(total_dirty - 1), NEW j \in 0..(total_dirty - 1), i < j
    PROVE  Before(records_buf[i], records_buf[j])
<1>1. /\ Snap(records_buf[i]) = snapshot_id /\ Snap(records_buf[j]) = snapshot_id
      /\ records_buf[i].key < records_buf[j].key
  BY SlottedImplies DEF SlotsWritten, Snap
<1>2. i \in Pas /\ j \in Pas
  <2>1. DOMAIN memory \in SUBSET Pas
    BY DEF TypeOK
  <2>2. total_dirty \in Nat /\ total_dirty <= MaxPages
    BY <2>1, BelowFinite DEF total_dirty
  <2> QED
    BY <2>2, Constants DEF Pas
<1>3. records_buf[i].key \in Nat /\ records_buf[j].key \in Nat
  BY <1>2 DEF TypeOK, Slot
<1>4. pa_of(records_buf[i].key) < pa_of(records_buf[j].key)
  BY <1>1, <1>3, KeyOrder DEF Snap
<1> QED
  BY <1>1, <1>4 DEF Before

\* A save that is accepted is of a snapshot above all of the log.
LEMMA AcceptsBeyond ==
    ASSUME TypeOK, isOpen, NEW s \in Snapshots, accepts(s),
           \A i \in 1..Len(log) : last_snapshot # None /\ Snap(log[i]) <= last_snapshot
    PROVE  \A i \in 1..Len(log) : Snap(log[i]) < s
<1>1. s \in Nat /\ last_snapshot \in Nat \union {None}
  BY AppendOnlyDbAssumption DEF TypeOK
<1>2. \A i \in 1..Len(log) : Snap(log[i]) \in Nat
  BY SnapType, LogSlots
<1>3. last_snapshot = None \/ s > last_snapshot
  BY DEF accepts
<1> QED
  BY <1>1, <1>2, <1>3 DEF None

\* Snapshots and pages of records do not depend on the state.
LEMMA BeforeStable == \A r1, r2 : Before(r1, r2)' = Before(r1, r2) /\ Snap(r1)' = Snap(r1)
  BY DEF Before, Snap, snapshot_of, pa_of

\* Steps that leave the log alone.
LEMMA SortedFrame ==
    ASSUME Sorted, UNCHANGED <<log, crashes, ioErrors>>,
           pc' = "pass" => pc = "pass" /\ UNCHANGED snapshot_id,
           pc' = "write" => pc = "write" /\ UNCHANGED <<next, memory, records_buf>>
    PROVE  Sorted'
<1>1. pc' = "write" => total_dirty' = total_dirty
  BY DEF total_dirty
<1> QED
  BY <1>1, BeforeStable DEF Sorted

LEMMA SortedInit == Init => Sorted
  BY DEF Init, NoCall, Sorted

LEMMA SortedStep ==
    TypeOK /\ Placed /\ Ascending /\ Slotted /\ Sorted /\ [Next]_vars => Sorted'
<1> SUFFICES ASSUME TypeOK, Placed, Ascending, Slotted, Sorted, [Next]_vars PROVE Sorted'
  OBVIOUS
<1> USE DEF diskVars, configVars, handleVars, groupVars, callVars, resultVars, countVars
<1>1. ASSUME NEW s \in Snapshots, NEW mem, NEW first, BeginSave(s, mem, first)
      PROVE  Sorted'
  <2> SUFFICES ASSUME crashes' = 0, ioErrors' = 0 PROVE Sorted'
    BY DEF Sorted
  <2>1. /\ isOpen /\ pc' = "pass" /\ accepts(s) /\ snapshot_id' = s
        /\ UNCHANGED <<log, crashes, ioErrors>>
    BY <1>1 DEF BeginSave
  <2>2. \A i \in 1..Len(log) : last_snapshot # None /\ Snap(log[i]) <= last_snapshot
    BY <2>1 DEF Ascending, Recent
  <2>3. \A i \in 1..Len(log) : Snap(log[i]) < s
    BY <2>1, <2>2, AcceptsBeyond
  <2> QED
    BY <2>1, <2>3, BeforeStable DEF Sorted
<1>2. ASSUME \/ \E n \in WorkerCounts, t \in DeltaThresholds, sh \in ShadowModes : Open(n, t, sh)
             \/ \E s \in Snapshots : SaveBadLength(s) \/ SaveNothing(s)
             \/ BeginFlush \/ FlushBlob \/ EndFlush \/ Close
      PROVE  Sorted'
  <2>1. UNCHANGED <<log, crashes, ioErrors, snapshot_id, memory, records_buf>>
    BY <1>2 DEF Open, SaveBadLength, SaveNothing, BeginFlush, FlushBlob, EndFlush, Close, Flushed
  <2>2. UNCHANGED <<pc, next>> \/ pc' \in {"flush", "idle"}
    BY <1>2 DEF Open, SaveBadLength, SaveNothing, BeginFlush, FlushBlob, EndFlush, Close, Flushed
  <2> QED
    BY <2>1, <2>2, SortedFrame
<1>3. ASSUME NEW g \in Groups,
             \/ \E pa \in Pas : EmitZero(g, pa) \/ LockBlob(g, pa)
             \/ \E spill \in SpillChoices : EmitDelta(g, spill) \/ EmitFull(g, spill)
      PROVE  Sorted'
  <2>1. pc = "pass" /\ UNCHANGED <<log, crashes, ioErrors, snapshot_id, pc>>
    BY <1>3 DEF EmitZero, LockBlob, EmitDelta, EmitFull, Turns
  <2> QED
    BY <2>1, SortedFrame
<1>4. ASSUME PassDone PROVE Sorted'
  <2> SUFFICES ASSUME crashes' = 0, ioErrors' = 0 PROVE Sorted'
    BY DEF Sorted
  <2>1. /\ pc = "pass" /\ pc' = "write" /\ UNCHANGED <<log, crashes, ioErrors>>
        /\ UNCHANGED <<records_buf, memory, snapshot_id, next>>
    BY <1>4 DEF PassDone
  <2>2. TypeOK' /\ Slotted'
    BY TypeStep, SlottedStep
  <2>3. \A k \in 0..(total_dirty' - 1) : Snap(records_buf'[k]) = snapshot_id'
    <3>1. SlotsWritten'
      BY <2>2, SlottedImplies, PTL
    <3> QED
      BY <2>1, <3>1 DEF SlotsWritten, Snap
  <2>4. next' \in Nat
    BY <2>2 DEF TypeOK
  <2>5. \A i \in 1..Len(log'), k \in next'..(total_dirty' - 1) :
           Snap(log'[i]) < Snap(records_buf'[k])
    <3>1. \A i \in 1..Len(log') : Snap(log'[i]) < snapshot_id'
      BY <2>1 DEF Sorted
    <3>2. \A k \in next'..(total_dirty' - 1) : k \in 0..(total_dirty' - 1)
      BY <2>4
    <3> QED
      BY <2>3, <3>1, <3>2
  <2> QED
    BY <2>1, <2>5, BeforeStable DEF Sorted, Before
<1>5. ASSUME NEW spill \in SpillChoices, WriteRecord(spill) PROVE Sorted'
  <2> SUFFICES ASSUME crashes' = 0, ioErrors' = 0 PROVE Sorted'
    BY DEF Sorted
  <2>1. /\ pc = "write" /\ pc' = "write" /\ next \in Pas /\ next < total_dirty
        /\ next' = next + 1 /\ log' = Append(log, records_buf[next])
        /\ UNCHANGED <<records_buf, memory, snapshot_id, crashes, ioErrors>>
    BY <1>5, NextSlot DEF WriteRecord
  <2>2. /\ Len(log') = Len(log) + 1 /\ Len(log) \in Nat
        /\ log'[Len(log')] = records_buf[next]
        /\ \A i \in 1..Len(log) : log'[i] = log[i]
        /\ \A i \in 1..Len(log') : i = Len(log') \/ i \in 1..Len(log)
    BY <2>1 DEF TypeOK
  <2>3. next \in Nat /\ total_dirty \in Nat /\ total_dirty' = total_dirty
    <3>1. DOMAIN memory \in SUBSET Pas
      BY DEF TypeOK
    <3> QED
      BY <2>1, <3>1, BelowFinite, Constants DEF total_dirty
  <2>4. \A i \in 1..Len(log), k \in next..(total_dirty - 1) : Before(log[i], records_buf[k])
    BY <2>1 DEF Sorted
  <2>5. \A k \in (next + 1)..(total_dirty - 1) : Before(records_buf[next], records_buf[k])
    BY <2>1, <2>3, SlotsAscend
  <2>6. \A i \in 1..Len(log'), k \in (next + 1)..(total_dirty - 1) :
           Before(log'[i], records_buf[k])
    BY <2>2, <2>3, <2>4, <2>5
  <2>7. \A i, j \in 1..Len(log') : i < j => Before(log'[i], log'[j])
    <3>1. \A i \in 1..Len(log) : Before(log[i], records_buf[next])
      BY <2>1, <2>3, <2>4
    <3>2. \A i, j \in 1..Len(log) : i < j => Before(log[i], log[j])
      BY <2>1 DEF Sorted
    <3> QED
      BY <2>2, <3>1, <3>2
  <2> QED
    BY <2>1, <2>3, <2>6, <2>7, BeforeStable DEF Sorted
<1>6. ASSUME PassFail \/ SeekHeader \/ UpdateHeader PROVE Sorted'
  <2>1. pc' \in {"idle", "header"} /\ UNCHANGED <<log, crashes, ioErrors>>
    BY <1>6 DEF PassFail, SeekHeader, UpdateHeader, Return
  <2> QED
    BY <2>1, SortedFrame
\* From the first fault on, nothing is claimed.
<1>7. ASSUME \/ \E g \in Groups : AppendFail(g)
             \/ WriteFail
             \/ Crash
      PROVE  Sorted'
  <2>1. crashes' = crashes + 1 \/ ioErrors' = ioErrors + 1
    BY <1>7 DEF AppendFail, GiveUp, WriteFail, Crash
  <2>2. crashes' # 0 \/ ioErrors' # 0
    BY <2>1 DEF TypeOK
  <2> QED
    BY <2>2 DEF Sorted
<1>8. ASSUME UNCHANGED vars PROVE Sorted'
  BY <1>8, SortedFrame DEF vars
<1> QED
  BY <1>1, <1>2, <1>3, <1>4, <1>5, <1>6, <1>7, <1>8
  DEF Next, Call, Step, Fault, BeginSaveAll, BeginSaveBitmap

\* Without crashes and write errors the log is strictly ascending by snapshot and
\* page, however the threads of the pool have interleaved: the streaming conversion
\* does not panic on it, and no two versions share a key.
THEOREM LogAlwaysInOrder == Spec => []LogInOrder
<1>1. Sorted => LogInOrder
  BY DEF Sorted, LogInOrder, Before, Snap
<1> QED
  BY PlacedInit, PlacedStep, AscendingInit, AscendingStep, SlottedInit, SlottedStep,
     SortedInit, SortedStep, TypeCorrect, <1>1, PTL DEF Spec

-----------------------------------------------------------------------------
(* The bases of Deltas: the inductive invariant.                           *)

Saving == pc \in {"pass", "write", "header"}

\* The record of page pa.
Rec(pa) == records_buf[Rank(DOMAIN memory, pa)]

Done(pa) == pa \in DOMAIN memory /\ pa \notin todo[group_of(pa)]

\* The log has a Full chunk with key k.
FullAt(k) == \E j \in 1..Len(log) : log[j].key = k /\ log[j].kind = "Full"

\* Key k may serve as the base of a Delta of page pa in the save in progress.
BaseOf(pa, k) == FullAt(k) /\ pa_of(k) = pa /\ snapshot_of(k) < snapshot_id

\* What the shadow remembers is in the log, or will be when the save is over.
ShadowKept ==
    \A pa \in Pas : shadow[pa].key # None =>
        /\ pa_of(shadow[pa].key) = pa
        /\ last_snapshot # None
        /\ snapshot_of(shadow[pa].key) <= last_snapshot
        /\ \/ FullAt(shadow[pa].key)
           \/ /\ Saving /\ Done(pa)
              /\ Rec(pa).kind = "Full"
              /\ shadow[pa].key = encode_key(pa, snapshot_id)

\* So it is with pages that are still to do, and Deltas that have been made.
PassBased ==
    /\ pc = "pass" =>
          \A pa \in DOMAIN memory :
              (~Done(pa) /\ shadow[pa].key # None) => BaseOf(pa, shadow[pa].key)
    /\ Saving =>
          \A pa \in DOMAIN memory :
              (Done(pa) /\ Rec(pa).kind = "Delta") => BaseOf(pa, Rec(pa).base_key)

\* How far the records have been written.
Progress ==
    /\ pc \in {"idle", "pass"} => next = 0
    /\ pc \in {"write", "header"} =>
          \A k \in 0..(total_dirty - 1) :
              k < next => \E j \in 1..Len(log) : log[j] = records_buf[k]
    /\ pc = "header" => next >= total_dirty

\* The inductive invariant, together with TypeOK, Placed and Slotted.
Based ==
    ioErrors = 0 =>
        /\ ~failed
        /\ Saving => last_snapshot = snapshot_id
        /\ DeltaAlwaysHasBase
        /\ ShadowKept
        /\ PassBased
        /\ Progress

-----------------------------------------------------------------------------
(* What the parts rest on.                                                 *)

LEMMA Stable ==
    \A k : pa_of(k)' = pa_of(k) /\ snapshot_of(k)' = snapshot_of(k) /\ group_of(k)' = group_of(k)
  BY DEF pa_of, snapshot_of, group_of

LEMMA SnapNat == \A k \in Nat : snapshot_of(k) \in Nat /\ pa_of(k) \in Nat
  BY SMT DEF pa_of, snapshot_of, SNAPSHOT_LIMIT

\* The slots of two pages are not the same.
LEMMA SlotsApart ==
    ASSUME NEW dirty \in SUBSET Pas, NEW p \in dirty, NEW q \in dirty, p # q
    PROVE  Rank(dirty, p) # Rank(dirty, q)
<1>1. p < q \/ q < p
  BY Constants
<1>2. Rank(dirty, p) \in Nat /\ Rank(dirty, q) \in Nat
  BY BelowFinite
<1>3. /\ p < q => Rank(dirty, p) < Rank(dirty, q)
      /\ q < p => Rank(dirty, q) < Rank(dirty, p)
  BY RankAscends
<1> QED
  BY <1>1, <1>2, <1>3

\* Steps that change neither the log nor what the parts say of a save.
LEMMA BasedFrame ==
    ASSUME Based,
           UNCHANGED <<log, shadow, last_snapshot, todo, memory, snapshot_id, records_buf,
                       failed, ioErrors>>,
           Saving' <=> Saving, pc' = "pass" => pc = "pass", Progress => Progress'
    PROVE  Based'
<1> SUFFICES ASSUME ioErrors' = 0
             PROVE  /\ ~failed' /\ (Saving' => last_snapshot' = snapshot_id')
                    /\ DeltaAlwaysHasBase' /\ ShadowKept' /\ PassBased' /\ Progress'
  BY DEF Based
<1>1. /\ ~failed /\ (Saving => last_snapshot = snapshot_id)
      /\ DeltaAlwaysHasBase /\ ShadowKept /\ PassBased /\ Progress
  BY DEF Based
<1>2. /\ \A pa : (Done(pa)' <=> Done(pa)) /\ Rec(pa)' = Rec(pa)
      /\ \A k : FullAt(k)' <=> FullAt(k)
      /\ \A pa, k : BaseOf(pa, k)' <=> BaseOf(pa, k)
      /\ \A pa : encode_key(pa, snapshot_id)' = encode_key(pa, snapshot_id)
  BY DEF Done, Rec, FullAt, BaseOf, Rank, Below, group_of, pa_of, snapshot_of, encode_key
<1>3. DeltaAlwaysHasBase'
  BY <1>1, Stable DEF DeltaAlwaysHasBase, HasBase
<1>4. ShadowKept'
  BY <1>1, <1>2, Stable DEF ShadowKept
<1>5. PassBased'
  BY <1>1, <1>2 DEF PassBased
<1> QED
  BY <1>1, <1>3, <1>4, <1>5

\* A record is put in the slot of its page, whose group then has done it, and in
\* no other.
LEMMA EmitDone ==
    ASSUME TypeOK, Slotted, ~failed, pc = "pass",
           NEW g \in Groups, NEW pa \in todo[g], \A q \in todo[g] : pa <= q,
           NEW rec \in Slot, EmitRecord(g, pa, rec),
           UNCHANGED <<memory, snapshot_id>>
    PROVE  /\ pa \in DOMAIN memory /\ pa \in Pas /\ ~Done(pa)
           /\ Rec(pa)' = rec /\ Done(pa)'
           /\ \A q \in DOMAIN memory :
                 q # pa => Rec(q)' = Rec(q) /\ (Done(q)' <=> Done(q))
<1> DEFINE dirty == DOMAIN memory
<1>1. /\ dirty \in SUBSET Pas /\ pa \in dirty /\ pa \in Pas
      /\ group_of(pa) = g /\ Dealt(g) /\ ~Done(pa)
  BY DEF TypeOK, Slotted, Dealt, pages_of, Done
<1>2. write_idx[g] = Rank(dirty, pa) /\ Rank(dirty, pa) \in Pas
  BY <1>1, RankAscends DEF Dealt
<1>3. ASSUME NEW q \in dirty, q # pa PROVE Rec(q)' = Rec(q) /\ (Done(q)' <=> Done(q))
  <2>1. Rank(dirty, q) # Rank(dirty, pa) /\ Rank(dirty, q) \in Pas /\ group_of(q) \in Groups
    BY <1>1, <1>3, SlotsApart, RankAscends, GroupOf
  <2>2. Rank(DOMAIN memory, q)' = Rank(DOMAIN memory, q)
    BY DEF Rank, Below
  <2>3. records_buf'[Rank(dirty, q)] = records_buf[Rank(dirty, q)]
    BY <1>2, <2>1 DEF EmitRecord, TypeOK
  <2>4. q \in todo'[group_of(q)] <=> q \in todo[group_of(q)]
    BY <1>3, <2>1 DEF EmitRecord, TypeOK
  <2> QED
    BY <2>2, <2>3, <2>4, Stable DEF Rec, Done
<1>4. Rec(pa)' = rec /\ Done(pa)'
  <2>1. Rank(DOMAIN memory, pa)' = Rank(DOMAIN memory, pa)
    BY DEF Rank, Below
  <2>2. records_buf'[Rank(dirty, pa)] = rec
    BY <1>2 DEF EmitRecord, TypeOK
  <2>3. pa \notin todo'[g]
    BY DEF EmitRecord, TypeOK
  <2> QED
    BY <1>1, <2>1, <2>2, <2>3, Stable DEF Rec, Done
<1> QED
  BY <1>1, <1>3, <1>4

\* A page is done, with its record in its slot.
LEMMA BasedEmit ==
    ASSUME TypeOK, Slotted, Based, pc = "pass",
           NEW g \in Groups, NEW pa \in todo[g], \A q \in todo[g] : pa <= q,
           NEW rec \in Slot, EmitRecord(g, pa, rec),
           rec.kind = "Delta" => shadow[pa].key # None /\ rec.base_key = shadow[pa].key,
           UNCHANGED <<log, memory, snapshot_id, failed, pc, last_snapshot, next, ioErrors>>,
           \A q \in Pas : q # pa => shadow'[q] = shadow[q],
           \/ shadow'[pa] = shadow[pa]
           \/ rec.kind = "Full" /\ shadow'[pa].key = encode_key(pa, snapshot_id)
    PROVE  Based'
<1> SUFFICES ASSUME ioErrors' = 0
             PROVE  /\ ~failed' /\ (Saving' => last_snapshot' = snapshot_id')
                    /\ DeltaAlwaysHasBase' /\ ShadowKept' /\ PassBased' /\ Progress'
  BY DEF Based
<1> DEFINE dirty == DOMAIN memory
<1>1. /\ ~failed /\ last_snapshot = snapshot_id /\ snapshot_id # None
      /\ DeltaAlwaysHasBase /\ ShadowKept /\ PassBased /\ Progress
  BY DEF Based, Saving, TypeOK, None
<1>2. dirty \in SUBSET Pas /\ pa \in dirty /\ pa \in Pas /\ ~Done(pa)
  BY <1>1, EmitDone DEF TypeOK
<1>4. ASSUME NEW q \in dirty, q # pa PROVE Rec(q)' = Rec(q) /\ (Done(q)' <=> Done(q))
  BY <1>1, <1>4, EmitDone
<1>5. Rec(pa)' = rec /\ Done(pa)'
  BY <1>1, EmitDone
<1>6. /\ \A k : FullAt(k)' <=> FullAt(k)
      /\ \A q, k : BaseOf(q, k)' <=> BaseOf(q, k)
      /\ \A q : encode_key(q, snapshot_id)' = encode_key(q, snapshot_id)
      /\ Saving /\ Saving'
  BY DEF FullAt, BaseOf, pa_of, snapshot_of, encode_key, Saving
<1>7. shadow[pa].key # None => BaseOf(pa, shadow[pa].key)
  BY <1>1, <1>2 DEF PassBased
<1>8. DeltaAlwaysHasBase'
  BY <1>1, Stable DEF DeltaAlwaysHasBase, HasBase
<1>9. PassBased'
  <2>1. ASSUME NEW q \in dirty, ~Done(q)', shadow'[q].key # None
        PROVE  BaseOf(q, shadow[q].key) /\ shadow'[q] = shadow[q]
    BY <1>1, <1>2, <1>4, <1>5, <2>1 DEF PassBased
  <2>2. ASSUME NEW q \in dirty, Done(q)', Rec(q)'.kind = "Delta"
        PROVE  BaseOf(q, Rec(q)'.base_key)
    BY <1>1, <1>4, <1>5, <1>6, <1>7, <2>2 DEF PassBased
  <2> QED
    BY <1>6, <2>1, <2>2 DEF PassBased
<1>10. ShadowKept'
  <2> SUFFICES ASSUME NEW q \in Pas, shadow'[q].key # None
               PROVE  /\ pa_of(shadow'[q].key) = q
                      /\ last_snapshot # None
                      /\ snapshot_of(shadow'[q].key) <= last_snapshot
                      /\ \/ FullAt(shadow'[q].key)
                         \/ /\ Done(q)'
                            /\ Rec(q)'.kind = "Full"
                            /\ shadow'[q].key = encode_key(q, snapshot_id)
    BY <1>6, Stable DEF ShadowKept
  <2>1. CASE q # pa
    BY <1>1, <1>4, <1>6, <2>1 DEF ShadowKept, Done
  <2>2. CASE q = pa /\ shadow'[pa] = shadow[pa]
    BY <1>1, <1>7, <2>2 DEF ShadowKept, BaseOf
  <2>3. CASE q = pa /\ rec.kind = "Full" /\ shadow'[pa].key = encode_key(pa, snapshot_id)
    <3>1. /\ pa \in 0..(PaLimit - 1)
          /\ snapshot_id \in Nat /\ snapshot_id <= MAX_SNAPSHOT_ID
      <4>1. pa \in 0..(PaLimit - 1)
        BY <1>2, Constants DEF Pas
      <4> QED
        BY <4>1 DEF TypeOK
    <3>2. /\ pa_of(encode_key(pa, snapshot_id)) = pa
          /\ snapshot_of(encode_key(pa, snapshot_id)) = snapshot_id
          /\ snapshot_id <= snapshot_id
      BY <3>1, KeyRoundTrip
    <3> QED
      BY <1>1, <1>5, <2>3, <3>2
  <2> QED
    BY <2>1, <2>2, <2>3
<1>11. Progress'
  BY <1>1 DEF Progress
<1> QED
  BY <1>1, <1>8, <1>9, <1>10, <1>11

\* Outside a save all that the shadow remembers is in the log, and is older
\* than any snapshot that will be accepted.
LEMMA ShadowBelow ==
    ASSUME TypeOK, ShadowKept, ~Saving, NEW s \in Snapshots, accepts(s),
           NEW pa \in Pas, shadow[pa].key # None
    PROVE  /\ FullAt(shadow[pa].key) /\ pa_of(shadow[pa].key) = pa
           /\ snapshot_of(shadow[pa].key) < s /\ snapshot_of(shadow[pa].key) <= s
<1>1. /\ FullAt(shadow[pa].key) /\ pa_of(shadow[pa].key) = pa
      /\ last_snapshot # None /\ snapshot_of(shadow[pa].key) <= last_snapshot
  BY DEF ShadowKept
<1>2. s > last_snapshot
  BY <1>1 DEF accepts
<1>3. snapshot_of(shadow[pa].key) \in Nat /\ last_snapshot \in Nat /\ s \in Nat
  <2>1. shadow[pa].key \in Nat
    BY DEF TypeOK
  <2> QED
    BY <1>1, <2>1, SnapNat, AppendOnlyDbAssumption DEF TypeOK
<1> QED
  BY <1>1, <1>2, <1>3

\* At the start of a save all that the shadow remembers is in the log.
LEMMA BasedBegin ==
    ASSUME TypeOK, Based, NEW s \in Snapshots, NEW mem, NEW first, DOMAIN mem \subseteq Pas,
           BeginSave(s, mem, first)
    PROVE  Based'
<1> SUFFICES ASSUME ioErrors' = 0
             PROVE  /\ ~failed' /\ (Saving' => last_snapshot' = snapshot_id')
                    /\ DeltaAlwaysHasBase' /\ ShadowKept' /\ PassBased' /\ Progress'
  BY DEF Based
<1>1. /\ pc = "idle" /\ pc' = "pass" /\ memory' = mem /\ last_snapshot' = s /\ snapshot_id' = s
      /\ todo' = [g \in Groups |-> pages_of(g, DOMAIN mem)]
      /\ UNCHANGED <<log, shadow, next, failed, ioErrors>>
      /\ accepts(s)
  BY DEF BeginSave, diskVars, countVars
<1>2. ~failed /\ DeltaAlwaysHasBase /\ ShadowKept /\ Progress /\ ~Saving
  BY <1>1 DEF Based, Saving
<1>3. \A pa \in DOMAIN memory' : ~Done(pa)'
  <2>1. \A pa \in DOMAIN mem : pa \in todo'[group_of(pa)]
    BY <1>1, GroupOf DEF pages_of
  <2> QED
    BY <1>1, <2>1, Stable DEF Done
<1>4. \A k : FullAt(k)' <=> FullAt(k)
  BY <1>1 DEF FullAt
<1>5. ASSUME NEW pa \in Pas, shadow[pa].key # None
      PROVE  /\ FullAt(shadow[pa].key) /\ pa_of(shadow[pa].key) = pa
             /\ snapshot_of(shadow[pa].key) < s
  BY <1>1, <1>2, <1>5, ShadowBelow
<1>6. PassBased'
  <2>1. \A pa \in DOMAIN mem : shadow'[pa].key # None => BaseOf(pa, shadow[pa].key)'
    BY <1>1, <1>4, <1>5, Stable DEF BaseOf
  <2> QED
    BY <1>1, <1>3, <2>1 DEF PassBased
<1>7. ShadowKept'
  <2>1. s # None /\ s \in Nat
    BY AppendOnlyDbAssumption DEF None
  <2>2. \A pa \in Pas : shadow[pa].key # None => snapshot_of(shadow[pa].key) <= s
    BY <1>1, <1>2, ShadowBelow
  <2> QED
    BY <1>1, <1>4, <1>5, <2>1, <2>2, Stable DEF ShadowKept
<1>8. DeltaAlwaysHasBase'
  BY <1>1, <1>2, Stable DEF DeltaAlwaysHasBase, HasBase
<1>9. Progress'
  BY <1>1, <1>2 DEF Progress
<1> QED
  BY <1>1, <1>2, <1>6, <1>7, <1>8, <1>9

\* A record goes to the log: its base is there already.
LEMMA BasedWrite ==
    ASSUME TypeOK, Slotted, Based, NEW spill, WriteRecord(spill)
    PROVE  Based'
<1> SUFFICES ASSUME ioErrors' = 0
             PROVE  /\ ~failed' /\ (Saving' => last_snapshot' = snapshot_id')
                    /\ DeltaAlwaysHasBase' /\ ShadowKept' /\ PassBased' /\ Progress'
  BY DEF Based
<1> DEFINE dirty == DOMAIN memory
           rec   == records_buf[next]
<1>1. /\ pc = "write" /\ next < total_dirty /\ next' = next + 1 /\ log' = Append(log, rec)
      /\ UNCHANGED <<pc, shadow, last_snapshot, todo, memory, snapshot_id, records_buf,
                     failed, ioErrors>>
  BY DEF WriteRecord, handleVars, groupVars, resultVars, countVars
<1>2. /\ ~failed /\ (Saving => last_snapshot = snapshot_id)
      /\ DeltaAlwaysHasBase /\ ShadowKept /\ PassBased /\ Progress
  BY <1>1 DEF Based
<1>3. rec \in Slot /\ dirty \in SUBSET Pas /\ next \in Nat /\ total_dirty \in Nat
  BY <1>1, NextSlot, BelowFinite DEF TypeOK, total_dirty
<1>4. /\ Len(log') = Len(log) + 1 /\ Len(log) \in Nat
      /\ log'[Len(log')] = rec
      /\ \A i \in 1..Len(log) : log'[i] = log[i] /\ i \in 1..Len(log')
      /\ \A i \in 1..Len(log') : i = Len(log') \/ i \in 1..Len(log)
  BY <1>1, <1>3 DEF TypeOK
<1>5. /\ \A pa : (Done(pa)' <=> Done(pa)) /\ Rec(pa)' = Rec(pa)
      /\ \A pa : encode_key(pa, snapshot_id)' = encode_key(pa, snapshot_id)
      /\ total_dirty' = total_dirty
      /\ Saving' <=> Saving
  BY <1>1 DEF Done, Rec, Rank, Below, group_of, encode_key, total_dirty, Saving
<1>6. \A k : FullAt(k) => FullAt(k)'
  BY <1>4 DEF FullAt
<1>7. \A pa, k : BaseOf(pa, k) => BaseOf(pa, k)'
  BY <1>1, <1>6, Stable DEF BaseOf
<1>8. DeltaAlwaysHasBase'
  <2> SUFFICES ASSUME NEW i \in 1..Len(log'), log'[i].kind = "Delta"
               PROVE  \E j \in 1..(i - 1) :
                        /\ log'[j].key = log'[i].base_key
                        /\ log'[j].kind = "Full"
                        /\ pa_of(log'[j].key) = pa_of(log'[i].key)
                        /\ snapshot_of(log'[j].key) < snapshot_of(log'[i].key)
    BY Stable DEF DeltaAlwaysHasBase, HasBase
  <2>1. CASE i \in 1..Len(log)
    <3>1. PICK j \in 1..(i - 1) :
                 /\ log[j].key = log[i].base_key
                 /\ log[j].kind = "Full"
                 /\ pa_of(log[j].key) = pa_of(log[i].key)
                 /\ snapshot_of(log[j].key) < snapshot_of(log[i].key)
      BY <1>2, <1>4, <2>1 DEF DeltaAlwaysHasBase, HasBase
    <3>2. log'[i] = log[i] /\ log'[j] = log[j]
      BY <1>4, <2>1
    <3> QED
      BY <3>1, <3>2
  <2>2. CASE i = Len(log')
    <3>1. PICK pa \in dirty : Rank(dirty, pa) = next
      BY <1>1, <1>3, RankOnto DEF total_dirty
    <3>2. Done(pa) /\ InSlot(pa)
      BY <1>1, <1>3, <3>1, GroupOf DEF Slotted, Done
    <3>3. log'[i] = Rec(pa) /\ Rec(pa) = rec
      BY <1>4, <2>2, <3>1 DEF Rec
    <3>4. BaseOf(pa, rec.base_key)
      BY <1>1, <1>2, <3>2, <3>3 DEF PassBased, Saving
    <3>5. pa_of(rec.key) = pa /\ snapshot_of(rec.key) = snapshot_id
      <4>1. pa \in 0..(PaLimit - 1)
        BY <1>3, Constants DEF Pas
      <4>2. snapshot_id \in Nat /\ snapshot_id <= MAX_SNAPSHOT_ID
        BY DEF TypeOK
      <4>3. rec.key = encode_key(pa, snapshot_id)
        BY <3>1, <3>2 DEF InSlot
      <4> QED
        BY <4>1, <4>2, <4>3, KeyRoundTrip
    <3>6. PICK j \in 1..Len(log) : log[j].key = rec.base_key /\ log[j].kind = "Full"
      BY <3>4 DEF BaseOf, FullAt
    <3>7. j \in 1..(i - 1) /\ log'[j] = log[j]
      BY <1>4, <2>2, <3>6
    <3> QED
      BY <3>3, <3>4, <3>5, <3>6, <3>7 DEF BaseOf
  <2> QED
    BY <1>4, <2>1, <2>2
<1>9. ShadowKept'
  BY <1>1, <1>2, <1>5, <1>6, Stable DEF ShadowKept
<1>10. PassBased'
  BY <1>1, <1>2, <1>5, <1>7 DEF PassBased
<1>11. Progress'
  <2>1. ASSUME NEW k \in 0..(total_dirty - 1), k < next + 1
        PROVE  \E j \in 1..Len(log') : log'[j] = records_buf[k]
    <3>1. CASE k = next
      BY <1>4, <3>1
    <3>2. CASE k < next
      <4>1. PICK j \in 1..Len(log) : log[j] = records_buf[k]
        BY <1>1, <1>2, <3>2 DEF Progress
      <4> QED
        BY <1>4, <4>1
    <3> QED
      BY <1>3, <2>1, <3>1, <3>2
  <2> QED
    BY <1>1, <1>5, <2>1 DEF Progress
<1> QED
  BY <1>1, <1>2, <1>5, <1>8, <1>9, <1>10, <1>11

\* When a save ends well, the log has all that the shadow remembers.
LEMMA BasedReturn ==
    ASSUME TypeOK, Slotted, Based, UpdateHeader
    PROVE  Based'
<1> SUFFICES ASSUME ioErrors' = 0
             PROVE  /\ ~failed' /\ (Saving' => last_snapshot' = snapshot_id')
                    /\ DeltaAlwaysHasBase' /\ ShadowKept' /\ PassBased' /\ Progress'
  BY DEF Based
<1>1. /\ pc = "header" /\ pc' = "idle" /\ failed' = FALSE /\ next' = 0
      /\ UNCHANGED <<log, shadow, last_snapshot, ioErrors>>
  BY DEF UpdateHeader, Return, EndCall, handleVars, countVars
<1>2. DeltaAlwaysHasBase /\ ShadowKept /\ Progress
  BY <1>1 DEF Based
<1>3. ~Saving'
  BY <1>1 DEF Saving
<1>4. DOMAIN memory \in SUBSET Pas /\ next \in Nat /\ next >= total_dirty /\ total_dirty \in Nat
  <2>1. DOMAIN memory \in SUBSET Pas /\ next \in Nat
    BY DEF TypeOK
  <2> QED
    BY <1>1, <1>2, <2>1, BelowFinite DEF Progress, total_dirty
<1>5. ASSUME NEW pa \in Pas, shadow[pa].key # None PROVE FullAt(shadow[pa].key)
  <2> SUFFICES ASSUME Done(pa), Rec(pa).kind = "Full",
                      shadow[pa].key = encode_key(pa, snapshot_id)
               PROVE  FullAt(shadow[pa].key)
    BY <1>2, <1>5 DEF ShadowKept
  <2>1. pa \in DOMAIN memory /\ InSlot(pa)
    BY <1>1 DEF Slotted, Done
  <2>2. /\ Rank(DOMAIN memory, pa) \in 0..(total_dirty - 1)
        /\ Rank(DOMAIN memory, pa) < next
    <3>1. /\ Rank(DOMAIN memory, pa) \in Nat
          /\ Rank(DOMAIN memory, pa) < total_dirty
      BY <1>4, <2>1, RankAscends, BelowFinite DEF total_dirty
    <3> QED
      BY <1>4, <3>1
  <2>3. PICK j \in 1..Len(log) : log[j] = Rec(pa)
    BY <1>1, <1>2, <2>2 DEF Progress, Rec
  <2>4. Rec(pa).key = shadow[pa].key
    BY <2>1 DEF InSlot, Rec
  <2> QED
    BY <2>3, <2>4 DEF FullAt
<1>6. \A k : FullAt(k)' <=> FullAt(k)
  BY <1>1 DEF FullAt
<1>7. ShadowKept'
  BY <1>1, <1>2, <1>5, <1>6, Stable DEF ShadowKept
<1>8. PassBased' /\ Progress'
  BY <1>1, <1>3 DEF PassBased, Progress
<1>9. DeltaAlwaysHasBase'
  BY <1>1, <1>2, Stable DEF DeltaAlwaysHasBase, HasBase
<1> QED
  BY <1>1, <1>3, <1>7, <1>8, <1>9

\* A crash leaves a part of the log from its start, where every Delta has its
\* base before it, and a shadow that remembers nothing.
LEMMA BasedCrash ==
    ASSUME TypeOK, Based, Crash
    PROVE  Based'
<1> SUFFICES ASSUME ioErrors' = 0
             PROVE  /\ ~failed' /\ (Saving' => last_snapshot' = snapshot_id')
                    /\ DeltaAlwaysHasBase' /\ ShadowKept' /\ PassBased' /\ Progress'
  BY DEF Based
<1>1. /\ pc' = "idle" /\ failed' = FALSE /\ next' = 0 /\ shadow' = EmptyShadow
      /\ log' = SubSeq(log, 1, logOnDisk) /\ ioErrors' = ioErrors
  BY DEF Crash, Dropped, EndCall
<1>2. DeltaAlwaysHasBase
  BY <1>1 DEF Based
<1>3. ~Saving'
  BY <1>1 DEF Saving
<1>4. ShadowKept' /\ PassBased' /\ Progress'
  BY <1>1, <1>3 DEF ShadowKept, PassBased, Progress, EmptyShadow, NoShadow
<1>5. /\ Len(log') = logOnDisk /\ logOnDisk <= Len(log) /\ logOnDisk \in Nat /\ Len(log) \in Nat
      /\ \A i \in 1..Len(log') : log'[i] = log[i] /\ i \in 1..Len(log)
  BY <1>1 DEF TypeOK
<1>6. DeltaAlwaysHasBase'
  <2> SUFFICES ASSUME NEW i \in 1..Len(log'), log'[i].kind = "Delta"
               PROVE  \E j \in 1..(i - 1) :
                        /\ log'[j].key = log'[i].base_key
                        /\ log'[j].kind = "Full"
                        /\ pa_of(log'[j].key) = pa_of(log'[i].key)
                        /\ snapshot_of(log'[j].key) < snapshot_of(log'[i].key)
    BY Stable DEF DeltaAlwaysHasBase, HasBase
  <2>1. log'[i] = log[i] /\ i \in 1..Len(log)
    BY <1>5
  <2>2. PICK j \in 1..(i - 1) :
               /\ log[j].key = log[i].base_key
               /\ log[j].kind = "Full"
               /\ pa_of(log[j].key) = pa_of(log[i].key)
               /\ snapshot_of(log[j].key) < snapshot_of(log[i].key)
    BY <1>2, <2>1 DEF DeltaAlwaysHasBase, HasBase
  <2>3. log'[j] = log[j]
    BY <1>5
  <2> QED
    BY <2>1, <2>2, <2>3
<1> QED
  BY <1>1, <1>3, <1>4, <1>6

-----------------------------------------------------------------------------
(* The invariant holds.                                                    *)

LEMMA BasedInit == Init => Based
  BY DEF Init, NoCall, Based, Saving, DeltaAlwaysHasBase, ShadowKept, EmptyShadow, NoShadow,
         PassBased, Progress

LEMMA BasedStep == TypeOK /\ Placed /\ Slotted /\ Based /\ [Next]_vars => Based'
<1> SUFFICES ASSUME TypeOK, Placed, Slotted, Based, [Next]_vars PROVE Based'
  OBVIOUS
<1> USE DEF diskVars, configVars, handleVars, groupVars, callVars, resultVars, countVars
<1>1. ASSUME NEW n \in WorkerCounts, NEW t \in DeltaThresholds, NEW sh \in ShadowModes,
             Open(n, t, sh)
      PROVE  Based'
  <2>1. /\ pc = "idle" /\ pc' = "idle" /\ shadow' = EmptyShadow
        /\ UNCHANGED <<log, next, failed, ioErrors>>
    BY <1>1 DEF Open, Placed, CallOpen, TypeOK
  <2>2. ShadowKept' /\ PassBased' /\ ~Saving'
    BY <2>1 DEF ShadowKept, PassBased, Saving, EmptyShadow, NoShadow
  <2>3. DeltaAlwaysHasBase => DeltaAlwaysHasBase'
    BY <2>1, Stable DEF DeltaAlwaysHasBase, HasBase
  <2>4. Progress => Progress'
    BY <2>1 DEF Progress
  <2> QED
    BY <2>1, <2>2, <2>3, <2>4 DEF Based
<1>2. ASSUME NEW s \in Snapshots, SaveBadLength(s) \/ SaveNothing(s) PROVE Based'
  <2>1. /\ pc = "idle" /\ pc' = "idle" /\ accepts(s) /\ last_snapshot' = s
        /\ UNCHANGED <<log, shadow, next, failed, ioErrors>>
    BY <1>2 DEF SaveBadLength, SaveNothing
  <2>2. ~Saving /\ ~Saving' /\ PassBased'
    BY <2>1 DEF Saving, PassBased
  <2>3. s # None
    BY AppendOnlyDbAssumption DEF None
  <2>4. \A k : FullAt(k)' <=> FullAt(k)
    BY <2>1 DEF FullAt
  <2>5. ShadowKept => ShadowKept'
    <3> SUFFICES ASSUME ShadowKept PROVE ShadowKept'
      OBVIOUS
    <3>1. ASSUME NEW pa \in Pas, shadow[pa].key # None
          PROVE  /\ FullAt(shadow[pa].key) /\ pa_of(shadow[pa].key) = pa
                 /\ snapshot_of(shadow[pa].key) <= s
      BY <2>1, <2>2, <3>1, ShadowBelow
    <3> QED
      BY <2>1, <2>3, <2>4, <3>1, Stable DEF ShadowKept
  <2>6. DeltaAlwaysHasBase => DeltaAlwaysHasBase'
    BY <2>1, Stable DEF DeltaAlwaysHasBase, HasBase
  <2>7. Progress => Progress'
    BY <2>1 DEF Progress
  <2> QED
    BY <2>1, <2>2, <2>5, <2>6, <2>7 DEF Based
<1>3. ASSUME NEW s \in Snapshots, NEW total \in PageCounts,
             NEW mem \in [0..(total - 1) -> Contents], BeginSaveAll(s, total, mem)
      PROVE  Based'
  <2>1. total \in Nat /\ total <= MaxPages /\ DOMAIN mem \subseteq Pas
    BY Constants, AppendOnlyDbAssumption DEF Pas
  <2> QED
    BY <1>3, <2>1, BasedBegin DEF BeginSaveAll
<1>4. ASSUME NEW s \in Snapshots, NEW total \in PageCounts, NEW bitmap \in SUBSET Pas,
             NEW mem \in [mask_last_word(bitmap, total) -> Contents],
             BeginSaveBitmap(s, total, bitmap, mem)
      PROVE  Based'
  <2>1. DOMAIN mem \subseteq Pas
    BY DEF mask_last_word
  <2> QED
    BY <1>4, <2>1, BasedBegin DEF BeginSaveBitmap
<1>5. ASSUME NEW g \in Groups, NEW pa \in Pas, EmitZero(g, pa) PROVE Based'
  <2> DEFINE rec == new_zero(encode_key(pa, snapshot_id))
  <2>1. /\ pc = "pass" /\ pa \in todo[g] /\ \A q \in todo[g] : pa <= q
        /\ EmitRecord(g, pa, rec)
        /\ UNCHANGED <<log, memory, snapshot_id, failed, pc, last_snapshot, next, ioErrors,
                       shadow>>
    BY <1>5 DEF EmitZero, Turns
  <2>2. pa \in 0..(PaLimit - 1)
    BY Constants DEF Pas
  <2>3. rec \in Slot /\ rec.kind # "Delta"
    BY <2>2, KeyRoundTrip DEF TypeOK, new_zero, Slot, ChunkKind
  <2> HIDE DEF rec
  <2> QED
    BY <2>1, <2>3, BasedEmit
<1>6. ASSUME NEW g \in Groups, NEW spill \in SpillChoices,
             EmitDelta(g, spill) \/ EmitFull(g, spill)
      PROVE  Based'
  <2> DEFINE pa == cur[g]
  <2>1. /\ pc = "pass" /\ pa # None
        /\ UNCHANGED <<log, memory, snapshot_id, failed, pc, last_snapshot, next, ioErrors>>
    BY <1>6 DEF EmitDelta, EmitFull
  <2>2. /\ pa \in todo[g] /\ (\A q \in todo[g] : pa <= q) /\ pa \in Pas
        /\ wid(pa) \in Nat /\ at[g] \in Nat
        /\ encode_key(pa, snapshot_id) \in Nat
    BY <2>1, CurrentPage DEF Slotted, CurrentLeast
  <2>3. CASE EmitDelta(g, spill)
    <3> DEFINE len == blob_len([kind |-> "Delta", data |-> patch_of(pa)])
               rec == new_delta(encode_key(pa, snapshot_id), wid(pa), at[g], len, shadow[pa].key)
    <3>1. /\ EmitRecord(g, pa, rec) /\ shadow' = shadow
          /\ shadow[pa].key # None
      BY <2>3 DEF EmitDelta, DeltaFits
    <3>2. shadow[pa].key \in Nat /\ len \in 0..1
      BY <2>2, <3>1, BlobLen DEF TypeOK
    <3> HIDE DEF len
    <3>3. rec \in Slot /\ rec.base_key = shadow[pa].key
      BY <2>2, <3>2, Records DEF new_delta
    <3> HIDE DEF pa, rec
    <3> QED
      BY <2>1, <2>2, <3>1, <3>3, BasedEmit
  <2>4. CASE EmitFull(g, spill)
    <3> DEFINE len == blob_len([kind |-> "Full", data |-> memory[pa]])
               rec == new_full(encode_key(pa, snapshot_id), wid(pa), at[g], len)
    <3>1. EmitRecord(g, pa, rec) /\ insert_if_newer(pa, encode_key(pa, snapshot_id), memory[pa])
      BY <2>4 DEF EmitFull
    <3>2. len \in 0..1
      BY BlobLen
    <3> HIDE DEF len
    <3>3. rec \in Slot /\ rec.kind = "Full"
      BY <2>2, <3>2 DEF new_full, Slot, ChunkKind
    <3>4. /\ \A q \in Pas : q # pa => shadow'[q] = shadow[q]
          /\ \/ shadow'[pa] = shadow[pa]
             \/ shadow'[pa].key = encode_key(pa, snapshot_id)
      BY <2>2, <3>1 DEF insert_if_newer, TypeOK
    <3> HIDE DEF pa, rec
    <3> QED
      BY <2>1, <2>2, <3>1, <3>3, <3>4, BasedEmit
  <2> QED
    BY <1>6, <2>3, <2>4
\* Steps that touch neither the log nor the shadow.
<1>7. ASSUME NEW g \in Groups, NEW pa \in Pas, LockBlob(g, pa) PROVE Based'
  <2>1. UNCHANGED <<log, shadow, last_snapshot, todo, memory, snapshot_id, records_buf,
                    failed, ioErrors, pc, next>>
    BY <1>7 DEF LockBlob
  <2>2. Progress => Progress'
    BY <2>1 DEF Progress, total_dirty
  <2> QED
    BY <2>1, <2>2, BasedFrame DEF Saving
<1>8. ASSUME PassDone PROVE Based'
  <2>1. /\ pc = "pass" /\ pc' = "write"
        /\ UNCHANGED <<log, shadow, last_snapshot, todo, memory, snapshot_id, records_buf,
                       failed, ioErrors, next>>
    BY <1>8 DEF PassDone
  <2>2. Progress => Progress'
    BY <2>1 DEF Progress
  <2> QED
    BY <2>1, <2>2, BasedFrame DEF Saving
<1>9. ASSUME SeekHeader PROVE Based'
  <2>1. /\ pc = "write" /\ pc' = "header" /\ next >= total_dirty
        /\ UNCHANGED <<log, shadow, last_snapshot, todo, memory, snapshot_id, records_buf,
                       failed, ioErrors, next>>
    BY <1>9 DEF SeekHeader
  <2>2. Progress => Progress'
    BY <2>1 DEF Progress, total_dirty
  <2> QED
    BY <2>1, <2>2, BasedFrame DEF Saving
<1>10. ASSUME BeginFlush \/ FlushBlob \/ EndFlush PROVE Based'
  <2>1. /\ pc \in {"idle", "flush"} /\ pc' \in {"idle", "flush"}
        /\ UNCHANGED <<log, shadow, last_snapshot, todo, memory, snapshot_id, records_buf,
                       failed, ioErrors>>
        /\ pc' = "idle" => next' = 0
    BY <1>10 DEF BeginFlush, FlushBlob, EndFlush, Flushed
  <2>2. Progress'
    BY <2>1 DEF Progress
  <2> QED
    BY <2>1, <2>2, BasedFrame DEF Saving
<1>11. ASSUME Close PROVE Based'
  <2>1. /\ pc = "flush" /\ pc' = "idle" /\ shadow' = EmptyShadow /\ next' = 0
        /\ UNCHANGED <<log, failed, ioErrors>>
    BY <1>11 DEF Close, Flushed, Dropped
  <2>2. ShadowKept' /\ PassBased' /\ ~Saving' /\ Progress'
    BY <2>1 DEF ShadowKept, PassBased, Saving, Progress, EmptyShadow, NoShadow
  <2>3. DeltaAlwaysHasBase => DeltaAlwaysHasBase'
    BY <2>1, Stable DEF DeltaAlwaysHasBase, HasBase
  <2> QED
    BY <2>1, <2>2, <2>3 DEF Based
<1>12. ASSUME NEW spill \in SpillChoices, WriteRecord(spill) PROVE Based'
  BY <1>12, BasedWrite
<1>13. ASSUME UpdateHeader PROVE Based'
  BY <1>13, BasedReturn
<1>14. ASSUME Crash PROVE Based'
  BY <1>14, BasedCrash
\* Only an error makes a call fail.
<1>15. ASSUME PassFail PROVE Based'
  BY <1>15 DEF PassFail, Based
<1>16. ASSUME WriteFail \/ \E g \in Groups : AppendFail(g) PROVE Based'
  <2>1. ioErrors' = ioErrors + 1 /\ ioErrors \in Nat
    BY <1>16 DEF WriteFail, AppendFail, GiveUp, TypeOK
  <2> QED
    BY <2>1 DEF Based
<1>17. ASSUME UNCHANGED vars PROVE Based'
  <2>1. UNCHANGED <<log, shadow, last_snapshot, todo, memory, snapshot_id, records_buf,
                    failed, ioErrors, pc, next>>
    BY <1>17 DEF vars
  <2>2. Progress => Progress'
    BY <2>1 DEF Progress, total_dirty
  <2> QED
    BY <2>1, <2>2, BasedFrame DEF Saving
<1> QED
  BY <1>1, <1>2, <1>3, <1>4, <1>5, <1>6, <1>7, <1>8, <1>9, <1>10, <1>11, <1>12, <1>13,
     <1>14, <1>15, <1>16, <1>17
  DEF Next, Call, Step, Fault

\* The shadow never offers a base that the log does not hold when the Delta
\* reaches it: whatever the order in which the threads of the pass process
\* the pages, and wherever a crash ends the call or the log, every Delta in
\* chunks.log has the Full chunk it is made against before it.
THEOREM DeltasAlwaysHaveBase == Spec => []DeltaHasBase
<1>1. Based => DeltaHasBase
  BY DEF Based, DeltaHasBase
<1> QED
  BY PlacedInit, PlacedStep, SlottedInit, SlottedStep, BasedInit, BasedStep, TypeCorrect,
     <1>1, PTL DEF Spec
=============================================================================
