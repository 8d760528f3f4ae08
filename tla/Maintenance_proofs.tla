------------------------- MODULE Maintenance_proofs -------------------------
(***************************************************************************)
(* What the offline tools keep, for all values of the constants.           *)
(*                                                                         *)
(* The tools write the two formats in different orders: the index by key,  *)
(* the log by snapshot and page.  The lemmas on places say that an order   *)
(* of a finite set numbers its elements, so that the log which to_log and  *)
(* purge write holds each record of the index once (LogOfIndex).           *)
(*                                                                         *)
(* FormatsAgree and PurgeComplete then rest on Tooled, which follows the   *)
(* directory through the steps of a purge.  CheckFindsLoss rests on        *)
(* AllSound: the log never holds a slot that no task has written, nor a    *)
(* Full record without bytes, which check would pass over.                 *)
(*                                                                         *)
(* PurgeKeepsPast rests on Anchored: what a Delta is against is an earlier *)
(* or the same version of its own page, so that a purge keeps it too, and  *)
(* cuts the worker files behind it.                                        *)
(*                                                                         *)
(* OrderKept, CheckAccepts and the bases of Deltas rest on Orderly, which  *)
(* carries the writer's invariants (Placed, Ascending, Sorted, Based)      *)
(* through the tools, as what they say of a log, of an index, and of what  *)
(* a purge keeps.                                                          *)
(***************************************************************************)
EXTENDS Maintenance, BxDb_proofs

-----------------------------------------------------------------------------
(* The invariants.                                                         *)

\* A record that a task has written, of bytes if it is Full.
Sound(rec) == rec \in Slot /\ rec.kind # "Uninit" /\ (rec.kind = "Full" => rec.len = 1)

\* An index, or what a purge keeps of one: finitely many records at their keys.
WellKeyed(idx) ==
    /\ IsFiniteSet(DOMAIN idx)
    /\ idx = [k \in DOMAIN idx |-> idx[k]]
    /\ \A k \in DOMAIN idx : Sound(idx[k]) /\ idx[k].key = k

\* Only slots that no task has written are not sound.
BufferSound ==
    \A k \in Pas : records_buf[k].kind # "Uninit" => Sound(records_buf[k])

LogSound == \A i \in 1..Len(log) : Sound(log[i])

AllSound ==
    /\ BufferSound
    /\ LogSound
    /\ WellKeyed(index)
    /\ WellKeyed(kept)

\* The log has a header before it has records, and while a handle is open.
LogMade ==
    /\ CallOpen
    /\ isOpen => header # None
    /\ header = None => log = <<>>

\* The running purge.
PurgeRuns ==
    /\ tool_pc \in {"none", "truncate", "cleanup", "write_index", "write_log"}
    /\ to_truncate \subseteq truncated_workers(kept)
    /\ threshold \in Nat
    /\ tool_pc # "none" =>
          /\ purged = None
          /\ \A k \in DOMAIN kept : snapshot_of(k) <= threshold
    /\ (tool_pc = "write_log" /\ has_index) => index = kept

\* Where the two formats stand.
Formats ==
    /\ tool_crashes \in Nat
    /\ purged \in Nat \union {None}
    /\ ~has_index => index = EmptyIndex
    /\ (InStep /\ has_index /\ has_log /\ tool_pc # "write_log") => build_lazy_index(log) = index
    /\ PurgeComplete

Tooled == LogMade /\ PurgeRuns /\ Formats


-----------------------------------------------------------------------------
(* Places in an order of a finite set, given as a set of pairs.            *)

TotalOrder(S, R) ==
    /\ \A k \in S : <<k, k>> \notin R
    /\ \A i, j, k \in S : (<<i, j>> \in R /\ <<j, k>> \in R) => <<i, k>> \in R
    /\ \A j, k \in S : j = k \/ <<j, k>> \in R \/ <<k, j>> \in R

Preceding(S, R, k) == {j \in S : <<j, k>> \in R}

\* How many elements come before k.
Place(S, R, k) == Cardinality(Preceding(S, R, k))

LEMMA PlaceRange ==
    ASSUME NEW S, IsFiniteSet(S), NEW R, TotalOrder(S, R), NEW k \in S
    PROVE  /\ Cardinality(S) \in Nat /\ Cardinality(S) > 0
           /\ Place(S, R, k) \in 0..(Cardinality(S) - 1)
<1>1. Preceding(S, R, k) \in SUBSET (S \ {k})
  BY DEF Preceding, TotalOrder
<1>2. IsFiniteSet(S \ {k}) /\ Cardinality(S \ {k}) = Cardinality(S) - 1
  BY FS_RemoveElement
<1>3. /\ Cardinality(S) \in Nat /\ Cardinality(S \ {k}) \in Nat
      /\ IsFiniteSet(Preceding(S, R, k)) /\ Place(S, R, k) \in Nat
      /\ Place(S, R, k) <= Cardinality(S \ {k})
  BY <1>1, <1>2, FS_Subset, FS_CardinalityType DEF Place
<1> QED
  BY <1>2, <1>3

\* Places ascend in the order.
LEMMA PlaceAscends ==
    ASSUME NEW S, IsFiniteSet(S), NEW R, TotalOrder(S, R), NEW j \in S, NEW k \in S
    PROVE  <<j, k>> \in R <=> Place(S, R, j) < Place(S, R, k)
<1>1. ASSUME NEW a \in S, NEW c \in S, <<a, c>> \in R PROVE Place(S, R, a) < Place(S, R, c)
  <2>1. /\ Preceding(S, R, a) \in SUBSET Preceding(S, R, c)
        /\ a \in Preceding(S, R, c) /\ a \notin Preceding(S, R, a)
    BY <1>1 DEF Preceding, TotalOrder
  <2>2. Preceding(S, R, a) \in SUBSET S /\ Preceding(S, R, c) \in SUBSET S
    BY DEF Preceding
  <2>3. IsFiniteSet(Preceding(S, R, a)) /\ IsFiniteSet(Preceding(S, R, c))
    BY <2>2, FS_Subset
  <2>4. /\ Place(S, R, a) <= Place(S, R, c)
        /\ Place(S, R, a) # Place(S, R, c)
    BY <2>1, <2>3, FS_Subset DEF Place
  <2>5. Place(S, R, a) \in Nat /\ Place(S, R, c) \in Nat
    BY <2>3, FS_CardinalityType DEF Place
  <2> QED
    BY <2>4, <2>5
<1>2. Place(S, R, j) \in Int /\ Place(S, R, k) \in Int
  BY PlaceRange
<1>3. j = k \/ <<j, k>> \in R \/ <<k, j>> \in R
  BY DEF TotalOrder
<1>4. <<j, k>> \in R => Place(S, R, j) < Place(S, R, k)
  BY <1>1
<1>5. <<k, j>> \in R => Place(S, R, k) < Place(S, R, j)
  BY <1>1
<1> QED
  BY <1>2, <1>3, <1>4, <1>5

\* Every place is taken, by one element.
LEMMA PlaceTaken ==
    ASSUME NEW S, IsFiniteSet(S), NEW R, TotalOrder(S, R),
           NEW i \in 0..(Cardinality(S) - 1)
    PROVE  /\ \E k \in S : Place(S, R, k) = i
           /\ \A j, k \in S : (Place(S, R, j) = i /\ Place(S, R, k) = i) => j = k
<1> DEFINE places == 0..(Cardinality(S) - 1)
           place  == [k \in S |-> Place(S, R, k)]
<1>1. Cardinality(S) \in Nat
  BY FS_CardinalityType
<1>2. IsFiniteSet(places) /\ Cardinality(places) = Cardinality(S)
  BY <1>1, FS_Interval
<1>3. place \in [S -> places]
  BY PlaceRange
<1>4. ASSUME NEW j \in S, NEW k \in S, Place(S, R, j) = Place(S, R, k) PROVE j = k
  <2>1. Place(S, R, j) \in Int /\ Place(S, R, k) \in Int
    BY PlaceRange
  <2>2. <<j, k>> \notin R /\ <<k, j>> \notin R
    BY <1>4, <2>1, PlaceAscends
  <2> QED
    BY <2>2 DEF TotalOrder
<1>5. place \in Injection(S, places)
  BY <1>3, <1>4 DEF Injection, IsInjective
<1>6. place \in Surjection(S, places)
  BY <1>2, <1>5, FS_Injection
<1>7. PICK k \in S : place[k] = i
  BY <1>6 DEF Surjection
<1> QED
  BY <1>4, <1>7

\* The last one, too.
LEMMA LastPlace ==
    ASSUME NEW S, IsFiniteSet(S), NEW R, TotalOrder(S, R), S # {}
    PROVE  \E k \in S : Place(S, R, k) = Cardinality(S) - 1
<1>1. Cardinality(S) \in Nat /\ Cardinality(S) # 0
  BY FS_CardinalityType, FS_EmptySet
<1>2. Cardinality(S) - 1 \in 0..(Cardinality(S) - 1)
  BY <1>1
<1> QED
  BY <1>2, PlaceTaken

\* A finite set of numbers that is not empty has a greatest one.
LEMMA GreatestOf ==
    ASSUME NEW T, T \subseteq Nat, IsFiniteSet(T), T # {}
    PROVE  \E m \in T : \A n \in T : n <= m
<1> DEFINE R == {pair \in T \X T : pair[1] < pair[2]}
<1>0. \A i, j \in T : <<i, j>> \in R <=> i < j
  OBVIOUS
<1>1. TotalOrder(T, R)
  <2>1. \A i, j, k \in T : (~(i < i)) /\ ((i < j /\ j < k) => i < k) /\ (i = j \/ i < j \/ j < i)
    OBVIOUS
  <2> HIDE DEF R
  <2> QED
    BY <1>0, <2>1 DEF TotalOrder
<1> HIDE DEF R
<1>2. Cardinality(T) \in Nat
  BY FS_CardinalityType
<1>3. PICK m \in T : Place(T, R, m) = Cardinality(T) - 1
  BY <1>1, LastPlace
<1>4. ASSUME NEW n \in T PROVE n <= m
  <2>1. Place(T, R, n) \in 0..(Cardinality(T) - 1)
    BY <1>1, PlaceRange
  <2>2. ~(Place(T, R, m) < Place(T, R, n))
    BY <1>2, <1>3, <2>1
  <2>3. ~(m < n)
    BY <1>0, <1>1, <2>2, PlaceAscends
  <2> QED
    BY <2>3
<1> QED
  BY <1>4


-----------------------------------------------------------------------------
(* The log that to_log and purge write.                                    *)

\* The order of by_snapshot.
Saved(S) == {pair \in S \X S : saved_before(pair[1], pair[2])}

LEMMA SavedOrder ==
    ASSUME NEW S, S \subseteq Nat
    PROVE  /\ \A j, k \in S : <<j, k>> \in Saved(S) <=> saved_before(j, k)
           /\ TotalOrder(S, Saved(S))
<1>1. \A j, k \in S : <<j, k>> \in Saved(S) <=> saved_before(j, k)
  BY DEF Saved
<1>2. \A k \in S : k \in Nat /\ snapshot_of(k) \in Nat
  BY SnapNat
<1>3. \A k \in S : ~saved_before(k, k)
  BY <1>2 DEF saved_before
<1>4. \A i, j, k \in S : (saved_before(i, j) /\ saved_before(j, k)) => saved_before(i, k)
  BY <1>2 DEF saved_before
<1>5. \A j, k \in S : j = k \/ saved_before(j, k) \/ saved_before(k, j)
  BY <1>2 DEF saved_before
<1> QED
  BY <1>1, <1>3, <1>4, <1>5 DEF TotalOrder

LEMMA KeysNat == \A idx : WellKeyed(idx) => DOMAIN idx \subseteq Nat
<1> SUFFICES ASSUME NEW idx, WellKeyed(idx), NEW k \in DOMAIN idx PROVE k \in Nat
  OBVIOUS
<1>1. idx[k] \in Slot /\ idx[k].key = k
  BY DEF WellKeyed, Sound
<1> QED
  BY <1>1 DEF Slot

\* Entry i is the record before which i - 1 others were saved.
LEMMA EntryOf ==
    ASSUME NEW idx, WellKeyed(idx), NEW i \in 1..Cardinality(DOMAIN idx)
    PROVE  \E k \in DOMAIN idx :
              /\ by_snapshot(idx)[i] = idx[k]
              /\ Place(DOMAIN idx, Saved(DOMAIN idx), k) = i - 1
<1> DEFINE S == DOMAIN idx
           before(k) == {j \in S : saved_before(j, k)}
           entry == CHOOSE k \in S : Cardinality(before(k)) = i - 1
<1>1. IsFiniteSet(S) /\ S \subseteq Nat /\ Cardinality(S) \in Nat
  BY KeysNat, FS_CardinalityType DEF WellKeyed
<1>2. \A k \in S : before(k) = Preceding(S, Saved(S), k)
  BY <1>1, SavedOrder DEF Preceding
<1>3. i - 1 \in 0..(Cardinality(S) - 1)
  BY <1>1
<1>4. \E k \in S : Place(S, Saved(S), k) = i - 1
  BY <1>1, <1>3, SavedOrder, PlaceTaken
<1>5. \A k \in S : Cardinality(before(k)) = Place(S, Saved(S), k)
  BY <1>2 DEF Place
<1>6. \E k \in S : Cardinality(before(k)) = i - 1
  BY <1>4, <1>5
<1>7. by_snapshot(idx)[i] = idx[entry]
  BY DEF by_snapshot, ordered
<1> HIDE DEF S, before
<1>8. entry \in S /\ Cardinality(before(entry)) = i - 1
  BY <1>6
<1>9. entry \in S /\ Place(S, Saved(S), entry) = i - 1
  BY <1>5, <1>8
<1> HIDE DEF entry
<1> QED
  BY <1>7, <1>9 DEF S

\* Every record of the index has an entry, and only one.
LEMMA LogHolds ==
    ASSUME NEW idx, WellKeyed(idx)
    PROVE  /\ Cardinality(DOMAIN idx) \in Nat
           /\ DOMAIN by_snapshot(idx) = 1..Cardinality(DOMAIN idx)
           /\ by_snapshot(idx) \in Seq(Slot)
           /\ Len(by_snapshot(idx)) = Cardinality(DOMAIN idx)
           /\ \A i \in 1..Cardinality(DOMAIN idx) : \E k \in DOMAIN idx : by_snapshot(idx)[i] = idx[k]
           /\ \A k \in DOMAIN idx : \E i \in 1..Cardinality(DOMAIN idx) : by_snapshot(idx)[i] = idx[k]
           /\ \A i, j \in 1..Cardinality(DOMAIN idx) :
                 i < j => saved_before(by_snapshot(idx)[i].key, by_snapshot(idx)[j].key)
<1> DEFINE S == DOMAIN idx
           n == Cardinality(S)
           R == Saved(S)
           recs == by_snapshot(idx)
<1>1. IsFiniteSet(S) /\ S \subseteq Nat /\ n \in Nat /\ TotalOrder(S, R)
  BY KeysNat, SavedOrder, FS_CardinalityType DEF WellKeyed
<1>2. \A k \in S : idx[k] \in Slot /\ idx[k].key = k
  BY DEF WellKeyed, Sound
<1>3. recs = [i \in 1..n |-> recs[i]]
  BY DEF by_snapshot, ordered
<1>4. ASSUME NEW i \in 1..n
      PROVE  \E k \in S : recs[i] = idx[k] /\ Place(S, R, k) = i - 1
  BY EntryOf
<1>5. ASSUME NEW k \in S PROVE \E i \in 1..n : recs[i] = idx[k]
  <2>1. Place(S, R, k) \in 0..(n - 1)
    BY <1>1, PlaceRange
  <2> DEFINE i == Place(S, R, k) + 1
  <2>2. i \in 1..n /\ i - 1 = Place(S, R, k)
    BY <1>1, <2>1
  <2> HIDE DEF i
  <2>3. PICK j \in S : recs[i] = idx[j] /\ Place(S, R, j) = i - 1
    BY <1>4, <2>2
  <2>4. j = k
    BY <1>1, <2>1, <2>2, <2>3, PlaceTaken
  <2> QED
    BY <2>2, <2>3, <2>4
<1>6. ASSUME NEW i \in 1..n, NEW j \in 1..n, i < j
      PROVE  saved_before(recs[i].key, recs[j].key)
  <2>1. PICK a \in S : recs[i] = idx[a] /\ Place(S, R, a) = i - 1
    BY <1>4
  <2>2. PICK c \in S : recs[j] = idx[c] /\ Place(S, R, c) = j - 1
    BY <1>4
  <2>3. Place(S, R, a) < Place(S, R, c)
    BY <1>1, <1>6, <2>1, <2>2
  <2>4. saved_before(a, c)
    BY <1>1, <2>3, PlaceAscends, SavedOrder
  <2> QED
    BY <1>2, <2>1, <2>2, <2>4
<1> HIDE DEF S, n, R, recs
<1>7. \A i \in 1..n : recs[i] \in Slot
  BY <1>2, <1>4
<1>8. recs \in Seq(Slot) /\ Len(recs) = n /\ DOMAIN recs = 1..n
  BY <1>1, <1>3, <1>7
<1>9. \A i \in 1..n : \E k \in S : recs[i] = idx[k]
  BY <1>4
<1> QED
  BY <1>1, <1>5, <1>6, <1>8, <1>9 DEF S, n, R, recs

\* to_btree undoes to_log.
LEMMA LogOfIndex ==
    ASSUME NEW idx, WellKeyed(idx)
    PROVE  /\ build_lazy_index(by_snapshot(idx)) = idx
           /\ \A i \in 1..Len(by_snapshot(idx)) :
                 /\ Sound(by_snapshot(idx)[i])
                 /\ by_snapshot(idx)[i].key \in DOMAIN idx
<1> DEFINE S == DOMAIN idx
           recs == by_snapshot(idx)
           back == build_lazy_index(recs)
<1>1. /\ recs \in Seq(Slot) /\ DOMAIN recs = 1..Len(recs)
      /\ \A i \in 1..Len(recs) : \E k \in S : recs[i] = idx[k]
      /\ \A k \in S : \E i \in 1..Len(recs) : recs[i] = idx[k]
  BY LogHolds
<1>2. \A k \in S : Sound(idx[k]) /\ idx[k].key = k
  BY DEF WellKeyed
<1>3. DOMAIN back = {recs[i].key : i \in 1..Len(recs)}
  <2>1. DOMAIN back = {recs[i].key : i \in DOMAIN recs}
    BY IndexDomain
  <2>2. DOMAIN recs = 1..Len(recs)
    BY <1>1
  <2> QED
    BY <2>1, <2>2
<1>4. ASSUME NEW k \in DOMAIN back PROVE k \in S /\ back[k] = idx[k]
  <2>1. PICK i \in 1..Len(recs) : recs[i].key = k /\ back[k] = recs[i]
    BY <1>1, <1>4, IndexHolds
  <2>2. PICK j \in S : recs[i] = idx[j]
    BY <1>1
  <2> QED
    BY <1>2, <2>1, <2>2
<1>5. \A k \in S : k \in DOMAIN back
  BY <1>1, <1>2, <1>3
<1>6. back = [k \in DOMAIN back |-> back[k]]
  BY DEF build_lazy_index
<1>7. idx = [k \in S |-> idx[k]]
  BY DEF WellKeyed
<1> HIDE DEF S, recs, back
<1>8. DOMAIN back = S
  BY <1>4, <1>5
<1>9. back = idx
  BY <1>4, <1>6, <1>7, <1>8
<1>10. \A i \in 1..Len(recs) : Sound(recs[i]) /\ recs[i].key \in S
  BY <1>1, <1>2
<1> QED
  BY <1>9, <1>10 DEF S, recs, back

\* An index is well keyed, and has the keys of its log.
LEMMA IndexWellKeyed ==
    ASSUME NEW recs \in Seq(Slot), \A i \in 1..Len(recs) : Sound(recs[i])
    PROVE  /\ WellKeyed(build_lazy_index(recs))
           /\ DOMAIN build_lazy_index(recs) = {recs[i].key : i \in 1..Len(recs)}
<1> DEFINE keys == {recs[i].key : i \in DOMAIN recs}
           key == [i \in DOMAIN recs |-> recs[i].key]
           idx == build_lazy_index(recs)
<1>1. DOMAIN recs = 1..Len(recs) /\ Len(recs) \in Nat
  OBVIOUS
<1>2. DOMAIN idx = keys
  BY IndexDomain
<1>3. IsFiniteSet(DOMAIN recs)
  BY <1>1, FS_Interval
<1>4. key \in Surjection(DOMAIN recs, keys)
  BY DEF Surjection
<1>5. IsFiniteSet(keys)
  BY <1>3, <1>4, FS_Surjection
<1>6. idx = [k \in DOMAIN idx |-> idx[k]]
  BY DEF build_lazy_index
<1>7. ASSUME NEW k \in DOMAIN idx PROVE Sound(idx[k]) /\ idx[k].key = k
  <2>1. PICK i \in 1..Len(recs) : recs[i].key = k /\ idx[k] = recs[i]
    BY <1>7, IndexHolds
  <2> QED
    BY <2>1
<1>8. WellKeyed(idx)
  BY <1>2, <1>5, <1>6, <1>7 DEF WellKeyed
<1> QED
  BY <1>1, <1>2, <1>8


-----------------------------------------------------------------------------
(* What a purge computes.                                                  *)

LEMMA KeptKeyed ==
    ASSUME NEW idx, WellKeyed(idx), NEW T \in Nat
    PROVE  /\ WellKeyed(kept_of(idx, T))
           /\ \A k \in DOMAIN kept_of(idx, T) : k \in DOMAIN idx /\ snapshot_of(k) <= T
           /\ DOMAIN kept_of(idx, T) = DOMAIN idx => \A k \in DOMAIN idx : snapshot_of(k) <= T
<1> DEFINE S == {j \in DOMAIN idx : snapshot_of(j) <= T}
<1>1. S \in SUBSET DOMAIN idx /\ IsFiniteSet(S)
  BY FS_Subset DEF WellKeyed
<1>2. kept_of(idx, T) = [k \in S |-> idx[k]] /\ DOMAIN kept_of(idx, T) = S
  BY DEF kept_of
<1>3. WellKeyed([k \in S |-> idx[k]])
  BY <1>1 DEF WellKeyed
<1> QED
  BY <1>2, <1>3

LEMMA EmptyKeyed == WellKeyed(EmptyIndex) /\ DOMAIN EmptyIndex = {}
<1>1. DOMAIN EmptyIndex = {} /\ EmptyIndex = [k \in {} |-> EmptyIndex[k]]
  BY DEF EmptyIndex
<1> QED
  BY <1>1, FS_EmptySet DEF WellKeyed

LEMMA MaxSnap ==
    ASSUME NEW idx, WellKeyed(idx)
    PROVE  max_snap(idx) \in Nat /\ \A k \in DOMAIN idx : snapshot_of(k) <= max_snap(idx)
<1> DEFINE S == DOMAIN idx
           snaps == {snapshot_of(k) : k \in S}
           snap == [k \in S |-> snapshot_of(k)]
           all == {0} \union snaps
<1>1. IsFiniteSet(S) /\ \A k \in S : snapshot_of(k) \in Nat
  BY KeysNat, SnapNat DEF WellKeyed
<1>2. snap \in Surjection(S, snaps)
  BY DEF Surjection
<1>3. IsFiniteSet(snaps)
  BY <1>1, <1>2, FS_Surjection
<1>4. IsFiniteSet(all)
  BY <1>3, FS_Singleton, FS_Union
<1>5. all \subseteq Nat /\ all # {}
  BY <1>1
<1>6. PICK m \in all : \A n \in all : n <= m
  BY <1>4, <1>5, GreatestOf
<1>7. \A k \in S : snapshot_of(k) <= m
  BY <1>6
<1>8. max_snap(idx) \in all /\ \A k \in S : snapshot_of(k) <= max_snap(idx)
  BY <1>6, <1>7 DEF max_snap
<1> QED
  BY <1>5, <1>8

\* A worker that is cut has a last kept chunk.
LEMMA KeepLen ==
    ASSUME WellKeyed(kept), NEW w \in truncated_workers(kept)
    PROVE  /\ keep_len(w) \in Nat
           /\ \A r \in records_of(kept) :
                 (r.kind # "Zero" /\ r.worker_id = w) => r.offset + r.len <= keep_len(w)
<1> DEFINE S == {k \in DOMAIN kept : kept[k].kind # "Zero" /\ kept[k].worker_id = w}
           end(r) == r.offset + r.len
           ends == {end(kept[k]) : k \in S}
           cut == [k \in S |-> end(kept[k])]
           IsEnd(len) ==
              /\ \A r \in records_of(kept) : (r.kind # "Zero" /\ r.worker_id = w) => end(r) <= len
              /\ \E r \in records_of(kept) : r.kind # "Zero" /\ r.worker_id = w /\ end(r) = len
<1>1. \A r \in Slot : end(r) \in Nat
  BY DEF Slot
<1>2. \A k \in DOMAIN kept : kept[k] \in Slot
  BY DEF WellKeyed, Sound
<1>3. IsFiniteSet(S)
  <2>1. S \in SUBSET DOMAIN kept /\ IsFiniteSet(DOMAIN kept)
    BY DEF WellKeyed
  <2> QED
    BY <2>1, FS_Subset
<1>4. cut \in Surjection(S, ends)
  BY DEF Surjection
<1>5. IsFiniteSet(ends)
  BY <1>3, <1>4, FS_Surjection
<1>6. ends \subseteq Nat
  BY <1>1, <1>2
<1>7. ends # {}
  BY DEF truncated_workers, records_of
<1>8. PICK m \in ends : \A n \in ends : n <= m
  BY <1>5, <1>6, <1>7, GreatestOf
<1>9. PICK k \in S : m = end(kept[k])
  BY <1>8
<1>10. \A r \in records_of(kept) : (r.kind # "Zero" /\ r.worker_id = w) => end(r) \in ends
  BY DEF records_of
<1>11. \A r \in records_of(kept) : (r.kind # "Zero" /\ r.worker_id = w) => end(r) <= m
  BY <1>8, <1>10
<1>12. kept[k] \in records_of(kept) /\ kept[k].kind # "Zero" /\ kept[k].worker_id = w
  BY <1>9 DEF records_of
<1>13. IsEnd(m)
  BY <1>9, <1>11, <1>12
<1>14. m \in {0} \union {end(r) : r \in records_of(kept)}
  BY <1>9, <1>12
<1>15. keep_len(w) = CHOOSE len \in {0} \union {end(r) : r \in records_of(kept)} : IsEnd(len)
  BY DEF keep_len
<1> HIDE DEF IsEnd
<1>16. keep_len(w) \in {0} \union {end(r) : r \in records_of(kept)} /\ IsEnd(keep_len(w))
  BY <1>13, <1>14, <1>15
<1>17. \A r \in records_of(kept) : end(r) \in Nat
  BY <1>1, <1>2 DEF records_of
<1> QED
  BY <1>16, <1>17 DEF IsEnd

\* What set_len leaves is still a file.
LEMMA SetLen ==
    ASSUME NEW file \in Seq(Blob), NEW len \in Nat
    PROVE  set_len(file, len) \in Seq(Blob) /\ Len(set_len(file, len)) = len
<1>1. Hole \in Blob
  <2>1. <<>> \in [{} -> Word] /\ {} \in SUBSET Words
    OBVIOUS
  <2>2. <<>> \in Patch
    BY <2>1 DEF Patch
  <2> QED
    BY <2>2 DEF Hole, Blob
<1>2. \A i \in 1..len : (IF i <= Len(file) THEN file[i] ELSE Hole) \in Blob
  BY <1>1
<1>3. set_len(file, len) = [i \in 1..len |-> IF i <= Len(file) THEN file[i] ELSE Hole]
  BY DEF set_len
<1> QED
  BY <1>2, <1>3


-----------------------------------------------------------------------------
(* The steps of the writer.                                                *)

LEMMA LogMadeStep == TypeOK /\ LogMade /\ [Next]_vars => LogMade'
<1> SUFFICES ASSUME TypeOK, LogMade, [Next]_vars PROVE LogMade'
  OBVIOUS
<1> USE DEF diskVars, configVars, handleVars, groupVars, callVars, resultVars, countVars
<1>0. /\ pc # "idle" => isOpen
      /\ isOpen => header # None
      /\ header = None => log = <<>>
  BY DEF LogMade, CallOpen
<1>1. ASSUME UNCHANGED <<header, log, isOpen>>, pc' # "idle" => isOpen PROVE LogMade'
  BY <1>0, <1>1 DEF LogMade, CallOpen
<1>2. ASSUME NEW n \in WorkerCounts, NEW t \in DeltaThresholds, NEW sh \in ShadowModes,
             Open(n, t, sh)
      PROVE  LogMade'
  <2>1. isOpen' /\ header' # None
    BY <1>2 DEF Open, None
  <2> QED
    BY <2>1 DEF LogMade, CallOpen
<1>3. ASSUME NEW s \in Snapshots, SaveBadLength(s) \/ SaveNothing(s) PROVE LogMade'
  BY <1>1, <1>3 DEF SaveBadLength, SaveNothing
<1>4. ASSUME NEW s, NEW mem, NEW first, BeginSave(s, mem, first) PROVE LogMade'
  BY <1>1, <1>4 DEF BeginSave
<1>5. CASE BeginFlush
  BY <1>1, <1>5 DEF BeginFlush
<1>6. ASSUME NEW g, NEW pa, EmitZero(g, pa) \/ LockBlob(g, pa) PROVE LogMade'
  BY <1>0, <1>1, <1>6 DEF EmitZero, LockBlob, Turns
<1>7. ASSUME NEW g, NEW spill, EmitDelta(g, spill) \/ EmitFull(g, spill) PROVE LogMade'
  <2>1. UNCHANGED <<header, log, isOpen, pc>>
    BY <1>7 DEF EmitDelta, EmitFull
  <2> QED
    BY <1>0, <1>1, <2>1
<1>8. CASE PassDone
  BY <1>0, <1>1, <1>8 DEF PassDone
<1>9. CASE PassFail
  BY <1>1, <1>9 DEF PassFail, Return
<1>10. ASSUME NEW spill, WriteRecord(spill) PROVE LogMade'
  <2>1. isOpen /\ UNCHANGED <<header, isOpen, pc>>
    BY <1>0, <1>10 DEF WriteRecord
  <2> QED
    BY <1>0, <2>1 DEF LogMade, CallOpen
<1>11. CASE SeekHeader
  BY <1>0, <1>1, <1>11 DEF SeekHeader
<1>12. CASE UpdateHeader
  <2>1. header' \in Nat /\ pc' = "idle"
    BY <1>12 DEF UpdateHeader, Return, TypeOK
  <2> QED
    BY <2>1 DEF LogMade, CallOpen, None
<1>13. CASE FlushBlob
  BY <1>0, <1>1, <1>13 DEF FlushBlob
<1>14. CASE EndFlush
  BY <1>1, <1>14 DEF EndFlush, Flushed
<1>15. CASE Close
  <2>1. ~isOpen' /\ pc' = "idle" /\ UNCHANGED <<header, log>>
    BY <1>15 DEF Close, Flushed, Dropped
  <2> QED
    BY <1>0, <2>1 DEF LogMade, CallOpen
<1>16. ASSUME NEW g, AppendFail(g) PROVE LogMade'
  BY <1>0, <1>1, <1>16 DEF AppendFail, GiveUp
<1>17. CASE WriteFail
  BY <1>1, <1>17 DEF WriteFail, Return
<1>18. CASE Crash
  <2>1. isOpen /\ ~isOpen' /\ pc' = "idle" /\ header' = header
    BY <1>18 DEF Crash, Dropped
  <2> QED
    BY <1>0, <2>1 DEF LogMade, CallOpen
<1>19. CASE UNCHANGED vars
  BY <1>0, <1>1, <1>19 DEF vars
<1>20. CASE Call
  BY <1>2, <1>3, <1>4, <1>5, <1>20 DEF Call, BeginSaveAll, BeginSaveBitmap
<1>21. CASE Step
  BY <1>6, <1>7, <1>8, <1>9, <1>10, <1>11, <1>12, <1>13, <1>14, <1>15, <1>21 DEF Step
<1>22. CASE Fault
  BY <1>16, <1>17, <1>18, <1>22 DEF Fault
<1> QED
  BY <1>19, <1>20, <1>21, <1>22 DEF Next

\* What a task emits is sound.
LEMMA EmitSound ==
    ASSUME TypeOK, TypeOK', BufferSound, NEW g \in Groups, NEW pa, NEW rec,
           EmitRecord(g, pa, rec), rec.kind # "Uninit", rec.kind = "Full" => rec.len = 1
    PROVE  BufferSound'
<1>1. \A k \in Pas : records_buf'[k] \in Slot
  BY DEF TypeOK
<1>2. \A k \in Pas : records_buf'[k] = records_buf[k] \/ records_buf'[k] = rec
  BY DEF EmitRecord, TypeOK
<1>3. ASSUME NEW k \in Pas, records_buf'[k].kind # "Uninit" PROVE Sound(records_buf'[k])
  <2>1. CASE records_buf'[k] = records_buf[k]
    BY <1>3, <2>1 DEF BufferSound
  <2>2. CASE records_buf'[k] = rec
    BY <1>1, <2>2 DEF Sound
  <2> QED
    BY <1>2, <2>1, <2>2
<1> QED
  BY <1>3 DEF BufferSound, Sound

LEMMA SoundStep ==
    ASSUME TypeOK, TypeOK', Slotted, BufferSound, LogSound, [Next]_vars
    PROVE  BufferSound' /\ LogSound'
<1> USE DEF diskVars, configVars, handleVars, groupVars, callVars, resultVars, countVars
<1>0. \A r : Sound(r)' <=> Sound(r)
  BY DEF Sound
<1>1. ASSUME UNCHANGED log, \A k \in Pas : records_buf'[k] = records_buf[k] \/ records_buf'[k] = Uninit
      PROVE  BufferSound' /\ LogSound'
  <2>1. Uninit.kind = "Uninit"
    BY DEF Uninit
  <2> QED
    BY <1>0, <1>1, <2>1 DEF BufferSound, LogSound
<1>2. ASSUME Call PROVE BufferSound' /\ LogSound'
  <2>1. UNCHANGED <<log, records_buf>>
    BY <1>2 DEF Call, Open, SaveBadLength, SaveNothing, BeginSaveAll, BeginSaveBitmap, BeginSave, BeginFlush
  <2> QED
    BY <1>1, <2>1
<1>3. ASSUME NEW g \in Groups, NEW pa \in Pas, EmitZero(g, pa) PROVE BufferSound' /\ LogSound'
  <2> DEFINE rec == new_zero(encode_key(pa, snapshot_id))
  <2>1. EmitRecord(g, pa, rec) /\ UNCHANGED log
    BY <1>3 DEF EmitZero
  <2>2. rec.kind = "Zero"
    BY DEF new_zero
  <2> HIDE DEF rec
  <2>3. BufferSound'
    BY <2>1, <2>2, EmitSound
  <2> QED
    BY <1>0, <2>1, <2>3 DEF LogSound
<1>4. ASSUME NEW g \in Groups, NEW spill, EmitDelta(g, spill) PROVE BufferSound' /\ LogSound'
  <2> DEFINE blob == [kind |-> "Delta", data |-> patch_of(cur[g])]
             rec == new_delta(encode_key(cur[g], snapshot_id), wid(cur[g]), at[g],
                              blob_len(blob), shadow[cur[g]].key)
  <2>1. EmitRecord(g, cur[g], rec) /\ UNCHANGED log
    BY <1>4 DEF EmitDelta
  <2>2. rec.kind = "Delta"
    BY DEF new_delta
  <2> HIDE DEF rec
  <2>3. BufferSound'
    BY <2>1, <2>2, EmitSound
  <2> QED
    BY <1>0, <2>1, <2>3 DEF LogSound
<1>5. ASSUME NEW g \in Groups, NEW spill, EmitFull(g, spill) PROVE BufferSound' /\ LogSound'
  <2> DEFINE blob == [kind |-> "Full", data |-> memory[cur[g]]]
             rec == new_full(encode_key(cur[g], snapshot_id), wid(cur[g]), at[g], blob_len(blob))
  <2>1. EmitRecord(g, cur[g], rec) /\ UNCHANGED log
    BY <1>5 DEF EmitFull
  <2>2. rec.kind = "Full" /\ rec.len = 1
    BY DEF new_full, blob_len
  <2> HIDE DEF rec
  <2>3. BufferSound'
    BY <2>1, <2>2, EmitSound
  <2> QED
    BY <1>0, <2>1, <2>3 DEF LogSound
<1>6. ASSUME NEW spill, WriteRecord(spill) PROVE BufferSound' /\ LogSound'
  <2>1. /\ pc = "write" /\ next \in Nat /\ next < total_dirty
        /\ log' = Append(log, records_buf[next]) /\ UNCHANGED records_buf
    BY <1>6 DEF WriteRecord, TypeOK
  <2>2. total_dirty \in Nat /\ total_dirty <= MaxPages
    BY BelowFinite DEF total_dirty, TypeOK
  <2>3. next \in 0..(total_dirty - 1) /\ next \in Pas
    BY <2>1, <2>2, Constants DEF Pas
  <2>4. records_buf[next].kind # "Uninit"
    BY <2>1, <2>3, SlottedImplies DEF SlotsWritten
  <2>5. Sound(records_buf[next])
    BY <2>3, <2>4 DEF BufferSound
  <2>6. /\ log \in Seq(Slot) /\ Len(log') = Len(log) + 1 /\ log'[Len(log) + 1] = records_buf[next]
        /\ \A i \in 1..Len(log) : log'[i] = log[i]
    BY <2>1, FileTypes
  <2>7. \A i \in 1..Len(log') : i \in 1..Len(log) \/ i = Len(log) + 1
    BY <2>6
  <2>8. LogSound'
    BY <1>0, <2>5, <2>6, <2>7 DEF LogSound
  <2> QED
    BY <1>0, <2>1, <2>8 DEF BufferSound
<1>7. CASE Crash
  <2>1. log' = SubSeq(log, 1, logOnDisk) /\ \A k \in Pas : records_buf'[k] = Uninit
    BY <1>7 DEF Crash, EndCall
  <2>2. Uninit.kind = "Uninit"
    BY DEF Uninit
  <2>3. BufferSound'
    BY <2>1, <2>2 DEF BufferSound
  <2>4. log \in Seq(Slot) /\ logOnDisk \in Nat /\ logOnDisk <= Len(log)
    BY FileTypes
  <2>5. Len(log') = logOnDisk /\ \A i \in 1..logOnDisk : log'[i] = log[i] /\ i \in 1..Len(log)
    BY <2>1, <2>4
  <2> QED
    BY <1>0, <2>3, <2>5 DEF LogSound
<1>8. ASSUME \/ \E g \in Groups : \/ \E pa \in Pas : LockBlob(g, pa)
                                  \/ AppendFail(g)
             \/ PassDone \/ SeekHeader \/ FlushBlob \/ EndFlush \/ Close
      PROVE  UNCHANGED <<log, records_buf>>
  BY <1>8 DEF LockBlob, AppendFail, GiveUp, PassDone, SeekHeader, FlushBlob, EndFlush, Close
<1>9. ASSUME PassFail \/ UpdateHeader \/ WriteFail
      PROVE  UNCHANGED log /\ \A k \in Pas : records_buf'[k] = Uninit
  BY <1>9 DEF PassFail, UpdateHeader, WriteFail, Return, EndCall
<1>10. CASE UNCHANGED vars
  <2>1. UNCHANGED <<log, records_buf>>
    BY <1>10 DEF vars
  <2> QED
    BY <1>1, <2>1
<1>11. CASE Step
  BY <1>1, <1>3, <1>4, <1>5, <1>6, <1>8, <1>9, <1>11 DEF Step
<1>12. CASE Fault
  BY <1>1, <1>7, <1>8, <1>9, <1>12 DEF Fault
<1> QED
  BY <1>2, <1>10, <1>11, <1>12 DEF Next


-----------------------------------------------------------------------------
(* The steps of the tools: types and records.                              *)

Tool ==
    \/ to_btree \/ to_log
    \/ \E T \in Thresholds : PurgeNothing(T) \/ BeginPurge(T)
    \/ \E w \in Workers : TruncateBlob(w) \/ TruncateFail(w) \/ CleanupBlob(w)
    \/ TruncateDone \/ CleanupDone \/ PurgeIndex \/ PurgeLog \/ ToolCrash
    \/ DeleteLog \/ DeleteIndex

IInv == TypeOK /\ Slotted /\ AllSound /\ Tooled

\* A tool leaves alone what is of the writer, but may write a new log.
LEMMA ToolFrame == Tool => UNCHANGED processVars /\ (torn' = torn \/ torn' = None)
<1> DEFINE Framed == UNCHANGED processVars /\ (torn' = torn \/ torn' = None)
<1> USE DEF vars, diskVars, dirVars, writerVars, processVars, purgeVars, historyVars, configVars,
            handleVars, groupVars, resultVars, callVars, countVars
<1>1. ASSUME UNCHANGED writerVars PROVE Framed
  BY <1>1
<1>2. ASSUME UNCHANGED processVars, torn' = torn \/ write_log_file(index) \/ write_log_file(kept)
      PROVE  Framed
  BY <1>2 DEF write_log_file
<1>3. to_btree => UNCHANGED writerVars
  BY DEF to_btree
<1>4. to_log => Framed
  BY <1>2 DEF to_log
<1>5. ASSUME NEW T, PurgeNothing(T) \/ BeginPurge(T) PROVE UNCHANGED writerVars
  BY <1>5 DEF PurgeNothing, BeginPurge
<1>6. ASSUME NEW w, TruncateBlob(w) \/ TruncateFail(w) \/ CleanupBlob(w) PROVE UNCHANGED writerVars
  BY <1>6 DEF TruncateBlob, TruncateFail, CleanupBlob
<1>7. TruncateDone \/ CleanupDone \/ PurgeIndex \/ ToolCrash => UNCHANGED writerVars
  BY DEF TruncateDone, CleanupDone, PurgeIndex, ToolCrash
<1>8. PurgeLog => Framed
  BY <1>2 DEF PurgeLog
<1>9. DeleteLog => Framed
  BY DEF DeleteLog
<1>10. DeleteIndex => UNCHANGED writerVars
  BY DEF DeleteIndex
<1> HIDE DEF Framed
<1>11. Tool => Framed
  BY <1>1, <1>3, <1>4, <1>5, <1>6, <1>7, <1>8, <1>9, <1>10 DEF Tool
<1> QED
  BY <1>11 DEF Framed

\* What a tool may do to the log.
LEMMA ToolLog ==
    ASSUME IInv, Tool
    PROVE  \/ UNCHANGED <<header, log, logOnDisk>>
           \/ header' = None /\ log' = <<>> /\ logOnDisk' = 0 /\ ~isOpen
           \/ \E idx \in {index, kept} : WellKeyed(idx) /\ write_log_file(idx)
<1> USE DEF vars, diskVars, dirVars, writerVars
<1>1. WellKeyed(index) /\ WellKeyed(kept)
  BY DEF IInv, AllSound
<1>2. CASE to_log
  BY <1>1, <1>2 DEF to_log
<1>3. CASE PurgeLog
  BY <1>1, <1>3 DEF PurgeLog
<1>4. CASE DeleteLog
  BY <1>4 DEF DeleteLog, RunTool, Offline
<1>5. CASE to_btree \/ DeleteIndex
  BY <1>5 DEF to_btree, DeleteIndex
<1>6. ASSUME NEW T, PurgeNothing(T) \/ BeginPurge(T) PROVE UNCHANGED <<header, log, logOnDisk>>
  BY <1>6 DEF PurgeNothing, BeginPurge
<1>7. ASSUME NEW w, TruncateBlob(w) \/ TruncateFail(w) \/ CleanupBlob(w)
      PROVE  UNCHANGED <<header, log, logOnDisk>>
  BY <1>7 DEF TruncateBlob, TruncateFail, CleanupBlob
<1>8. CASE TruncateDone \/ CleanupDone \/ PurgeIndex \/ ToolCrash
  BY <1>8 DEF TruncateDone, CleanupDone, PurgeIndex, ToolCrash
<1> QED
  BY <1>2, <1>3, <1>4, <1>5, <1>6, <1>7, <1>8 DEF Tool

\* What it may do to the worker files.
LEMMA ToolBlobs ==
    ASSUME IInv, Tool
    PROVE  /\ blobs' \in [Workers -> Seq(Blob)]
           /\ blobOnDisk' \in [Workers -> Nat]
           /\ \A w \in Workers : blobOnDisk'[w] <= Len(blobs'[w])
<1> USE DEF vars, diskVars, dirVars, writerVars
<1> DEFINE Typed == /\ blobs' \in [Workers -> Seq(Blob)]
                    /\ blobOnDisk' \in [Workers -> Nat]
                    /\ \A w \in Workers : blobOnDisk'[w] <= Len(blobs'[w])
<1>0. /\ blobs \in [Workers -> Seq(Blob)] /\ blobOnDisk \in [Workers -> Nat]
      /\ \A w \in Workers : blobOnDisk[w] <= Len(blobs[w])
  BY DEF IInv, TypeOK
<1>1. ASSUME UNCHANGED <<blobs, blobOnDisk>> PROVE Typed
  BY <1>0, <1>1
<1>2. ASSUME NEW w \in Workers, TruncateBlob(w) PROVE Typed
  <2>1. WellKeyed(kept) /\ w \in truncated_workers(kept)
    BY <1>2 DEF IInv, AllSound, Tooled, PurgeRuns, TruncateBlob
  <2>2. keep_len(w) \in Nat
    BY <2>1, KeepLen
  <2>3. /\ set_len(blobs[w], keep_len(w)) \in Seq(Blob)
        /\ Len(set_len(blobs[w], keep_len(w))) = keep_len(w)
    BY <1>0, <2>2, SetLen
  <2>4. /\ blobs' = [blobs EXCEPT ![w] = set_len(blobs[w], keep_len(w))]
        /\ blobOnDisk' = [blobOnDisk EXCEPT ![w] = keep_len(w)]
    BY <1>2 DEF TruncateBlob
  <2>5. /\ blobs'[w] = set_len(blobs[w], keep_len(w)) /\ blobOnDisk'[w] = keep_len(w)
        /\ \A v \in Workers : v # w => blobs'[v] = blobs[v] /\ blobOnDisk'[v] = blobOnDisk[v]
    BY <1>0, <2>4
  <2>6. blobs' \in [Workers -> Seq(Blob)] /\ blobOnDisk' \in [Workers -> Nat]
    BY <1>0, <2>2, <2>3, <2>4
  <2>7. \A v \in Workers : blobOnDisk'[v] <= Len(blobs'[v])
    BY <1>0, <2>2, <2>3, <2>5
  <2> QED
    BY <2>6, <2>7
<1>3. ASSUME NEW w \in Workers, CleanupBlob(w) PROVE Typed
  <2>1. /\ blobs' = [blobs EXCEPT ![w] = <<>>]
        /\ blobOnDisk' = [blobOnDisk EXCEPT ![w] = 0]
    BY <1>3 DEF CleanupBlob
  <2>2. <<>> \in Seq(Blob) /\ Len(<<>>) = 0
    OBVIOUS
  <2>3. /\ blobs'[w] = <<>> /\ blobOnDisk'[w] = 0
        /\ \A v \in Workers : v # w => blobs'[v] = blobs[v] /\ blobOnDisk'[v] = blobOnDisk[v]
    BY <1>0, <2>1
  <2>4. blobs' \in [Workers -> Seq(Blob)] /\ blobOnDisk' \in [Workers -> Nat]
    BY <1>0, <2>1, <2>2
  <2>5. \A v \in Workers : blobOnDisk'[v] <= Len(blobs'[v])
    BY <1>0, <2>2, <2>3
  <2> QED
    BY <2>4, <2>5
<1>4. to_btree \/ to_log \/ DeleteLog \/ DeleteIndex => UNCHANGED <<blobs, blobOnDisk>>
  BY DEF to_btree, to_log, DeleteLog, DeleteIndex
<1>5. ASSUME NEW T, PurgeNothing(T) \/ BeginPurge(T) PROVE UNCHANGED <<blobs, blobOnDisk>>
  BY <1>5 DEF PurgeNothing, BeginPurge
<1>6. ASSUME NEW w, TruncateFail(w) PROVE UNCHANGED <<blobs, blobOnDisk>>
  BY <1>6 DEF TruncateFail
<1>7. TruncateDone \/ CleanupDone \/ PurgeIndex \/ PurgeLog \/ ToolCrash
        => UNCHANGED <<blobs, blobOnDisk>>
  BY DEF TruncateDone, CleanupDone, PurgeIndex, PurgeLog, ToolCrash
<1> HIDE DEF Typed
<1>8. Typed
  BY <1>1, <1>2, <1>3, <1>4, <1>5, <1>6, <1>7 DEF Tool
<1> QED
  BY <1>8 DEF Typed

LEMMA TypeTool == IInv /\ Tool => TypeOK' /\ Slotted' /\ BufferSound' /\ LogSound'
<1> SUFFICES ASSUME IInv, Tool PROVE TypeOK' /\ Slotted' /\ BufferSound' /\ LogSound'
  OBVIOUS
<1>1. UNCHANGED processVars /\ (torn' = torn \/ torn' = None)
  BY ToolFrame
<1> USE DEF processVars, configVars, handleVars, groupVars, resultVars, callVars
<1>2. header' \in Nat \union {None} /\ log' \in Seq(Slot) /\ logOnDisk' \in 0..Len(log') /\ LogSound'
  <2>1. CASE UNCHANGED <<header, log, logOnDisk>>
    BY <2>1 DEF IInv, TypeOK, AllSound, LogSound, Sound
  <2>2. CASE header' = None /\ log' = <<>> /\ logOnDisk' = 0
    <3>1. <<>> \in Seq(Slot) /\ Len(<<>>) = 0
      OBVIOUS
    <3> QED
      BY <2>2, <3>1 DEF LogSound
  <2>3. CASE \E idx : WellKeyed(idx) /\ write_log_file(idx)
    <3>1. PICK idx : WellKeyed(idx) /\ write_log_file(idx)
      BY <2>3
    <3>2. log' = by_snapshot(idx) /\ logOnDisk' = Cardinality(DOMAIN idx) /\ header' = max_snap(idx)
      BY <3>1 DEF write_log_file
    <3>3. header' \in Nat
      BY <3>1, <3>2, MaxSnap
    <3>4. log' \in Seq(Slot) /\ Len(log') = Cardinality(DOMAIN idx) /\ Cardinality(DOMAIN idx) \in Nat
      BY <3>1, <3>2, LogHolds
    <3>5. \A i \in 1..Len(log') : Sound(log'[i])
      BY <3>1, <3>2, LogOfIndex
    <3>6. LogSound'
      BY <3>5 DEF LogSound, Sound
    <3> QED
      BY <3>2, <3>3, <3>4, <3>6
  <2> QED
    BY <2>1, <2>2, <2>3, ToolLog
<1>3. TypeOK'
  <2>1. TypeOK /\ UNCHANGED <<configVars, handleVars, groupVars, resultVars, callVars, sealed,
                              crashes, ioErrors>>
    BY <1>1 DEF IInv
  <2>2. /\ isOpen' \in BOOLEAN /\ blob_count' \in 1..MaxWorkers /\ delta_threshold' \in Nat
        /\ use_shadow' \in BOOLEAN /\ last_snapshot' \in Nat \union {None}
        /\ shadow' \in [Pas -> [key : Nat \union {None}, page : Page]]
        /\ offset' \in [Workers -> Nat]
        /\ pc' \in {"idle", "pass", "write", "header", "flush"}
    BY <2>1 DEF TypeOK
  <2>3. /\ snapshot_id' \in Nat /\ snapshot_id' <= MAX_SNAPSHOT_ID
        /\ DOMAIN memory' \subseteq Pas /\ memory' \in [DOMAIN memory' -> Page]
        /\ todo' \in [Groups -> SUBSET DOMAIN memory'] /\ write_idx' \in [Groups -> Nat]
    BY <2>1 DEF TypeOK
  <2>4. /\ cur' \in [Groups -> Pas \union {None}]
        /\ \A g \in Groups : cur'[g] # None => pc' = "pass" /\ cur'[g] \in todo'[g]
        /\ at' \in [Groups -> Nat] /\ records_buf' \in [Pas -> Slot]
    BY <2>1 DEF TypeOK
  <2>5. /\ next' \in Nat /\ failed' \in BOOLEAN /\ result' \in {"none", "ok", "err"}
        /\ sealed' \in Nat \union {None} /\ crashes' \in Nat /\ ioErrors' \in Nat
    BY <2>1 DEF TypeOK
  <2>6. torn' \in Nat \union {None} /\ (torn' # None => crashes' # 0)
    BY <1>1, <2>1 DEF TypeOK
  <2> QED
    BY <1>2, <2>2, <2>3, <2>4, <2>5, <2>6, ToolBlobs DEF TypeOK, MAX_SNAPSHOT_ID
<1>4. Slotted'
  BY <1>1, SlottedFrame DEF IInv, Slotted
<1>5. BufferSound'
  BY <1>1 DEF IInv, AllSound, BufferSound, Sound
<1> QED
  BY <1>2, <1>3, <1>4, <1>5


-----------------------------------------------------------------------------
(* The steps of the tools: the two formats and the running purge.          *)

LEMMA KeyedStable == \A idx : WellKeyed(idx)' <=> WellKeyed(idx)
  BY DEF WellKeyed, Sound

\* The index of the log, whatever crashes and failed writes have made of it.
LEMMA IndexOfLog ==
    ASSUME TypeOK, LogSound
    PROVE  /\ WellKeyed(build_lazy_index(log))
           /\ DOMAIN build_lazy_index(log) = {log[i].key : i \in 1..Len(log)}
<1>1. log \in Seq(Slot) /\ \A i \in 1..Len(log) : Sound(log[i])
  BY DEF TypeOK, LogSound
<1> QED
  BY <1>1, IndexWellKeyed

LEMMA InputKeyed == IInv => WellKeyed(purge_input)
  BY IndexOfLog DEF IInv, AllSound, purge_input

LEMMA KeyedTool == IInv /\ Tool => WellKeyed(index') /\ WellKeyed(kept')
<1> SUFFICES ASSUME IInv, Tool PROVE WellKeyed(index') /\ WellKeyed(kept')
  OBVIOUS
<1> USE DEF dirVars, purgeVars
<1>0. /\ WellKeyed(index) /\ WellKeyed(kept) /\ WellKeyed(EmptyIndex)
      /\ WellKeyed(build_lazy_index(log))
  BY IndexOfLog, EmptyKeyed DEF IInv, AllSound
<1>1. CASE to_btree
  BY <1>0, <1>1 DEF to_btree
<1>2. CASE to_log
  BY <1>0, <1>2 DEF to_log
<1>3. ASSUME NEW T \in Thresholds, PurgeNothing(T) PROVE WellKeyed(index') /\ WellKeyed(kept')
  BY <1>0, <1>3 DEF PurgeNothing
<1>4. ASSUME NEW T \in Thresholds, BeginPurge(T) PROVE WellKeyed(index') /\ WellKeyed(kept')
  <2>1. T \in Nat
    BY MaintenanceAssumption
  <2>2. WellKeyed(kept_of(purge_input, T))
    BY <2>1, InputKeyed, KeptKeyed
  <2> QED
    BY <1>0, <1>4, <2>2 DEF BeginPurge
<1>5. ASSUME NEW w, TruncateBlob(w) \/ TruncateFail(w) \/ CleanupBlob(w)
      PROVE  WellKeyed(index') /\ WellKeyed(kept')
  BY <1>0, <1>5 DEF TruncateBlob, TruncateFail, CleanupBlob, EndPurge
<1>6. CASE TruncateDone \/ CleanupDone \/ PurgeIndex
  BY <1>0, <1>6 DEF TruncateDone, CleanupDone, PurgeIndex
<1>7. CASE PurgeLog \/ ToolCrash
  BY <1>0, <1>7 DEF PurgeLog, ToolCrash, EndPurge
<1>8. CASE DeleteLog \/ DeleteIndex
  BY <1>0, <1>8 DEF DeleteLog, DeleteIndex
<1> QED
  BY <1>1, <1>2, <1>3, <1>4, <1>5, <1>6, <1>7, <1>8 DEF Tool

LEMMA MadeTool == IInv /\ Tool => LogMade'
<1> SUFFICES ASSUME IInv, Tool PROVE LogMade'
  OBVIOUS
<1>0. /\ pc # "idle" => isOpen
      /\ isOpen => header # None
      /\ header = None => log = <<>>
      /\ UNCHANGED <<pc, isOpen>>
  BY ToolFrame DEF IInv, Tooled, LogMade, CallOpen, processVars, configVars, resultVars
<1>1. CASE UNCHANGED <<header, log, logOnDisk>>
  BY <1>0, <1>1 DEF LogMade, CallOpen
<1>2. CASE header' = None /\ log' = <<>> /\ logOnDisk' = 0 /\ ~isOpen
  BY <1>0, <1>2 DEF LogMade, CallOpen
<1>3. CASE \E idx : WellKeyed(idx) /\ write_log_file(idx)
  <2>1. header' \in Nat
    BY <1>3, MaxSnap DEF write_log_file
  <2> QED
    BY <1>0, <2>1 DEF LogMade, CallOpen, None
<1> QED
  BY <1>1, <1>2, <1>3, ToolLog

LEMMA RunsTool == IInv /\ Tool => PurgeRuns'
<1> SUFFICES ASSUME IInv, Tool PROVE PurgeRuns'
  OBVIOUS
<1> USE DEF dirVars, purgeVars, historyVars
<1>0. /\ tool_pc \in {"none", "truncate", "cleanup", "write_index", "write_log"}
      /\ to_truncate \subseteq truncated_workers(kept)
      /\ threshold \in Nat
      /\ tool_pc # "none" =>
            /\ purged = None
            /\ \A k \in DOMAIN kept : snapshot_of(k) <= threshold
      /\ (tool_pc = "write_log" /\ has_index) => index = kept
  BY DEF IInv, Tooled, PurgeRuns
<1>1. ASSUME tool_pc' = "none", UNCHANGED <<kept, to_truncate, threshold>> PROVE PurgeRuns'
  BY <1>0, <1>1 DEF PurgeRuns, truncated_workers, records_of
<1>2. ASSUME EndPurge PROVE PurgeRuns'
  BY <1>2 DEF EndPurge, PurgeRuns
<1>3. CASE to_btree \/ to_log \/ DeleteLog \/ DeleteIndex
  BY <1>1, <1>3 DEF to_btree, to_log, DeleteLog, DeleteIndex, RunTool, Offline
<1>4. ASSUME NEW T \in Thresholds, PurgeNothing(T) PROVE PurgeRuns'
  BY <1>1, <1>4 DEF PurgeNothing, RunTool, Offline
<1>5. ASSUME NEW T \in Thresholds, BeginPurge(T) PROVE PurgeRuns'
  <2>1. T \in Nat
    BY MaintenanceAssumption
  <2>2. \A k \in DOMAIN kept_of(purge_input, T) : snapshot_of(k) <= T
    BY <2>1, InputKeyed, KeptKeyed
  <2>3. /\ tool_pc' = "truncate" /\ kept' = kept_of(purge_input, T) /\ threshold' = T
        /\ to_truncate' = truncated_workers(kept') /\ purged' = None
    BY <1>5 DEF BeginPurge
  <2>4. to_truncate' \subseteq truncated_workers(kept)'
    BY <2>3 DEF truncated_workers, records_of
  <2> QED
    BY <2>1, <2>2, <2>3, <2>4 DEF PurgeRuns, snapshot_of
<1>6. ASSUME NEW w, TruncateBlob(w) PROVE PurgeRuns'
  <2>1. /\ UNCHANGED <<tool_pc, kept, threshold, purged, index, has_index>>
        /\ to_truncate' = to_truncate \ {w}
    BY <1>6 DEF TruncateBlob
  <2> QED
    BY <1>0, <2>1 DEF PurgeRuns, truncated_workers, records_of, snapshot_of
<1>7. ASSUME NEW w, TruncateFail(w) PROVE PurgeRuns'
  BY <1>2, <1>7 DEF TruncateFail
<1>8. ASSUME NEW w, CleanupBlob(w) PROVE PurgeRuns'
  <2>1. UNCHANGED <<tool_pc, kept, to_truncate, threshold, purged, index, has_index>>
    BY <1>8 DEF CleanupBlob
  <2> QED
    BY <1>0, <2>1 DEF PurgeRuns, truncated_workers, records_of, snapshot_of
<1>9. CASE TruncateDone \/ CleanupDone
  <2>1. /\ UNCHANGED <<kept, to_truncate, threshold, purged, index, has_index>>
        /\ tool_pc # "none" /\ tool_pc' \in {"cleanup", "write_index"}
    BY <1>9 DEF TruncateDone, CleanupDone
  <2>2. truncated_workers(kept)' = truncated_workers(kept)
    BY <2>1 DEF truncated_workers, records_of
  <2> QED
    BY <1>0, <2>1, <2>2 DEF PurgeRuns, snapshot_of
<1>10. CASE PurgeIndex
  <2>1. /\ UNCHANGED <<kept, to_truncate, threshold, purged, has_index>>
        /\ tool_pc # "none" /\ tool_pc' = "write_log"
        /\ has_index => index' = kept
    BY <1>10 DEF PurgeIndex
  <2>2. truncated_workers(kept)' = truncated_workers(kept)
    BY <2>1 DEF truncated_workers, records_of
  <2>3. has_index' => index' = kept'
    BY <2>1
  <2> QED
    BY <1>0, <2>1, <2>2, <2>3 DEF PurgeRuns, snapshot_of
<1>11. CASE PurgeLog \/ ToolCrash
  BY <1>2, <1>11 DEF PurgeLog, ToolCrash
<1> QED
  BY <1>3, <1>4, <1>5, <1>6, <1>7, <1>8, <1>9, <1>10, <1>11 DEF Tool


\* Nothing changes what the formats hold.
LEMMA FormatsSame ==
    ASSUME Formats, UNCHANGED <<has_index, index, log, purged>>,
           tool_crashes' \in Nat, InStep' => InStep,
           (has_index /\ has_log') => has_log,
           tool_pc = "write_log" => (tool_pc' = "write_log" \/ tool_crashes' > 0)
    PROVE  Formats'
<1>1. /\ purged \in Nat \union {None}
      /\ ~has_index => index = EmptyIndex
      /\ (InStep /\ has_index /\ has_log /\ tool_pc # "write_log") => build_lazy_index(log) = index
      /\ InStep => AbovePurged = {}
  BY DEF Formats, PurgeComplete
<1>2. AbovePurged' = AbovePurged /\ build_lazy_index(log)' = build_lazy_index(log)
      /\ EmptyIndex' = EmptyIndex
  BY DEF AbovePurged, snapshot_of, build_lazy_index, EmptyIndex
<1>3. InStep' => ~(tool_crashes' > 0)
  BY DEF InStep
<1> QED
  BY <1>1, <1>2, <1>3 DEF Formats, PurgeComplete

\* Nothing is known of purges.
LEMMA FormatsNew ==
    ASSUME tool_crashes' \in Nat, purged' = None,
           ~has_index' => index' = EmptyIndex,
           (InStep' /\ has_index' /\ has_log' /\ tool_pc' # "write_log")
             => build_lazy_index(log)' = index'
    PROVE  Formats'
<1>1. AbovePurged' = {}
  BY DEF AbovePurged
<1>2. EmptyIndex' = EmptyIndex
  BY DEF EmptyIndex
<1> QED
  BY <1>1, <1>2 DEF Formats, PurgeComplete

\* All keys of both formats are at most the threshold.
LEMMA NoneAbove ==
    ASSUME NEW T \in Nat, purged' = T,
           \A k \in DOMAIN index' : k \in Nat /\ snapshot_of(k) <= T,
           \A i \in 1..Len(log') : log'[i].key \in Nat /\ snapshot_of(log'[i].key) <= T
    PROVE  AbovePurged' = {}
<1> DEFINE keys == DOMAIN index' \union {log'[i].key : i \in 1..Len(log')}
<1>1. \A k \in keys : k \in Nat /\ snapshot_of(k) <= T
  OBVIOUS
<1>2. \A k \in keys : snapshot_of(k) \in Nat
  BY <1>1, SnapNat
<1>3. \A k \in keys : ~(snapshot_of(k) > T)
  BY <1>1, <1>2
<1> QED
  BY <1>3 DEF AbovePurged, snapshot_of

\* The keys of the log are those of the index, as far as the formats agree.
LEMMA SameKeys ==
    ASSUME IInv, build_lazy_index(log) = index
    PROVE  \A i \in 1..Len(log) : log[i].key \in DOMAIN index
  BY IndexOfLog DEF IInv, AllSound

LEMMA FormatsTool == IInv /\ Tool => Formats'
<1> SUFFICES ASSUME IInv, Tool PROVE Formats'
  OBVIOUS
<1> USE DEF vars, diskVars, dirVars, purgeVars, historyVars
<1>0. /\ TypeOK /\ WellKeyed(index) /\ WellKeyed(kept)
      /\ Formats /\ PurgeRuns /\ LogMade
      /\ tool_crashes \in Nat
      /\ ~has_index => index = EmptyIndex
      /\ (InStep /\ has_index /\ has_log /\ tool_pc # "write_log") => build_lazy_index(log) = index
  BY DEF IInv, AllSound, Tooled, Formats
<1>1. ASSUME UNCHANGED <<header, log, has_index, index, purged, unindexed, tool_crashes>>,
             tool_pc # "write_log"
      PROVE  Formats'
  BY <1>0, <1>1, FormatsSame DEF InStep, has_log
<1>2. CASE to_btree
  <2>1. /\ has_index' /\ index' = build_lazy_index(log) /\ purged' = None
        /\ UNCHANGED <<log, tool_crashes>>
    BY <1>2 DEF to_btree
  <2>2. build_lazy_index(log)' = index'
    BY <2>1 DEF build_lazy_index
  <2> QED
    BY <1>0, <2>1, <2>2, FormatsNew
<1>3. CASE to_log
  <2>1. /\ has_index /\ has_index' /\ index' = index /\ purged' = None
        /\ log' = by_snapshot(index) /\ UNCHANGED tool_crashes
    BY <1>3 DEF to_log, write_log_file
  <2>2. build_lazy_index(by_snapshot(index)) = index
    BY <1>0, LogOfIndex
  <2>3. build_lazy_index(log') = index'
    BY <2>1, <2>2
  <2> QED
    BY <1>0, <2>1, <2>3, FormatsNew DEF build_lazy_index
<1>4. CASE DeleteLog
  <2>1. /\ has_index' /\ header' = None /\ purged' = None /\ UNCHANGED tool_crashes
    BY <1>4 DEF DeleteLog
  <2> QED
    BY <1>0, <2>1, FormatsNew DEF has_log
<1>5. CASE DeleteIndex
  <2>1. /\ ~has_index' /\ index' = EmptyIndex /\ purged' = None /\ UNCHANGED tool_crashes
    BY <1>5 DEF DeleteIndex
  <2> QED
    BY <1>0, <2>1, FormatsNew
<1>6. ASSUME NEW T \in Thresholds, BeginPurge(T) PROVE Formats'
  <2>1. /\ tool_pc = "none" /\ purged' = None
        /\ UNCHANGED <<header, log, has_index, index, unindexed, tool_crashes>>
    BY <1>6 DEF BeginPurge, RunTool, Offline
  <2>2. (InStep' /\ has_index' /\ has_log') => build_lazy_index(log) = index
    BY <1>0, <2>1 DEF InStep, has_log
  <2>3. build_lazy_index(log)' = build_lazy_index(log) /\ index' = index
    BY <2>1 DEF build_lazy_index
  <2>4. (InStep' /\ has_index' /\ has_log') => build_lazy_index(log)' = index'
    BY <2>2, <2>3
  <2>5. tool_crashes' \in Nat /\ purged' = None /\ (~has_index' => index' = EmptyIndex)
    BY <1>0, <2>1
  <2> QED
    BY <2>4, <2>5, FormatsNew
<1>7. ASSUME NEW T \in Thresholds, PurgeNothing(T) PROVE Formats'
  <2>1. /\ tool_pc = "none" /\ tool_pc' = "none" /\ purged' = T /\ T \in Nat
        /\ UNCHANGED <<header, log, has_index, index, unindexed, tool_crashes>>
        /\ DOMAIN kept_of(purge_input, T) = DOMAIN purge_input
    BY <1>7, MaintenanceAssumption DEF PurgeNothing, RunTool, Offline
  <2>2. \A k \in DOMAIN purge_input : k \in Nat /\ snapshot_of(k) <= T
    BY <2>1, InputKeyed, KeptKeyed, KeysNat
  <2>3. ASSUME InStep PROVE AbovePurged' = {}
    <3>1. CASE ~has_index
      <4>1. purge_input = build_lazy_index(log) /\ DOMAIN index = {}
        BY <1>0, <3>1, EmptyKeyed DEF purge_input
      <4>2. \A i \in 1..Len(log) : log[i].key \in DOMAIN purge_input
        BY <4>1, IndexOfLog DEF IInv, AllSound
      <4> QED
        BY <2>1, <2>2, <4>1, <4>2, NoneAbove
    <3>2. CASE has_index /\ has_log
      <4>1. purge_input = index /\ build_lazy_index(log) = index
        BY <1>0, <2>1, <2>3, <3>2 DEF purge_input
      <4>2. \A i \in 1..Len(log) : log[i].key \in DOMAIN index
        BY <4>1, SameKeys
      <4> QED
        BY <2>1, <2>2, <4>1, <4>2, NoneAbove
    <3>3. CASE has_index /\ ~has_log
      <4>1. purge_input = index /\ Len(log) = 0
        BY <1>0, <3>3 DEF purge_input, has_log, LogMade
      <4>2. \A i \in 1..Len(log') : FALSE
        BY <2>1, <4>1
      <4> QED
        BY <2>1, <2>2, <4>1, <4>2, NoneAbove
    <3> QED
      BY <3>1, <3>2, <3>3
  <2>4. InStep' => InStep
    BY <2>1 DEF InStep
  <2>5. (InStep /\ has_index' /\ has_log') => build_lazy_index(log)' = index'
    BY <1>0, <2>1 DEF has_log, build_lazy_index
  <2>6. EmptyIndex' = EmptyIndex
    BY DEF EmptyIndex
  <2> QED
    BY <1>0, <2>1, <2>3, <2>4, <2>5, <2>6 DEF Formats, PurgeComplete
<1>8. ASSUME NEW w, TruncateBlob(w) \/ TruncateFail(w) \/ CleanupBlob(w) PROVE Formats'
  BY <1>1, <1>8 DEF TruncateBlob, TruncateFail, CleanupBlob
<1>9. CASE TruncateDone \/ CleanupDone
  BY <1>1, <1>9 DEF TruncateDone, CleanupDone
<1>10. CASE PurgeIndex
  <2>1. /\ tool_pc # "none" /\ tool_pc' = "write_log"
        /\ UNCHANGED <<has_index, purged, tool_crashes>>
        /\ ~has_index => index' = index
    BY <1>10 DEF PurgeIndex
  <2>2. purged' = None
    BY <1>0, <2>1 DEF PurgeRuns
  <2> QED
    BY <1>0, <2>1, <2>2, FormatsNew
<1>11. CASE PurgeLog
  <2>1. /\ tool_pc = "write_log" /\ tool_pc' = "none" /\ purged' = threshold
        /\ UNCHANGED <<has_index, index, tool_crashes>>
        /\ IF has_log THEN write_log_file(kept) ELSE UNCHANGED <<header, log, logOnDisk>>
    BY <1>11 DEF PurgeLog, EndPurge
  <2>2. /\ threshold \in Nat
        /\ \A k \in DOMAIN kept : k \in Nat /\ snapshot_of(k) <= threshold
        /\ has_index => index = kept
    BY <1>0, <2>1, KeysNat DEF PurgeRuns
  <2>3. \A k \in DOMAIN index : k \in Nat /\ snapshot_of(k) <= threshold
    BY <1>0, <2>2, EmptyKeyed
  <2>4. CASE has_log
    <3>1. log' = by_snapshot(kept)
      BY <2>1, <2>4 DEF write_log_file
    <3>2. /\ build_lazy_index(by_snapshot(kept)) = kept
          /\ \A i \in 1..Len(by_snapshot(kept)) : by_snapshot(kept)[i].key \in DOMAIN kept
      BY <1>0, LogOfIndex
    <3>3. \A i \in 1..Len(log') : log'[i].key \in Nat /\ snapshot_of(log'[i].key) <= threshold
      BY <2>2, <3>1, <3>2
    <3>4. AbovePurged' = {}
      BY <2>1, <2>2, <2>3, <3>3, NoneAbove
    <3>5. has_index' => build_lazy_index(log') = index'
      BY <2>1, <2>2, <3>1, <3>2
    <3>6. EmptyIndex' = EmptyIndex /\ build_lazy_index(log)' = build_lazy_index(log')
      BY DEF EmptyIndex, build_lazy_index
    <3> QED
      BY <1>0, <2>1, <2>2, <3>4, <3>5, <3>6 DEF Formats, PurgeComplete
  <2>5. CASE ~has_log
    <3>1. log' = <<>> /\ ~has_log'
      BY <1>0, <2>1, <2>5 DEF has_log, LogMade
    <3>2. \A i \in 1..Len(log') : FALSE
      BY <3>1
    <3>3. AbovePurged' = {}
      BY <2>1, <2>2, <2>3, <3>2, NoneAbove
    <3>4. EmptyIndex' = EmptyIndex
      BY DEF EmptyIndex
    <3> QED
      BY <1>0, <2>1, <2>2, <3>1, <3>3, <3>4 DEF Formats, PurgeComplete
  <2> QED
    BY <2>4, <2>5
<1>12. CASE ToolCrash
  <2>1. /\ tool_crashes' = tool_crashes + 1
        /\ UNCHANGED <<header, log, has_index, index, purged>>
    BY <1>12 DEF ToolCrash
  <2>2. tool_crashes' \in Nat /\ tool_crashes' > 0
    BY <1>0, <2>1
  <2>3. ~InStep'
    BY <2>2 DEF InStep
  <2> QED
    BY <1>0, <2>1, <2>2, <2>3, FormatsSame DEF has_log
<1> QED
  BY <1>2, <1>3, <1>4, <1>5, <1>6, <1>7, <1>8, <1>9, <1>10, <1>11, <1>12 DEF Tool

LEMMA ToolStep == IInv /\ Tool => IInv'
<1> SUFFICES ASSUME IInv, Tool PROVE IInv'
  OBVIOUS
<1>1. WellKeyed(index)' /\ WellKeyed(kept)'
  BY KeyedTool, KeyedStable DEF WellKeyed, Sound
<1> QED
  BY <1>1, TypeTool, MadeTool, RunsTool, FormatsTool DEF IInv, AllSound, Tooled

-----------------------------------------------------------------------------
(* The steps of the writer in the directory.                               *)

LEMMA WriterStep == IInv /\ Writer => IInv'
<1> SUFFICES ASSUME IInv, Writer PROVE IInv'
  OBVIOUS
<1>0. /\ tool_pc = "none" /\ Next
      /\ UNCHANGED <<has_index, index, tool_pc, kept, to_truncate, threshold, tool_crashes>>
      /\ purged' = IF <<log, blobs>>' = <<log, blobs>> THEN purged ELSE None
      /\ unindexed' = (unindexed \/ (has_index /\ <<header, log>>' # <<header, log>>))
  BY DEF Writer, purgeVars
<1>1. TypeOK /\ Slotted /\ AllSound /\ LogMade /\ PurgeRuns /\ Formats
  BY DEF IInv, Tooled
<1>2. TypeOK' /\ Slotted'
  BY <1>0, <1>1, TypeStep, SlottedStep
<1>3. AllSound'
  <2>1. BufferSound' /\ LogSound'
    BY <1>0, <1>1, <1>2, SoundStep DEF AllSound
  <2>2. WellKeyed(index)' /\ WellKeyed(kept)'
    BY <1>0, <1>1 DEF AllSound, WellKeyed, Sound
  <2> QED
    BY <2>1, <2>2 DEF AllSound
<1>4. LogMade'
  BY <1>0, <1>1, LogMadeStep
<1>5. PurgeRuns'
  BY <1>0, <1>1 DEF PurgeRuns, truncated_workers, records_of
<1>6. Formats'
  <2>0. /\ tool_crashes' \in Nat /\ purged' \in Nat \union {None}
        /\ ~has_index' => index' = EmptyIndex
        /\ EmptyIndex' = EmptyIndex
    BY <1>0, <1>1 DEF Formats, EmptyIndex
  <2>1. CASE has_index /\ <<header, log>>' # <<header, log>>
    <3>1. ~InStep'
      BY <1>0, <2>1 DEF InStep
    <3> QED
      BY <2>0, <3>1 DEF Formats, PurgeComplete
  <2>2. CASE ~(has_index /\ <<header, log>>' # <<header, log>>) /\ purged' # purged
    <3>1. purged' = None
      BY <1>0, <2>2
    <3>2. (InStep' /\ has_index' /\ has_log') => build_lazy_index(log)' = index'
      <4> SUFFICES ASSUME InStep', has_index', has_log' PROVE build_lazy_index(log)' = index'
        OBVIOUS
      <4>1. has_index /\ header' = header /\ log' = log /\ index' = index
        BY <1>0, <2>2
      <4>2. InStep /\ has_log /\ tool_pc # "write_log"
        BY <1>0, <4>1 DEF InStep, has_log
      <4>3. build_lazy_index(log) = index
        BY <1>1, <4>1, <4>2 DEF Formats
      <4> QED
        BY <4>1, <4>3 DEF build_lazy_index
    <3> QED
      BY <2>0, <3>1, <3>2, FormatsNew
  <2>3. CASE ~(has_index /\ <<header, log>>' # <<header, log>>) /\ purged' = purged
    <3>1. CASE log' = log
      <4>1. (has_index /\ has_log') => has_log
        BY <2>3 DEF has_log
      <4>2. InStep' => InStep
        BY <1>0 DEF InStep
      <4> QED
        BY <1>0, <1>1, <2>0, <2>3, <3>1, <4>1, <4>2, FormatsSame
    <3>2. CASE log' # log
      <4>1. purged' = None /\ ~has_index'
        BY <1>0, <2>3, <3>2
      <4> QED
        BY <2>0, <4>1, FormatsNew
    <3> QED
      BY <3>1, <3>2
  <2> QED
    BY <2>1, <2>2, <2>3
<1> QED
  BY <1>2, <1>3, <1>4, <1>5, <1>6 DEF IInv, Tooled

LEMMA MaintenanceInit == InitMaintenance => IInv
<1> SUFFICES ASSUME InitMaintenance PROVE IInv
  OBVIOUS
<1>1. /\ Init /\ has_index = FALSE /\ index = EmptyIndex /\ tool_pc = "none"
      /\ kept = EmptyIndex /\ to_truncate = {} /\ threshold = 0 /\ purged = None
      /\ tool_crashes = 0
  BY DEF InitMaintenance
<1>2. /\ log = <<>> /\ Len(log) = 0 /\ pc = "idle" /\ ~isOpen
      /\ \A k \in Pas : records_buf[k] = Uninit
  BY <1>1 DEF Init, NoCall
<1>3. TypeOK /\ Slotted
  BY <1>1, TypeInit, SlottedInit
<1>4. AllSound
  BY <1>1, <1>2, EmptyKeyed DEF AllSound, BufferSound, LogSound, Uninit
<1>5. LogMade
  BY <1>2 DEF LogMade, CallOpen
<1>6. PurgeRuns
  BY <1>1 DEF PurgeRuns
<1>7. AbovePurged = {}
  BY <1>1 DEF AbovePurged
<1>8. Formats
  BY <1>1, <1>7 DEF Formats, PurgeComplete
<1> QED
  BY <1>3, <1>4, <1>5, <1>6, <1>8 DEF IInv, Tooled

LEMMA MaintenanceStep == IInv /\ [NextMaintenance]_allVars => IInv'
<1> SUFFICES ASSUME IInv, [NextMaintenance]_allVars PROVE IInv'
  OBVIOUS
<1>1. CASE Writer
  BY <1>1, WriterStep
<1>2. CASE Tool
  BY <1>2, ToolStep
<1>3. CASE UNCHANGED allVars
  <2>1. /\ UNCHANGED vars
        /\ UNCHANGED <<has_index, index, tool_pc, kept, to_truncate, threshold, purged, unindexed,
                       tool_crashes>>
    BY <1>3 DEF allVars, purgeVars, historyVars
  <2>2. TypeOK /\ Slotted /\ AllSound /\ LogMade /\ PurgeRuns /\ Formats
    BY DEF IInv, Tooled
  <2>3. UNCHANGED <<header, log>>
    BY <2>1 DEF vars, diskVars
  <2>4. TypeOK' /\ Slotted' /\ LogMade'
    BY <2>1, <2>2, TypeStep, SlottedStep, LogMadeStep
  <2>5. BufferSound' /\ LogSound'
    BY <2>1, <2>2, <2>4, SoundStep DEF AllSound
  <2>6. WellKeyed(index)' /\ WellKeyed(kept)'
    BY <2>1, <2>2 DEF AllSound, WellKeyed, Sound
  <2>7. PurgeRuns'
    BY <2>1, <2>2 DEF PurgeRuns, truncated_workers, records_of
  <2>8. Formats'
    <3>1. tool_crashes' \in Nat /\ (InStep' => InStep) /\ (has_log' => has_log)
      BY <2>1, <2>2, <2>3 DEF Formats, InStep, has_log
    <3> QED
      BY <2>1, <2>2, <2>3, <3>1, FormatsSame
  <2> QED
    BY <2>4, <2>5, <2>6, <2>7, <2>8 DEF IInv, Tooled, AllSound
<1> QED
  BY <1>1, <1>2, <1>3 DEF NextMaintenance, Tool

-----------------------------------------------------------------------------
(* The theorems.                                                           *)

LEMMA MaintenanceInv == SpecMaintenance => []IInv
  BY MaintenanceInit, MaintenanceStep, PTL DEF SpecMaintenance

\* As long as no purge is killed and no save goes past the index, the log and
\* the index hold the same records between the tools (convert.rs, purge.rs):
\* a user may delete either one.
THEOREM FormatsAlwaysAgree == SpecMaintenance => []FormatsAgree
<1>1. IInv => FormatsAgree
  BY DEF IInv, Tooled, Formats, FormatsAgree
<1> QED
  BY <1>1, MaintenanceInv, PTL

\* When purge returns, neither the log nor the index has a record above the
\* threshold (purge.rs), unless an earlier purge was killed or the index is
\* older than the log.
THEOREM PurgeIsComplete == SpecMaintenance => []PurgeComplete
<1>1. IInv => PurgeComplete
  BY DEF IInv, Tooled, Formats
<1> QED
  BY <1>1, MaintenanceInv, PTL


-----------------------------------------------------------------------------
(* What check overlooks.                                                   *)

LEMMA OkIsNoError == \A page : Ok(page) # Error /\ Missing # Error
  BY DEF Ok, Error, Missing

\* A Full record that check finds nothing wrong with can be loaded.
LEMMA CheckedFull ==
    ASSUME NEW rec, Sound(rec), rec.kind = "Full", NEW files, blob_ok(files, rec)
    PROVE  \E page : decompress_blob_into(files, rec) = Ok(page)
<1>1. rec.len = 1
  BY DEF Sound
<1>2. in_range(files, rec) /\ files[rec.worker_id][rec.offset + 1].kind = "Full"
  BY <1>1 DEF blob_ok
<1> QED
  BY <1>1, <1>2 DEF decompress_blob_into

\* A Delta record that check finds nothing wrong with, and does not pass over,
\* has its patch.
LEMMA CheckedPatch ==
    ASSUME NEW rec, Sound(rec), rec.kind = "Delta", NEW files, blob_ok(files, rec),
           rec.len = 0 => in_range(files, rec)
    PROVE  delta_patch_of(files, rec) # {}
<1>1. rec.len = 0 \/ rec.len = 1
  BY DEF Sound, Slot
<1>2. CASE rec.len = 0
  BY <1>2 DEF delta_patch_of
<1>3. CASE rec.len = 1
  <2> DEFINE blob == files[rec.worker_id][rec.offset + 1]
  <2>1. in_range(files, rec) /\ blob.kind = "Delta"
    BY <1>3 DEF blob_ok
  <2>2. delta_patch_of(files, rec) = {b.data : b \in {x \in {blob} : x.kind = "Delta"}}
    BY <1>3, <2>1 DEF delta_patch_of
  <2> HIDE DEF blob
  <2>3. blob \in {x \in {blob} : x.kind = "Delta"}
    BY <2>1
  <2> QED
    BY <2>2, <2>3
<1> QED
  BY <1>1, <1>2, <1>3

LEMMA AppliedIsOk ==
    ASSUME NEW full, full # Error, NEW patches, patches # {}
    PROVE  apply_delta(full, patches) # Error
<1> DEFINE results == {Ok(apply_delta_patch(full[2], patch)) : patch \in patches}
<1>1. apply_delta(full, patches) = CHOOSE r \in results : TRUE
  BY DEF apply_delta
<1>2. results # {}
  OBVIOUS
<1>3. \A r \in results : r # Error
  BY OkIsNoError
<1> HIDE DEF results
<1> QED
  BY <1>1, <1>2, <1>3

\* No record of a log in which check finds nothing wrong fails to load.
LEMMA CheckedLoads ==
    ASSUME NEW recs \in Seq(Slot), \A i \in 1..Len(recs) : Sound(recs[i]),
           \A i, j \in 1..Len(recs) : i # j => recs[i].key # recs[j].key,
           NEW files, NEW dir, check(recs, files, dir) = {},
           \A i \in 1..Len(recs) : recs[i].len = 0 => in_range(files, recs[i]),
           NEW i \in 1..Len(recs)
    PROVE  resolve_uncached(build_lazy_index(recs), files, recs[i]) # Error
<1> DEFINE idx == build_lazy_index(recs)
           rec == recs[i]
<1>0. DOMAIN recs = 1..Len(recs) /\ Len(recs) \in Nat
  OBVIOUS
<1>1. \A j \in 1..Len(recs) : blob_ok(files, recs[j]) /\ base_ok(recs, recs[j])
  BY <1>0 DEF check
<1>2. Sound(rec) /\ rec.kind \in {"Zero", "Full", "Delta"}
  <2>1. Sound(rec) /\ rec.kind \in ChunkKind \union {"Uninit"} /\ rec.kind # "Uninit"
    BY DEF Sound, Slot
  <2> QED
    BY <2>1 DEF ChunkKind
<1>3. CASE rec.kind = "Zero"
  BY <1>3, Resolved, OkIsNoError
<1>4. CASE rec.kind = "Full"
  <2>1. \E page : decompress_blob_into(files, rec) = Ok(page)
    BY <1>1, <1>2, <1>4, CheckedFull
  <2> QED
    BY <1>4, <2>1, Resolved, OkIsNoError
<1>5. CASE rec.kind = "Delta"
  <2>1. PICK j \in full_index(recs, rec.base_key) : recs[j].kind = "Full"
    BY <1>1, <1>5 DEF base_ok
  <2>2. j \in 1..Len(recs) /\ recs[j].key = rec.base_key
    BY <1>0 DEF full_index
  <2>3. \A n \in 1..(j - 1) : recs[n].key # recs[j].key
    BY <1>0, <2>2
  <2>4. rec.base_key \in DOMAIN idx /\ idx[rec.base_key] = recs[j]
    BY <1>0, <2>2, <2>3, IndexFirst
  <2>5. PICK page : decompress_blob_into(files, recs[j]) = Ok(page)
    BY <1>1, <2>1, <2>2, CheckedFull
  <2>6. load_full(idx, files, rec.base_key) = Ok(page)
    <3>1. recs[j] \in exact_sorted(idx, rec.base_key)
      BY <2>4 DEF exact_sorted
    <3> QED
      BY <2>1, <2>4, <2>5, <3>1 DEF load_full
  <2>7. delta_patch_of(files, rec) # {}
    BY <1>1, <1>2, <1>5, CheckedPatch
  <2>8. apply_delta(load_full(idx, files, rec.base_key), delta_patch_of(files, rec)) # Error
    BY <2>6, <2>7, AppliedIsOk, OkIsNoError
  <2> QED
    BY <1>5, <2>8, Resolved
<1> QED
  BY <1>2, <1>3, <1>4, <1>5

\* bxdb check is to be trusted: after whatever crashes, write errors and killed
\* purges, when it finds nothing wrong (check.rs) in a log without repeated
\* keys, and no empty patch has lost its place, every load succeeds or finds
\* that there is no version.
THEOREM CheckFindsAllLoss == SpecMaintenance => []CheckFindsLoss
<1>1. ASSUME IInv, unchecked = {}, check_errors = {}, KeysUnique, NEW pa \in Pas, NEW q \in Queries
      PROVE  answers(disk_log, disk_blobs)[pa][q] # Error
  <2> DEFINE recs == disk_log
             idx == build_lazy_index(recs)
             found == floor_sorted(idx, encode_key(pa, q), pa)
             outcomes == {resolve_uncached(idx, disk_blobs, rec) : rec \in found}
  <2>1. /\ log \in Seq(Slot) /\ logOnDisk \in Nat /\ logOnDisk <= Len(log)
        /\ \A i \in 1..Len(log) : Sound(log[i])
    BY <1>1, FileTypes DEF IInv, AllSound, LogSound
  <2>2. /\ recs \in Seq(Slot) /\ Len(recs) = logOnDisk
        /\ \A i \in 1..Len(recs) : recs[i] = log[i] /\ i \in 1..Len(log)
    BY <2>1 DEF disk_log
  <2>3. \A i \in 1..Len(recs) : Sound(recs[i])
    BY <2>1, <2>2
  <2>4. \A i, j \in 1..Len(recs) : i # j => recs[i].key # recs[j].key
    BY <1>1, <2>2 DEF KeysUnique
  <2>5. check(recs, disk_blobs, blob_files) = {}
    BY <1>1 DEF check_errors
  <2>6. \A i \in 1..Len(recs) : recs[i].len = 0 => in_range(disk_blobs, recs[i])
    <3>1. DOMAIN recs = 1..Len(recs)
      BY <2>2
    <3> QED
      BY <1>1, <3>1 DEF unchecked
  <2>7. answers(recs, disk_blobs)[pa][q] = resolve(idx, disk_blobs, found)
    BY AnswersAre DEF load_page
  <2>8. \A rec \in found : resolve_uncached(idx, disk_blobs, rec) # Error
    <3> SUFFICES ASSUME NEW rec \in found PROVE resolve_uncached(idx, disk_blobs, rec) # Error
      OBVIOUS
    <3>1. PICK k \in DOMAIN idx : rec = idx[k]
      BY DEF floor_sorted
    <3>2. PICK i \in 1..Len(recs) : rec = recs[i]
      BY <2>2, <3>1, IndexHolds
    <3> HIDE DEF recs
    <3> QED
      BY <2>2, <2>3, <2>4, <2>5, <2>6, <3>2, CheckedLoads
  <2>9. CASE found = {}
    BY <2>7, <2>9, OkIsNoError DEF resolve
  <2>10. CASE found # {}
    <3>1. resolve(idx, disk_blobs, found) = CHOOSE r \in outcomes : TRUE
      BY <2>10 DEF resolve
    <3>2. outcomes # {} /\ \A r \in outcomes : r # Error
      BY <2>8, <2>10
    <3> HIDE DEF outcomes
    <3>3. (CHOOSE r \in outcomes : TRUE) # Error
      BY <3>2
    <3> QED
      BY <2>7, <3>1, <3>3
  <2> QED
    BY <2>9, <2>10
<1>2. IInv => CheckFindsLoss
  BY <1>1 DEF CheckFindsLoss, NoLoadFails, check_accepts
<1> QED
  BY <1>2, MaintenanceInv, PTL



-----------------------------------------------------------------------------
(* What a purge leaves of the snapshots that it keeps.                     *)

\* The Deltas of an index are made against versions of their page.
IndexWithin(idx) == \A k \in DOMAIN idx : WellFormed(idx[k])

\* No handle is open while a purge runs, and what it keeps is what it would
\* keep if it read the records again.
KeepsInput == tool_pc # "none" => ~isOpen /\ kept = kept_of(purge_input, threshold)

\* The records that loads after a purge rest on, in the log, on their way there
\* and in the index, and the files that they are in.
Anchored ==
    /\ IdOfCall
    /\ Unflushed
    /\ DeltasWithin
    /\ IndexWithin(index)
    /\ IndexWithin(kept)
    /\ KeepsInput

LEMMA IdFrame ==
    ASSUME IdOfCall, UNCHANGED last_snapshot, Saving' => Saving /\ UNCHANGED snapshot_id
    PROVE  IdOfCall'
  BY DEF IdOfCall

LEMMA IdOfCallStep == CallOpen /\ IdOfCall /\ [Next]_vars => IdOfCall'
<1> SUFFICES ASSUME CallOpen, IdOfCall, [Next]_vars PROVE IdOfCall'
  OBVIOUS
<1> USE DEF diskVars, configVars, handleVars, groupVars, callVars, resultVars, countVars
<1>1. ASSUME NEW n \in WorkerCounts, NEW t \in DeltaThresholds, NEW sh \in ShadowModes,
             Open(n, t, sh)
      PROVE  IdOfCall'
  BY <1>1 DEF Open, CallOpen, IdOfCall, Saving
<1>2. ASSUME NEW s \in Snapshots, SaveBadLength(s) \/ SaveNothing(s) PROVE IdOfCall'
  BY <1>2 DEF SaveBadLength, SaveNothing, IdOfCall, Saving
<1>3. ASSUME NEW s \in Snapshots, NEW mem, NEW first, BeginSave(s, mem, first)
      PROVE  IdOfCall'
  BY <1>3 DEF BeginSave, IdOfCall
<1>4. ASSUME NEW g \in Groups, NEW pa \in Pas, EmitZero(g, pa) \/ LockBlob(g, pa)
      PROVE  IdOfCall'
  BY <1>4, IdFrame DEF EmitZero, LockBlob, Saving
<1>5. ASSUME NEW g \in Groups, NEW spill \in SpillChoices, EmitDelta(g, spill) \/ EmitFull(g, spill)
      PROVE  IdOfCall'
  BY <1>5, IdFrame DEF EmitDelta, EmitFull, Saving
<1>6. ASSUME PassDone \/ SeekHeader \/ (\E spill \in SpillChoices : WriteRecord(spill))
      PROVE  IdOfCall'
  BY <1>6, IdFrame DEF PassDone, SeekHeader, WriteRecord, Saving
<1>7. ASSUME PassFail \/ WriteFail \/ UpdateHeader PROVE IdOfCall'
  BY <1>7 DEF PassFail, WriteFail, UpdateHeader, Return, IdOfCall, Saving
<1>8. ASSUME BeginFlush \/ FlushBlob \/ EndFlush PROVE IdOfCall'
  BY <1>8, IdFrame DEF BeginFlush, FlushBlob, EndFlush, Flushed, Saving
<1>9. ASSUME Close \/ Crash PROVE IdOfCall'
  BY <1>9 DEF Close, Flushed, Crash, IdOfCall, Saving
<1>10. ASSUME NEW g \in Groups, AppendFail(g) PROVE IdOfCall'
  BY <1>10, IdFrame DEF AppendFail, GiveUp, Saving
<1>11. ASSUME UNCHANGED vars PROVE IdOfCall'
  BY <1>11, IdFrame DEF vars, Saving
<1>12. ASSUME Call PROVE IdOfCall'
  BY <1>1, <1>2, <1>3, <1>8, <1>12 DEF Call, BeginSaveAll, BeginSaveBitmap
<1>13. ASSUME Step PROVE IdOfCall'
  BY <1>4, <1>5, <1>6, <1>7, <1>8, <1>9, <1>13 DEF Step
<1> QED
  BY <1>7, <1>9, <1>10, <1>11, <1>12, <1>13 DEF Next, Fault

LEMMA WellFormedStable == \A idx : IndexWithin(idx)' <=> IndexWithin(idx)
  BY WithinStable DEF IndexWithin

LEMMA AnchoredInit == InitMaintenance => Anchored
<1> SUFFICES ASSUME InitMaintenance PROVE Anchored
  OBVIOUS
<1>1. /\ Init /\ index = EmptyIndex /\ kept = EmptyIndex /\ tool_pc = "none"
  BY DEF InitMaintenance
<1>2. IdOfCall
  BY <1>1 DEF Init, IdOfCall, Saving
<1>3. IndexWithin(EmptyIndex)
  BY EmptyKeyed DEF IndexWithin
<1> QED
  BY <1>1, <1>2, <1>3, UnflushedInit, WithinInit DEF Anchored, KeepsInput

LEMMA AnchoredWriter == IInv /\ Anchored /\ Writer => Anchored'
<1> SUFFICES ASSUME IInv, Anchored, Writer PROVE Anchored'
  OBVIOUS
<1>1. Next /\ tool_pc' = "none" /\ UNCHANGED <<index, kept>>
  BY DEF Writer, purgeVars
<1>2. TypeOK /\ CallOpen /\ IdOfCall /\ Unflushed /\ DeltasWithin
  BY DEF IInv, Tooled, LogMade, Anchored
<1>3. IdOfCall' /\ Unflushed' /\ DeltasWithin'
  BY <1>1, <1>2, IdOfCallStep, UnflushedStep, WithinStep
<1>4. IndexWithin(index)' /\ IndexWithin(kept)'
  BY <1>1, WellFormedStable DEF Anchored, IndexWithin
<1> QED
  BY <1>1, <1>3, <1>4 DEF Anchored, KeepsInput


-----------------------------------------------------------------------------
(* The records and files of the tools.                                     *)

\* No handle is open while a tool runs.
LEMMA ToolClosed == Anchored /\ Tool => ~isOpen
<1> SUFFICES ASSUME Anchored, Tool PROVE ~isOpen
  OBVIOUS
<1>1. CASE tool_pc # "none"
  BY <1>1 DEF Anchored, KeepsInput
<1>2. CASE tool_pc = "none"
  <2>1. to_btree \/ to_log \/ DeleteLog \/ DeleteIndex => ~isOpen
    BY DEF to_btree, to_log, DeleteLog, DeleteIndex, RunTool, Offline
  <2>2. ASSUME NEW T, PurgeNothing(T) \/ BeginPurge(T) PROVE ~isOpen
    BY <2>2 DEF PurgeNothing, BeginPurge, RunTool, Offline
  <2>3. ASSUME NEW w PROVE ~(TruncateBlob(w) \/ TruncateFail(w) \/ CleanupBlob(w))
    BY <1>2 DEF TruncateBlob, TruncateFail, CleanupBlob
  <2>4. ~(TruncateDone \/ CleanupDone \/ PurgeIndex \/ PurgeLog \/ ToolCrash)
    BY <1>2 DEF TruncateDone, CleanupDone, PurgeIndex, PurgeLog, ToolCrash
  <2> QED
    BY <2>1, <2>2, <2>3, <2>4 DEF Tool
<1> QED
  BY <1>1, <1>2

\* What no handle has open is on disk.
OnDisk == disk_log = log /\ disk_blobs = blobs

LEMMA AllOnDisk == TypeOK /\ Unflushed /\ ~isOpen => OnDisk
<1> SUFFICES ASSUME TypeOK, Unflushed, ~isOpen PROVE disk_log = log /\ disk_blobs = blobs
  BY DEF OnDisk
<1>1. logOnDisk = Len(log) /\ \A w \in Workers : blobOnDisk[w] = Len(blobs[w])
  BY DEF Unflushed
<1>2. log \in Seq(Slot) /\ \A w \in Workers : blobs[w] \in Seq(Blob)
  BY FileTypes
<1>3. SubSeq(log, 1, Len(log)) = log
  BY <1>2
<1>4. \A w \in Workers : SubSeq(blobs[w], 1, Len(blobs[w])) = blobs[w]
  BY <1>2
<1>5. disk_blobs = [w \in Workers |-> blobs[w]]
  BY <1>1, <1>4 DEF disk_blobs
<1>6. blobs = [w \in Workers |-> blobs[w]]
  BY DEF TypeOK
<1> QED
  BY <1>1, <1>3, <1>5, <1>6 DEF disk_log

LEMMA ToolUnflushed == IInv /\ Anchored /\ Tool => Unflushed'
<1> SUFFICES ASSUME IInv, Anchored, Tool PROVE Unflushed'
  OBVIOUS
<1> USE DEF vars, diskVars, dirVars, writerVars, processVars, configVars, handleVars, groupVars, resultVars,
            callVars, countVars
<1>1. ~isOpen /\ UNCHANGED <<isOpen, pc, next>> /\ (pc # "idle" => isOpen)
  BY ToolClosed, ToolFrame DEF IInv, Tooled, LogMade, CallOpen
<1>2. pc = "idle" /\ next = 0
  BY <1>1 DEF Anchored, Unflushed
<1>3. logOnDisk' = Len(log')
  <2>1. CASE UNCHANGED <<header, log, logOnDisk>>
    BY <1>1, <2>1 DEF Anchored, Unflushed
  <2>2. CASE header' = None /\ log' = <<>> /\ logOnDisk' = 0
    BY <2>2
  <2>3. CASE \E idx : WellKeyed(idx) /\ write_log_file(idx)
    BY <2>3, LogHolds DEF write_log_file
  <2> QED
    BY <2>1, <2>2, <2>3, ToolLog
<1>4. /\ blobs \in [Workers -> Seq(Blob)] /\ blobOnDisk \in [Workers -> Nat]
      /\ \A w \in Workers : blobOnDisk[w] = Len(blobs[w])
  BY <1>1 DEF IInv, TypeOK, Anchored, Unflushed
<1>5. \A w \in Workers : blobOnDisk'[w] = Len(blobs'[w])
  <2>1. ASSUME UNCHANGED <<blobs, blobOnDisk>>
        PROVE  \A w \in Workers : blobOnDisk'[w] = Len(blobs'[w])
    BY <1>4, <2>1
  <2>2. ASSUME NEW w \in Workers, TruncateBlob(w)
        PROVE  \A v \in Workers : blobOnDisk'[v] = Len(blobs'[v])
    <3>1. WellKeyed(kept) /\ w \in truncated_workers(kept)
      BY <2>2 DEF IInv, AllSound, Tooled, PurgeRuns, TruncateBlob
    <3>2. Len(set_len(blobs[w], keep_len(w))) = keep_len(w)
      BY <1>4, <3>1, KeepLen, SetLen
    <3>3. /\ blobs'[w] = set_len(blobs[w], keep_len(w)) /\ blobOnDisk'[w] = keep_len(w)
          /\ \A v \in Workers : v # w => blobs'[v] = blobs[v] /\ blobOnDisk'[v] = blobOnDisk[v]
      BY <1>4, <2>2 DEF TruncateBlob
    <3> QED
      BY <1>4, <3>2, <3>3
  <2>3. ASSUME NEW w \in Workers, CleanupBlob(w)
        PROVE  \A v \in Workers : blobOnDisk'[v] = Len(blobs'[v])
    <3>1. /\ blobs'[w] = <<>> /\ blobOnDisk'[w] = 0
          /\ \A v \in Workers : v # w => blobs'[v] = blobs[v] /\ blobOnDisk'[v] = blobOnDisk[v]
      BY <1>4, <2>3 DEF CleanupBlob
    <3> QED
      BY <1>4, <3>1
  <2>4. to_btree \/ to_log \/ DeleteLog \/ DeleteIndex => UNCHANGED <<blobs, blobOnDisk>>
    BY DEF to_btree, to_log, DeleteLog, DeleteIndex
  <2>5. ASSUME NEW T, PurgeNothing(T) \/ BeginPurge(T) PROVE UNCHANGED <<blobs, blobOnDisk>>
    BY <2>5 DEF PurgeNothing, BeginPurge
  <2>6. ASSUME NEW w, TruncateFail(w) PROVE UNCHANGED <<blobs, blobOnDisk>>
    BY <2>6 DEF TruncateFail
  <2>7. TruncateDone \/ CleanupDone \/ PurgeIndex \/ PurgeLog \/ ToolCrash
          => UNCHANGED <<blobs, blobOnDisk>>
    BY DEF TruncateDone, CleanupDone, PurgeIndex, PurgeLog, ToolCrash
  <2> QED
    BY <2>1, <2>2, <2>3, <2>4, <2>5, <2>6, <2>7 DEF Tool
<1> QED
  BY <1>1, <1>2, <1>3, <1>5 DEF Unflushed

\* The Deltas of a part of an index, or of the index of a log, or of the log
\* of an index, are those that were there before.
LEMMA KeptWithin ==
    ASSUME NEW idx, IndexWithin(idx), NEW T
    PROVE  IndexWithin(kept_of(idx, T))
<1>1. \A k \in DOMAIN kept_of(idx, T) : k \in DOMAIN idx /\ kept_of(idx, T)[k] = idx[k]
  BY DEF kept_of
<1> QED
  BY <1>1 DEF IndexWithin

LEMMA LogIndexWithin ==
    ASSUME TypeOK, DeltasWithin
    PROVE  IndexWithin(build_lazy_index(log))
<1>1. log \in Seq(Slot) /\ \A i \in 1..Len(log) : WellFormed(log[i])
  BY DEF TypeOK, DeltasWithin
<1>2. ASSUME NEW k \in DOMAIN build_lazy_index(log) PROVE WellFormed(build_lazy_index(log)[k])
  <2>1. PICK i \in 1..Len(log) : build_lazy_index(log)[k] = log[i]
    BY <1>1, <1>2, IndexHolds
  <2> QED
    BY <1>1, <2>1
<1> QED
  BY <1>2 DEF IndexWithin

LEMMA IndexLogWithin ==
    ASSUME NEW idx, WellKeyed(idx), IndexWithin(idx)
    PROVE  \A i \in 1..Len(by_snapshot(idx)) : WellFormed(by_snapshot(idx)[i])
  BY LogHolds DEF IndexWithin


LEMMA ToolWithin ==
    IInv /\ Anchored /\ Tool => DeltasWithin' /\ IndexWithin(index') /\ IndexWithin(kept')
<1> SUFFICES ASSUME IInv, Anchored, Tool
             PROVE  DeltasWithin' /\ IndexWithin(index') /\ IndexWithin(kept')
  OBVIOUS
<1> USE DEF vars, dirVars, purgeVars
<1>1. /\ TypeOK /\ WellKeyed(index) /\ WellKeyed(kept)
      /\ DeltasWithin /\ IndexWithin(index) /\ IndexWithin(kept)
  BY DEF IInv, AllSound, Anchored
<1>2. /\ IndexWithin(build_lazy_index(log)) /\ IndexWithin(purge_input)
      /\ IndexWithin(EmptyIndex)
  BY <1>1, LogIndexWithin, EmptyKeyed DEF purge_input, IndexWithin
<1>3. DeltasWithin'
  <2>1. UNCHANGED <<records_buf, shadow, last_snapshot>>
    BY ToolFrame DEF processVars, groupVars, handleVars
  <2>2. \A i \in 1..Len(log') : WellFormed(log'[i])
    <3>1. CASE UNCHANGED <<header, log, logOnDisk>>
      BY <1>1, <3>1 DEF DeltasWithin
    <3>2. CASE header' = None /\ log' = <<>> /\ logOnDisk' = 0
      BY <3>2
    <3>3. CASE \E idx \in {index, kept} : WellKeyed(idx) /\ write_log_file(idx)
      BY <1>1, <3>3, IndexLogWithin DEF write_log_file
    <3> QED
      BY <3>1, <3>2, <3>3, ToolLog
  <2>3. ShadowWithin'
    BY <1>1, <2>1, WithinStable DEF DeltasWithin, ShadowWithin
  <2>4. \A k \in Pas : WellFormed(records_buf'[k])
    BY <1>1, <2>1 DEF DeltasWithin
  <2> QED
    BY <2>2, <2>3, <2>4, WithinStable DEF DeltasWithin
<1>4. IndexWithin(index') /\ IndexWithin(kept')
  <2>1. CASE to_btree
    BY <1>1, <1>2, <2>1 DEF to_btree
  <2>2. CASE to_log \/ TruncateDone \/ CleanupDone \/ PurgeIndex
    BY <1>1, <2>2 DEF to_log, TruncateDone, CleanupDone, PurgeIndex
  <2>3. ASSUME NEW T, PurgeNothing(T) PROVE IndexWithin(index') /\ IndexWithin(kept')
    BY <1>1, <2>3 DEF PurgeNothing
  <2>4. ASSUME NEW T, BeginPurge(T) PROVE IndexWithin(index') /\ IndexWithin(kept')
    BY <1>1, <1>2, <2>4, KeptWithin DEF BeginPurge
  <2>5. ASSUME NEW w, TruncateBlob(w) \/ TruncateFail(w) \/ CleanupBlob(w)
        PROVE  IndexWithin(index') /\ IndexWithin(kept')
    BY <1>1, <1>2, <2>5 DEF TruncateBlob, TruncateFail, CleanupBlob, EndPurge
  <2>6. CASE PurgeLog \/ ToolCrash
    BY <1>1, <1>2, <2>6 DEF PurgeLog, ToolCrash, EndPurge
  <2>7. CASE DeleteLog \/ DeleteIndex
    BY <1>1, <1>2, <2>7 DEF DeleteLog, DeleteIndex
  <2> QED
    BY <2>1, <2>2, <2>3, <2>4, <2>5, <2>6, <2>7 DEF Tool
<1> QED
  BY <1>3, <1>4

\* To keep the same records once more changes nothing.
LEMMA KeptTwice ==
    ASSUME NEW idx, NEW T
    PROVE  kept_of(kept_of(idx, T), T) = kept_of(idx, T)
<1>1. DOMAIN kept_of(idx, T) = {k \in DOMAIN idx : snapshot_of(k) <= T}
  BY DEF kept_of
<1>2. {k \in DOMAIN kept_of(idx, T) : snapshot_of(k) <= T} = DOMAIN kept_of(idx, T)
  BY <1>1
<1>3. \A k \in DOMAIN kept_of(idx, T) : kept_of(idx, T)[k] = idx[k]
  BY DEF kept_of
<1> QED
  BY <1>1, <1>2, <1>3 DEF kept_of

LEMMA ToolKeeps == IInv /\ Anchored /\ Tool => KeepsInput'
<1> SUFFICES ASSUME IInv, Anchored, Tool, tool_pc' # "none"
             PROVE  ~isOpen' /\ kept' = kept_of(purge_input', threshold')
  BY DEF KeepsInput, kept_of, snapshot_of
<1> USE DEF vars, diskVars, dirVars, purgeVars
<1>1. ~isOpen'
  BY ToolClosed, ToolFrame DEF processVars, configVars
<1>2. tool_pc # "none" => kept = kept_of(purge_input, threshold)
  BY DEF Anchored, KeepsInput
<1>3. ASSUME tool_pc # "none", UNCHANGED <<log, has_index, index, kept, threshold>>
      PROVE  kept' = kept_of(purge_input', threshold')
  <2>1. purge_input' = purge_input
    BY <1>3 DEF purge_input, build_lazy_index
  <2> QED
    BY <1>2, <1>3, <2>1
<1>4. ~(to_btree \/ to_log \/ DeleteLog \/ DeleteIndex)
  BY DEF to_btree, to_log, DeleteLog, DeleteIndex, RunTool, Offline
<1>5. ASSUME NEW T PROVE ~PurgeNothing(T)
  BY DEF PurgeNothing, RunTool, Offline
<1>6. ASSUME NEW T, BeginPurge(T) PROVE kept' = kept_of(purge_input', threshold')
  <2>1. /\ kept' = kept_of(purge_input, T) /\ threshold' = T
        /\ UNCHANGED <<log, has_index, index>>
    BY <1>6 DEF BeginPurge
  <2>2. purge_input' = purge_input
    BY <2>1 DEF purge_input, build_lazy_index
  <2> QED
    BY <2>1, <2>2
<1>7. ASSUME NEW w, TruncateBlob(w) \/ CleanupBlob(w)
      PROVE  kept' = kept_of(purge_input', threshold')
  BY <1>3, <1>7 DEF TruncateBlob, CleanupBlob
<1>8. CASE TruncateDone \/ CleanupDone
  BY <1>1, <1>3, <1>8 DEF TruncateDone, CleanupDone
<1>9. CASE PurgeIndex
  <2>1. /\ tool_pc # "none" /\ UNCHANGED <<log, has_index, kept, threshold>>
        /\ index' = IF has_index THEN kept ELSE index
    BY <1>9 DEF PurgeIndex
  <2>2. CASE has_index
    <3>1. purge_input' = kept
      BY <2>1, <2>2 DEF purge_input
    <3> QED
      BY <1>1, <1>2, <2>1, <3>1, KeptTwice
  <2>3. CASE ~has_index
    BY <1>1, <1>3, <2>1, <2>3
  <2> QED
    BY <2>2, <2>3
<1>10. ASSUME NEW w PROVE ~TruncateFail(w)
  BY DEF TruncateFail, EndPurge
<1>11. ~(PurgeLog \/ ToolCrash)
  BY DEF PurgeLog, ToolCrash, EndPurge
<1> QED
  BY <1>1, <1>4, <1>5, <1>6, <1>7, <1>8, <1>9, <1>10, <1>11 DEF Tool

LEMMA AnchoredStep == IInv /\ Anchored /\ [NextMaintenance]_allVars => Anchored'
<1> SUFFICES ASSUME IInv, Anchored, [NextMaintenance]_allVars PROVE Anchored'
  OBVIOUS
<1>1. CASE Writer
  BY <1>1, AnchoredWriter
<1>2. CASE Tool
  <2>1. IdOfCall'
    BY <1>2, ToolFrame DEF Anchored, IdOfCall, Saving, processVars, handleVars, callVars, resultVars
  <2>2. IndexWithin(index)' /\ IndexWithin(kept)'
    BY <1>2, ToolWithin, WellFormedStable DEF IndexWithin
  <2> QED
    BY <1>2, <2>1, <2>2, ToolUnflushed, ToolWithin, ToolKeeps DEF Anchored
<1>3. CASE UNCHANGED allVars
  <2>1. UNCHANGED vars /\ UNCHANGED <<has_index, index, tool_pc, kept, threshold>>
    BY <1>3 DEF allVars, purgeVars
  <2>2. TypeOK /\ CallOpen /\ IdOfCall /\ Unflushed /\ DeltasWithin
    BY DEF IInv, Tooled, LogMade, Anchored
  <2>3. IdOfCall' /\ Unflushed' /\ DeltasWithin'
    BY <2>1, <2>2, IdOfCallStep, UnflushedStep, WithinStep
  <2>4. IndexWithin(index)' /\ IndexWithin(kept)'
    BY <2>1, WellFormedStable DEF Anchored, IndexWithin
  <2>5. UNCHANGED <<log, isOpen>>
    BY <2>1 DEF vars, diskVars, configVars
  <2>6. KeepsInput'
    <3>1. purge_input' = purge_input
      BY <2>1, <2>5 DEF purge_input, build_lazy_index
    <3>2. kept_of(purge_input, threshold)' = kept_of(purge_input, threshold)
      BY <2>1, <3>1 DEF kept_of, snapshot_of
    <3> QED
      BY <2>1, <2>5, <3>2 DEF Anchored, KeepsInput
  <2> QED
    BY <2>3, <2>4, <2>6 DEF Anchored
<1> QED
  BY <1>1, <1>2, <1>3 DEF NextMaintenance, Tool


-----------------------------------------------------------------------------
(* Loads that succeed before a step of a purge, and after it.              *)

\* The bytes of a record, if it finds them in files1, are those in files2.
StillThere(rec, files1, files2) ==
    in_range(files1, rec) =>
        /\ in_range(files2, rec)
        /\ rec.len = 1 =>
              files1[rec.worker_id][rec.offset + 1] = files2[rec.worker_id][rec.offset + 1]

LEMMA BlobStays ==
    ASSUME NEW rec \in Slot, NEW files1, NEW files2, StillThere(rec, files1, files2)
    PROVE  /\ decompress_blob_into(files1, rec) # Error =>
                 decompress_blob_into(files2, rec) = decompress_blob_into(files1, rec)
           /\ delta_patch_of(files1, rec) # {} =>
                 delta_patch_of(files2, rec) = delta_patch_of(files1, rec)
<1>1. CASE ~in_range(files1, rec)
  BY <1>1 DEF decompress_blob_into, delta_patch_of
<1>2. CASE in_range(files1, rec)
  <2>1. SameBytes(rec, files1, files2)
    BY <1>2 DEF StillThere, SameBytes
  <2> QED
    BY <2>1, SameBlob
<1> QED
  BY <1>1, <1>2

\* The base of a Delta.
LEMMA BaseStays ==
    ASSUME NEW idx1, NEW files1, NEW idx2, NEW files2, NEW base,
           load_full(idx1, files1, base) # Error,
           base \in DOMAIN idx1 =>
              /\ base \in DOMAIN idx2 /\ idx1[base] = idx2[base] /\ idx1[base] \in Slot
              /\ idx1[base].kind = "Full" => StillThere(idx1[base], files1, files2)
    PROVE  load_full(idx2, files2, base) = load_full(idx1, files1, base)
<1>1. CASE base \notin DOMAIN idx1
  BY <1>1 DEF load_full, exact_sorted
<1>2. CASE base \in DOMAIN idx1
  <2>1. exact_sorted(idx1, base) = {idx1[base]} /\ exact_sorted(idx2, base) = {idx1[base]}
    BY <1>2 DEF exact_sorted
  <2>2. idx1[base].kind = "Full" /\ decompress_blob_into(files1, idx1[base]) # Error
    BY <1>2, <2>1 DEF load_full
  <2>3. decompress_blob_into(files2, idx1[base]) = decompress_blob_into(files1, idx1[base])
    BY <1>2, <2>2, BlobStays
  <2> QED
    BY <1>2, <2>1, <2>2, <2>3 DEF load_full
<1> QED
  BY <1>1, <1>2

LEMMA RecordStays ==
    ASSUME NEW idx1, NEW files1, NEW idx2, NEW files2, NEW rec \in Slot,
           resolve_uncached(idx1, files1, rec) # Error,
           rec.kind # "Zero" => StillThere(rec, files1, files2),
           (rec.kind = "Delta" /\ load_full(idx1, files1, rec.base_key) # Error) =>
              load_full(idx2, files2, rec.base_key) = load_full(idx1, files1, rec.base_key)
    PROVE  resolve_uncached(idx2, files2, rec) = resolve_uncached(idx1, files1, rec)
<1>1. CASE rec.kind = "Zero"
  BY <1>1, Resolved
<1>2. CASE rec.kind = "Full"
  BY <1>2, Resolved, BlobStays
<1>3. CASE rec.kind = "Delta"
  <2>1. resolve_uncached(idx1, files1, rec)
          = apply_delta(load_full(idx1, files1, rec.base_key), delta_patch_of(files1, rec))
    BY <1>3, Resolved
  <2>2. load_full(idx1, files1, rec.base_key) # Error /\ delta_patch_of(files1, rec) # {}
    BY <2>1 DEF apply_delta
  <2>3. /\ load_full(idx2, files2, rec.base_key) = load_full(idx1, files1, rec.base_key)
        /\ delta_patch_of(files2, rec) = delta_patch_of(files1, rec)
    BY <1>3, <2>2, BlobStays
  <2> QED
    BY <1>3, <2>1, <2>3, Resolved
<1>4. CASE rec.kind = "Uninit"
  BY <1>4, Resolved
<1> QED
  BY <1>1, <1>2, <1>3, <1>4 DEF Slot, ChunkKind

\* Two indexes hold the same records up to snapshot T, and what they find in
\* the first files is in the second.
Preserves(T, idx1, files1, idx2, files2) ==
    \A k \in Nat : snapshot_of(k) <= T =>
        /\ k \in DOMAIN idx1 <=> k \in DOMAIN idx2
        /\ k \in DOMAIN idx1 =>
              /\ idx1[k] = idx2[k] /\ idx1[k] \in Slot /\ idx1[k].key = k
              /\ DeltaWithin(idx1[k])
              /\ idx1[k].kind # "Zero" => StillThere(idx1[k], files1, files2)

\* A load of what is kept that succeeds goes on to give the same answer.
LEMMA LoadStays ==
    ASSUME NEW idx1, NEW files1, NEW idx2, NEW files2, NEW T \in Nat,
           DOMAIN idx1 \subseteq Nat, DOMAIN idx2 \subseteq Nat,
           NEW pa \in 0..(PaLimit - 1), NEW q \in 0..MAX_SNAPSHOT_ID, q <= T,
           Preserves(T, idx1, files1, idx2, files2),
           load_page(idx1, files1, pa, q) # Error
    PROVE  load_page(idx2, files2, pa, q) = load_page(idx1, files1, pa, q)
<1> DEFINE Latest(idx) == {k \in DOMAIN idx :
                            /\ Past(pa, q, k)
                            /\ \A j \in DOMAIN idx : Past(pa, q, j) => j <= k}
<1>1. /\ floor_sorted(idx1, encode_key(pa, q), pa) = {idx1[k] : k \in Latest(idx1)}
      /\ floor_sorted(idx2, encode_key(pa, q), pa) = {idx2[k] : k \in Latest(idx2)}
  BY FloorMeaning
<1>2. \A k \in Nat : Past(pa, q, k) => snapshot_of(k) <= T
  BY SnapNat, SnapshotRange DEF Past
<1>3. \A k \in Nat : snapshot_of(k) <= T => (k \in DOMAIN idx1 <=> k \in DOMAIN idx2)
  BY DEF Preserves
<1>4. \A k \in DOMAIN idx1 : snapshot_of(k) <= T =>
         /\ idx1[k] = idx2[k] /\ idx1[k] \in Slot /\ idx1[k].key = k
         /\ DeltaWithin(idx1[k])
         /\ idx1[k].kind # "Zero" => StillThere(idx1[k], files1, files2)
  BY DEF Preserves
<1>5. Latest(idx1) = Latest(idx2)
  <2>1. \A k \in Nat : (k \in DOMAIN idx1 /\ Past(pa, q, k)) <=> (k \in DOMAIN idx2 /\ Past(pa, q, k))
    BY <1>2, <1>3
  <2> QED
    BY <2>1
<1>6. CASE Latest(idx1) = {}
  BY <1>1, <1>5, <1>6 DEF load_page, resolve
<1>7. ASSUME NEW k \in Latest(idx1)
      PROVE  load_page(idx2, files2, pa, q) = load_page(idx1, files1, pa, q)
  <2>1. k \in Nat /\ k \in DOMAIN idx1 /\ Past(pa, q, k) /\ snapshot_of(k) <= T
    BY <1>2
  <2>2. \A j \in Latest(idx1) : j = k
    <3>1. \A j \in Latest(idx1) : j \in Nat /\ j <= k /\ k <= j
      OBVIOUS
    <3> QED
      BY <2>1, <3>1
  <2>3. Latest(idx1) = {k} /\ Latest(idx2) = {k}
    BY <1>5, <2>2
  <2> HIDE DEF Latest
  <2> DEFINE rec == idx1[k]
  <2>4. /\ rec = idx2[k] /\ rec \in Slot /\ rec.key = k /\ DeltaWithin(rec)
        /\ rec.kind # "Zero" => StillThere(rec, files1, files2)
    BY <1>4, <2>1
  <2>5. /\ floor_sorted(idx1, encode_key(pa, q), pa) = {rec}
        /\ floor_sorted(idx2, encode_key(pa, q), pa) = {rec}
    BY <1>1, <2>3, <2>4
  <2> HIDE DEF rec
  <2>6. /\ load_page(idx1, files1, pa, q) = resolve_uncached(idx1, files1, rec)
        /\ load_page(idx2, files2, pa, q) = resolve_uncached(idx2, files2, rec)
    <3>1. /\ {resolve_uncached(idx1, files1, r) : r \in {rec}} = {resolve_uncached(idx1, files1, rec)}
          /\ {resolve_uncached(idx2, files2, r) : r \in {rec}} = {resolve_uncached(idx2, files2, rec)}
      OBVIOUS
    <3> QED
      BY <2>5, <3>1 DEF load_page, resolve
  <2>7. ASSUME rec.kind = "Delta", load_full(idx1, files1, rec.base_key) # Error
        PROVE  load_full(idx2, files2, rec.base_key) = load_full(idx1, files1, rec.base_key)
    <3> DEFINE base == rec.base_key
    <3>1. base \in Nat
      BY <2>4 DEF Slot
    <3>2. snapshot_of(base) <= T
      <4>1. snapshot_of(base) <= snapshot_of(k)
        BY <2>4, <2>7 DEF DeltaWithin, Past
      <4>2. snapshot_of(base) \in Nat /\ snapshot_of(k) \in Nat
        BY <2>1, <3>1, SnapNat
      <4> QED
        BY <2>1, <4>1, <4>2
    <3>3. base \in DOMAIN idx1 =>
             /\ base \in DOMAIN idx2 /\ idx1[base] = idx2[base] /\ idx1[base] \in Slot
             /\ idx1[base].kind # "Zero" => StillThere(idx1[base], files1, files2)
      BY <1>3, <1>4, <3>1, <3>2
    <3>4. base \in DOMAIN idx1 =>
             /\ base \in DOMAIN idx2 /\ idx1[base] = idx2[base] /\ idx1[base] \in Slot
             /\ idx1[base].kind = "Full" => StillThere(idx1[base], files1, files2)
      BY <3>3
    <3> QED
      BY <2>7, <3>4, BaseStays
  <2>8. resolve_uncached(idx2, files2, rec) = resolve_uncached(idx1, files1, rec)
    BY <2>4, <2>6, <2>7, RecordStays
  <2> QED
    BY <2>6, <2>8
<1> QED
  BY <1>6, <1>7


-----------------------------------------------------------------------------
(* The steps of a purge.                                                   *)

LEMMA KeptPreserves ==
    ASSUME NEW T, NEW idx1, NEW idx2, WellKeyed(idx1), WellKeyed(idx2), IndexWithin(idx1),
           kept_of(idx1, T) = kept_of(idx2, T), NEW files1, NEW files2,
           \A r \in records_of(kept_of(idx1, T)) : r.kind # "Zero" => StillThere(r, files1, files2)
    PROVE  Preserves(T, idx1, files1, idx2, files2)
<1> DEFINE K == kept_of(idx1, T)
<1>1. /\ DOMAIN K = {k \in DOMAIN idx1 : snapshot_of(k) <= T}
      /\ DOMAIN K = {k \in DOMAIN idx2 : snapshot_of(k) <= T}
      /\ \A k \in DOMAIN K : K[k] = idx1[k]
      /\ \A k \in DOMAIN K : K[k] = idx2[k]
  <2>1. /\ DOMAIN kept_of(idx1, T) = {k \in DOMAIN idx1 : snapshot_of(k) <= T}
        /\ \A k \in DOMAIN kept_of(idx1, T) : kept_of(idx1, T)[k] = idx1[k]
    BY DEF kept_of
  <2>2. /\ DOMAIN kept_of(idx2, T) = {k \in DOMAIN idx2 : snapshot_of(k) <= T}
        /\ \A k \in DOMAIN kept_of(idx2, T) : kept_of(idx2, T)[k] = idx2[k]
    BY DEF kept_of
  <2> QED
    BY <2>1, <2>2
<1>2. \A k \in DOMAIN K : K[k].kind # "Zero" => StillThere(K[k], files1, files2)
  BY DEF records_of
<1> HIDE DEF K
<1>3. \A k \in DOMAIN idx1 : idx1[k] \in Slot /\ idx1[k].key = k /\ DeltaWithin(idx1[k])
  BY DEF WellKeyed, Sound, IndexWithin, WellFormed
<1>4. ASSUME NEW k \in Nat, snapshot_of(k) <= T
      PROVE  /\ k \in DOMAIN idx1 <=> k \in DOMAIN idx2
             /\ k \in DOMAIN idx1 =>
                   /\ idx1[k] = idx2[k] /\ idx1[k] \in Slot /\ idx1[k].key = k
                   /\ DeltaWithin(idx1[k])
                   /\ idx1[k].kind # "Zero" => StillThere(idx1[k], files1, files2)
  <2>1. /\ k \in DOMAIN idx1 <=> k \in DOMAIN K
        /\ k \in DOMAIN idx2 <=> k \in DOMAIN K
    BY <1>1, <1>4
  <2> QED
    BY <1>1, <1>2, <1>3, <2>1
<1> QED
  BY <1>4 DEF Preserves

\* No file is cut before the end of the last kept blob.
LEMMA TruncateKeeps ==
    ASSUME IInv, NEW w \in Workers, TruncateBlob(w), NEW r \in records_of(kept),
           WellFormed(r), r.kind # "Zero"
    PROVE  StillThere(r, blobs, blobs')
<1>1. WellKeyed(kept) /\ w \in truncated_workers(kept)
  BY DEF IInv, AllSound, Tooled, PurgeRuns, TruncateBlob
<1>2. /\ blobs \in [Workers -> Seq(Blob)] /\ r.worker_id \in Workers
      /\ r \in Slot /\ r.offset \in Nat /\ r.len \in 0..1
  <2>1. blobs \in [Workers -> Seq(Blob)] /\ r.worker_id \in Workers
    BY DEF IInv, TypeOK, WellFormed
  <2>2. r \in Slot
    BY <1>1 DEF WellKeyed, Sound, records_of
  <2> QED
    BY <2>1, <2>2 DEF Slot
<1>3. /\ blobs'[w] = set_len(blobs[w], keep_len(w))
      /\ \A v \in Workers : v # w => blobs'[v] = blobs[v]
  BY <1>2 DEF TruncateBlob
<1>4. CASE r.worker_id # w
  BY <1>2, <1>3, <1>4 DEF StillThere, in_range
<1>5. CASE r.worker_id = w
  <2> DEFINE len == keep_len(w)
             file == blobs[w]
  <2>1. len \in Nat /\ r.offset + r.len <= len
    BY <1>1, <1>5, KeepLen
  <2>2. file \in Seq(Blob) /\ Len(file) \in Nat
    BY <1>2
  <2>3. Len(set_len(file, len)) = len
    BY <2>1, <2>2, SetLen
  <2>4. \A i \in 1..len : i <= Len(file) => set_len(file, len)[i] = file[i]
    BY DEF set_len
  <2>5. blobs'[w] = set_len(file, len) /\ blobs[w] = file
    BY <1>3
  <2> HIDE DEF len, file
  <2>6. in_range(blobs', r)
    BY <1>5, <2>1, <2>3, <2>5 DEF in_range
  <2>7. ASSUME in_range(blobs, r), r.len = 1
        PROVE  blobs[r.worker_id][r.offset + 1] = blobs'[r.worker_id][r.offset + 1]
    <3>1. r.offset + 1 <= Len(file)
      BY <1>5, <2>5, <2>7 DEF in_range
    <3>2. r.offset + 1 \in 1..len
      BY <1>2, <2>1, <2>7
    <3> QED
      BY <1>5, <2>4, <2>5, <3>1, <3>2
  <2> QED
    BY <2>6, <2>7 DEF StillThere
<1> QED
  BY <1>4, <1>5

\* No file is removed that a kept record names.
LEMMA CleanupKeeps ==
    ASSUME TypeOK, NEW w \in Workers, CleanupBlob(w), NEW r \in records_of(kept), WellFormed(r)
    PROVE  StillThere(r, blobs, blobs')
<1>1. r.worker_id \in Workers /\ r.worker_id # w
  BY DEF WellFormed, CleanupBlob, unused_blob_files
<1>2. \A v \in Workers : v # w => blobs'[v] = blobs[v]
  BY DEF CleanupBlob, TypeOK
<1> QED
  BY <1>1, <1>2 DEF StillThere, in_range

\* Every step of a purge preserves what it keeps, and so does its death.
LEMMA PurgePreserves ==
    ASSUME IInv, Anchored, Tool, tool_pc # "none", WellKeyed(purge_input')
    PROVE  Preserves(threshold, purge_input, blobs, purge_input', blobs')
<1> USE DEF vars, diskVars, dirVars
<1>1. /\ WellKeyed(purge_input) /\ WellKeyed(kept) /\ kept = kept_of(purge_input, threshold)
  BY InputKeyed DEF IInv, AllSound, Anchored, KeepsInput
<1>2. IndexWithin(purge_input)
  BY LogIndexWithin DEF IInv, Anchored, purge_input
<1>3. \A r \in records_of(kept) : WellFormed(r)
  BY DEF Anchored, IndexWithin, records_of
<1>4. ASSUME kept_of(purge_input', threshold) = kept,
             \A r \in records_of(kept) : r.kind # "Zero" => StillThere(r, blobs, blobs')
      PROVE  Preserves(threshold, purge_input, blobs, purge_input', blobs')
  BY <1>1, <1>2, <1>4, KeptPreserves
<1>5. ASSUME UNCHANGED <<has_index, index, log>> PROVE kept_of(purge_input', threshold) = kept
  <2>1. purge_input' = purge_input
    BY <1>5 DEF purge_input, build_lazy_index
  <2> QED
    BY <1>1, <2>1
<1>6. ASSUME UNCHANGED blobs PROVE \A r \in records_of(kept) : StillThere(r, blobs, blobs')
  BY <1>6 DEF StillThere
<1>7. ASSUME NEW w \in Workers, TruncateBlob(w)
      PROVE  Preserves(threshold, purge_input, blobs, purge_input', blobs')
  <2>1. UNCHANGED <<has_index, index, log>>
    BY <1>7 DEF TruncateBlob
  <2>2. \A r \in records_of(kept) : r.kind # "Zero" => StillThere(r, blobs, blobs')
    BY <1>3, <1>7, TruncateKeeps
  <2> QED
    BY <1>4, <1>5, <2>1, <2>2
<1>8. ASSUME NEW w \in Workers, CleanupBlob(w)
      PROVE  Preserves(threshold, purge_input, blobs, purge_input', blobs')
  <2>1. UNCHANGED <<has_index, index, log>>
    BY <1>8 DEF CleanupBlob
  <2>2. \A r \in records_of(kept) : StillThere(r, blobs, blobs')
    BY <1>3, <1>8, CleanupKeeps DEF IInv
  <2> QED
    BY <1>4, <1>5, <2>1, <2>2
<1>9. CASE PurgeIndex
  <2>1. /\ UNCHANGED <<has_index, log, blobs>>
        /\ index' = IF has_index THEN kept ELSE index
    BY <1>9 DEF PurgeIndex
  <2>2. CASE has_index
    <3>1. purge_input' = kept
      BY <2>1, <2>2 DEF purge_input
    <3>2. kept_of(purge_input', threshold) = kept
      BY <1>1, <3>1, KeptTwice
    <3> QED
      BY <1>4, <1>6, <2>1, <3>2
  <2>3. CASE ~has_index
    BY <1>4, <1>5, <1>6, <2>1, <2>3
  <2> QED
    BY <2>2, <2>3
<1>10. CASE PurgeLog
  <2>1. UNCHANGED <<has_index, index, blobs>>
    BY <1>10 DEF PurgeLog
  <2>2. CASE has_log /\ ~has_index
    <3>1. log' = by_snapshot(kept)
      BY <1>10, <2>2 DEF PurgeLog, write_log_file
    <3>2. purge_input' = kept
      BY <1>1, <2>1, <2>2, <3>1, LogOfIndex DEF purge_input
    <3>3. kept_of(purge_input', threshold) = kept
      BY <1>1, <3>2, KeptTwice
    <3> QED
      BY <1>4, <1>6, <2>1, <3>3
  <2>3. CASE has_index
    <3>1. purge_input' = purge_input
      BY <2>1, <2>3 DEF purge_input
    <3> QED
      BY <1>1, <1>4, <1>6, <2>1, <3>1
  <2>4. CASE ~has_log
    <3>1. UNCHANGED log
      BY <1>10, <2>4 DEF PurgeLog
    <3> QED
      BY <1>4, <1>5, <1>6, <2>1, <3>1
  <2> QED
    BY <2>2, <2>3, <2>4
<1>11. ASSUME \/ \E w \in Workers : TruncateFail(w)
              \/ TruncateDone \/ CleanupDone \/ ToolCrash
       PROVE  Preserves(threshold, purge_input, blobs, purge_input', blobs')
  <2>1. UNCHANGED <<has_index, index, log, blobs>>
    BY <1>11 DEF TruncateFail, TruncateDone, CleanupDone, ToolCrash
  <2> QED
    BY <1>4, <1>5, <1>6, <2>1
<1>12. ~(to_btree \/ to_log \/ DeleteLog \/ DeleteIndex)
  BY DEF to_btree, to_log, DeleteLog, DeleteIndex, RunTool, Offline
<1>13. \A T : ~(PurgeNothing(T) \/ BeginPurge(T))
  BY DEF PurgeNothing, BeginPurge, RunTool, Offline
<1> QED
  BY <1>7, <1>8, <1>9, <1>10, <1>11, <1>12, <1>13 DEF Tool


-----------------------------------------------------------------------------
(* What loads make of the directory.                                       *)

\* The index that PageStore::open makes or finds.
read_index == IF has_index THEN index ELSE build_lazy_index(disk_log)

LoadTable(idx, files) == [pa \in Pas |-> [q \in Queries |-> load_page(idx, files, pa, q)]]

LoadsFromTable == has_index \/ log_reads => loads = LoadTable(read_index, disk_blobs)

LEMMA LoadsAre == LoadsFromTable
<1>1. {LoadTable(idx, files) : idx \in {read_index}, files \in {disk_blobs}}
        = {LoadTable(read_index, disk_blobs)}
  OBVIOUS
<1>2. has_index \/ log_reads
        => loads = CHOOSE table \in {LoadTable(idx, files) :
                                        idx \in {read_index}, files \in {disk_blobs}} : TRUE
  BY DEF loads, LoadTable, read_index
<1>3. has_index \/ log_reads
        => loads = CHOOSE table \in {LoadTable(read_index, disk_blobs)} : TRUE
  BY <1>1, <1>2
<1> QED
  BY <1>3 DEF LoadsFromTable

\* Where neither an index is there nor a log that reads, every load fails.
LEMMA LoadsFail ==
    ASSUME ~(has_index \/ log_reads), NEW pa \in Pas, NEW q \in Queries
    PROVE  loads[pa][q] = Error
  BY DEF loads

\* A purge does not take from the loads what they read.
LEMMA PurgeReads ==
    ASSUME Tool, tool_pc # "none", has_index \/ log_reads
    PROVE  (has_index \/ log_reads)'
<1> USE DEF vars, diskVars, dirVars, writerVars, countVars, log_reads
<1>1. CASE PurgeLog
  BY <1>1 DEF PurgeLog, write_log_file
<1>2. ASSUME NEW w, TruncateBlob(w) \/ TruncateFail(w) \/ CleanupBlob(w)
      PROVE  (has_index \/ log_reads)'
  BY <1>2 DEF TruncateBlob, TruncateFail, CleanupBlob
<1>3. CASE TruncateDone \/ CleanupDone \/ PurgeIndex \/ ToolCrash
  BY <1>3 DEF TruncateDone, CleanupDone, PurgeIndex, ToolCrash
<1>4. ~(to_btree \/ to_log \/ DeleteLog \/ DeleteIndex)
  BY DEF to_btree, to_log, DeleteLog, DeleteIndex, RunTool, Offline
<1>5. \A T : ~(PurgeNothing(T) \/ BeginPurge(T))
  BY DEF PurgeNothing, BeginPurge, RunTool, Offline
<1> QED
  BY <1>1, <1>2, <1>3, <1>4, <1>5 DEF Tool

\* What the purge reads is what loads read.
InputRead == read_index = purge_input /\ disk_blobs = blobs

LEMMA InputIsRead == TypeOK /\ Unflushed /\ ~isOpen => InputRead
  BY AllOnDisk DEF InputRead, OnDisk, read_index, purge_input

LEMMA InputKeyedStable == WellKeyed(purge_input)' => WellKeyed(purge_input')
  BY DEF WellKeyed, Sound, purge_input

\* The property, step by step.
PurgeKeepsStep ==
    \A pa \in Pas, q \in Queries :
        /\ \/ tool_pc # "none" /\ q <= threshold
           \/ tool_pc' # "none" /\ q <= threshold'
        /\ loads[pa][q] # Error
        => loads'[pa][q] = loads[pa][q]

LEMMA PurgeStepKeeps ==
    IInv /\ IInv' /\ Anchored /\ Anchored' /\ [NextMaintenance]_allVars => PurgeKeepsStep
<1> SUFFICES ASSUME IInv, IInv', Anchored, Anchored', [NextMaintenance]_allVars
             PROVE  PurgeKeepsStep
  OBVIOUS
<1> USE DEF vars, diskVars, countVars, dirVars, purgeVars
<1>1. ASSUME UNCHANGED <<has_index, index, log, logOnDisk, torn, blobs, blobOnDisk>>
      PROVE  PurgeKeepsStep
  <2>1. loads' = loads
    BY <1>1 DEF loads, disk_log, disk_blobs, log_reads
  <2> QED
    BY <2>1 DEF PurgeKeepsStep
<1>2. CASE UNCHANGED allVars
  BY <1>1, <1>2 DEF allVars
<1>3. ASSUME tool_pc = "none", tool_pc' = "none" PROVE PurgeKeepsStep
  BY <1>3 DEF PurgeKeepsStep
<1>4. CASE Writer
  BY <1>3, <1>4 DEF Writer
<1>5. CASE Tool /\ tool_pc = "none"
  <2>1. to_btree \/ to_log \/ DeleteLog \/ DeleteIndex => tool_pc' = "none"
    BY <1>5 DEF to_btree, to_log, DeleteLog, DeleteIndex
  <2>2. ASSUME NEW T, PurgeNothing(T) PROVE tool_pc' = "none"
    BY <1>5, <2>2 DEF PurgeNothing
  <2>3. ASSUME NEW T, BeginPurge(T) PROVE PurgeKeepsStep
    BY <1>1, <2>3 DEF BeginPurge
  <2>4. ASSUME NEW w PROVE ~(TruncateBlob(w) \/ TruncateFail(w) \/ CleanupBlob(w))
    BY <1>5 DEF TruncateBlob, TruncateFail, CleanupBlob
  <2>5. ~(TruncateDone \/ CleanupDone \/ PurgeIndex \/ PurgeLog \/ ToolCrash)
    BY <1>5 DEF TruncateDone, CleanupDone, PurgeIndex, PurgeLog, ToolCrash
  <2> QED
    BY <1>3, <1>5, <2>1, <2>2, <2>3, <2>4, <2>5 DEF Tool
<1>6. CASE Tool /\ tool_pc # "none"
  <2>1. InputRead /\ InputRead'
    <3>1. ~isOpen /\ ~isOpen'
      BY <1>6, ToolClosed, ToolFrame DEF processVars, configVars
    <3>2. InputRead
      BY <3>1, InputIsRead DEF IInv, Anchored
    <3>3. TypeOK' /\ Unflushed' /\ ~isOpen' => InputRead'
      BY InputIsRead, PTL
    <3> QED
      BY <3>1, <3>2, <3>3 DEF IInv, Anchored
  <2>2. WellKeyed(purge_input) /\ WellKeyed(purge_input')
    <3>1. WellKeyed(purge_input)'
      BY InputKeyed, PTL
    <3> QED
      BY <3>1, InputKeyed, InputKeyedStable
  <2>3. Preserves(threshold, purge_input, blobs, purge_input', blobs')
    BY <1>6, <2>2, PurgePreserves
  <2>4. Preserves(threshold, read_index, disk_blobs, read_index', disk_blobs')
    BY <2>1, <2>3 DEF InputRead
  <2>5. DOMAIN read_index \subseteq Nat /\ DOMAIN read_index' \subseteq Nat
    BY <2>1, <2>2, KeysNat DEF InputRead
  <2>6. has_index \/ log_reads
          => /\ loads = LoadTable(read_index, disk_blobs)
             /\ loads' = LoadTable(read_index', disk_blobs')
    <3>1. LoadsFromTable /\ LoadsFromTable'
      BY LoadsAre, PTL
    <3>2. has_index \/ log_reads => (has_index \/ log_reads)'
      BY <1>6, PurgeReads
    <3> QED
      BY <3>1, <3>2 DEF LoadsFromTable, LoadTable
  <2>7. threshold \in Nat
    BY DEF IInv, Tooled, PurgeRuns
  <2>8. ASSUME tool_pc' # "none" PROVE threshold' = threshold
    <3>1. ~(PurgeLog \/ ToolCrash) /\ \A w : ~TruncateFail(w)
      BY <2>8 DEF PurgeLog, ToolCrash, TruncateFail, EndPurge
    <3>2. ~(to_btree \/ to_log \/ DeleteLog \/ DeleteIndex)
      BY <1>6 DEF to_btree, to_log, DeleteLog, DeleteIndex, RunTool, Offline
    <3>3. \A T : ~(PurgeNothing(T) \/ BeginPurge(T))
      BY <1>6 DEF PurgeNothing, BeginPurge, RunTool, Offline
    <3>4. ASSUME NEW w, TruncateBlob(w) \/ CleanupBlob(w) PROVE threshold' = threshold
      BY <3>4 DEF TruncateBlob, CleanupBlob
    <3>5. TruncateDone \/ CleanupDone \/ PurgeIndex => threshold' = threshold
      BY DEF TruncateDone, CleanupDone, PurgeIndex
    <3> QED
      BY <1>6, <3>1, <3>2, <3>3, <3>4, <3>5 DEF Tool
  <2>9. ASSUME NEW pa \in Pas, NEW q \in Queries, q <= threshold, loads[pa][q] # Error
        PROVE  loads'[pa][q] = loads[pa][q]
    <3>1. pa \in 0..(PaLimit - 1) /\ q \in 0..MAX_SNAPSHOT_ID
      BY Constants, QueriesAssumption DEF Pas
    <3>2. /\ loads[pa][q] = load_page(read_index, disk_blobs, pa, q)
          /\ loads'[pa][q] = load_page(read_index', disk_blobs', pa, q)
      BY <2>6, <2>9, LoadsFail DEF LoadTable
    <3>3. load_page(read_index', disk_blobs', pa, q) = load_page(read_index, disk_blobs, pa, q)
      BY <2>4, <2>5, <2>7, <2>9, <3>1, <3>2, LoadStays
    <3> QED
      BY <3>2, <3>3
  <2> QED
    BY <1>6, <2>8, <2>9 DEF PurgeKeepsStep
<1> QED
  BY <1>2, <1>4, <1>5, <1>6 DEF NextMaintenance, Tool

\* A purge is invisible to the loads that succeed of the snapshots that it
\* keeps, at every one of its steps and wherever it fails or is killed
\* (purge.rs), in a directory that crashed writers, killed purges and deleted
\* formats have left in whatever state.
THEOREM PurgeAlwaysKeepsPast == SpecMaintenance => PurgeKeepsPast
<1>1. SpecMaintenance => []Anchored
  BY AnchoredInit, AnchoredStep, MaintenanceInv, PTL DEF SpecMaintenance
<1>2. PurgeKeepsStep => [PurgeKeepsStep]_allVars
  OBVIOUS
<1>3. [][PurgeKeepsStep]_allVars => PurgeKeepsPast
  BY PTL DEF PurgeKeepsStep, PurgeKeepsPast
<1> QED
  BY <1>1, <1>2, <1>3, PurgeStepKeeps, MaintenanceInv, PTL DEF SpecMaintenance

-----------------------------------------------------------------------------
(* The order of the log and the bases of its Deltas, across the tools: the *)
(* inductive invariant.                                                    *)

\* Records of the database are of snapshots that a save was called with.
Known ==
    /\ Saving => snapshot_id \in Snapshots
    /\ \A i \in 1..Len(log) : Snap(log[i]) \in Snapshots

\* Between calls, and without a handle, nothing is under way.
AtRest ==
    /\ pc \in {"idle", "flush"} =>
          ~failed /\ snapshot_id = 0 /\ \A k \in Pas : records_buf[k] = Uninit
    /\ pc = "idle" => next = 0
    /\ ~isOpen => shadow = EmptyShadow

\* The files of an open database are there.
Named ==
    /\ isOpen => 0..(blob_count - 1) \subseteq blob_files
    /\ \A k \in Pas : records_buf[k].worker_id < blob_count

\* The records of the log have their files.
LogNamed == \A i \in 1..Len(log) : log[i].worker_id \in blob_files

\* The bytes of a record, if it has any, are of its sort; a Zero record has none.
OfKind(files, rec) ==
    /\ rec.len = 1 => files[rec.worker_id][rec.offset + 1].kind = rec.kind
    /\ rec.kind = "Zero" => rec.offset = 0 /\ rec.len = 0

\* The bytes of what is in the log, and on its way there, are of its sort.
Kinds ==
    /\ \A i \in 1..Len(log) : OfKind(blobs, log[i])
    /\ \A k \in Pas : OfKind(blobs, records_buf[k])

\* A record has its file, and its bytes in it.
Held(rec) == Within(rec) /\ rec.worker_id \in blob_files /\ OfKind(blobs, rec)

\* What an index promises of its records, apart from the files: their blobs do
\* not overlap and are in the order of the snapshots, and every Delta has its
\* base.
Apart(idx) ==
    /\ \A j, k \in DOMAIN idx : /\ j # k => Disjoint(idx[j], idx[k])
                                /\ InOrder(idx[j], idx[k])
    /\ \A k \in DOMAIN idx : idx[k].kind = "Delta" =>
          /\ idx[k].base_key \in DOMAIN idx
          /\ idx[idx[k].base_key].kind = "Full"
          /\ pa_of(idx[k].base_key) = pa_of(k)
          /\ snapshot_of(idx[k].base_key) < snapshot_of(k)

IndexHeld(idx) == \A k \in DOMAIN idx : Held(idx[k])

IndexKnown(idx) == \A k \in DOMAIN idx : snapshot_of(k) \in Snapshots

\* The same of the log, which is in order itself.
LogApart ==
    /\ LogDisjoint
    /\ \A i, j \in 1..Len(log) : InOrder(log[i], log[j])
    /\ \A i, j \in 1..Len(log) : i < j => Before(log[i], log[j])
    /\ \A i \in 1..Len(log) : Snap(log[i]) <= header
    /\ DeltaAlwaysHasBase

\* The log, in its files, and the writer.
LogUpright ==
    /\ Placed /\ Ascending /\ Sorted /\ Based
    /\ LogNamed /\ Kinds

\* While a purge runs, the log may be of bytes that are cut off already, and the
\* index too, until it is written anew; what is kept never is.
Upright ==
    Healthy =>
        /\ IF tool_pc = "none" THEN LogUpright ELSE LogApart
        /\ Apart(index)
        /\ Apart(kept)
        /\ IndexHeld(kept)
        /\ tool_pc \in {"none", "write_log"} => IndexHeld(index)

\* The inductive invariant, together with IInv and Anchored.
Orderly ==
    /\ Known /\ IndexKnown(index) /\ IndexKnown(kept)
    /\ AtRest /\ Named /\ Upright

-----------------------------------------------------------------------------
(* What the writer keeps of it, step by step.                              *)

LEMMA AtRestStep == CallOpen /\ AtRest /\ [Next]_vars => AtRest'
<1> SUFFICES ASSUME CallOpen, AtRest, [Next]_vars PROVE AtRest'
  OBVIOUS
<1> USE DEF diskVars, configVars, handleVars, groupVars, callVars, resultVars, countVars
<1>1. ASSUME NEW n \in WorkerCounts, NEW t \in DeltaThresholds, NEW sh \in ShadowModes,
             Open(n, t, sh)
      PROVE  AtRest'
  BY <1>1 DEF Open, AtRest
<1>2. ASSUME NEW s \in Snapshots, SaveBadLength(s) \/ SaveNothing(s) PROVE AtRest'
  BY <1>2 DEF SaveBadLength, SaveNothing, AtRest
<1>3. ASSUME NEW s \in Snapshots, NEW mem, NEW first, BeginSave(s, mem, first)
      PROVE  AtRest'
  BY <1>3 DEF BeginSave, AtRest
<1>4. ASSUME NEW g \in Groups, NEW pa \in Pas, EmitZero(g, pa) \/ LockBlob(g, pa)
      PROVE  AtRest'
  BY <1>4 DEF EmitZero, LockBlob, Turns, AtRest
<1>5. ASSUME NEW g \in Groups, NEW spill \in SpillChoices, EmitDelta(g, spill) \/ EmitFull(g, spill)
      PROVE  AtRest'
  <2>1. pc = "pass" /\ pc' = "pass" /\ isOpen' = isOpen
    BY <1>5 DEF EmitDelta, EmitFull
  <2> QED
    BY <2>1 DEF AtRest, CallOpen
<1>6. ASSUME PassDone \/ SeekHeader \/ (\E spill \in SpillChoices : WriteRecord(spill))
      PROVE  AtRest'
  BY <1>6 DEF PassDone, SeekHeader, WriteRecord, AtRest
<1>7. ASSUME PassFail \/ WriteFail \/ UpdateHeader PROVE AtRest'
  BY <1>7 DEF PassFail, WriteFail, UpdateHeader, Return, EndCall, AtRest
<1>8. ASSUME BeginFlush \/ FlushBlob \/ EndFlush PROVE AtRest'
  BY <1>8 DEF BeginFlush, FlushBlob, EndFlush, Flushed, AtRest
<1>9. ASSUME Close \/ Crash PROVE AtRest'
  BY <1>9 DEF Close, Flushed, Crash, Dropped, EndCall, AtRest, EmptyShadow
<1>10. ASSUME NEW g \in Groups, AppendFail(g) PROVE AtRest'
  BY <1>10 DEF AppendFail, GiveUp, AtRest
<1>11. ASSUME UNCHANGED vars PROVE AtRest'
  BY <1>11 DEF vars, AtRest
<1>12. ASSUME Call PROVE AtRest'
  BY <1>1, <1>2, <1>3, <1>8, <1>12 DEF Call, BeginSaveAll, BeginSaveBitmap
<1>13. ASSUME Step PROVE AtRest'
  BY <1>4, <1>5, <1>6, <1>7, <1>8, <1>9, <1>13 DEF Step
<1> QED
  BY <1>7, <1>9, <1>10, <1>11, <1>12, <1>13 DEF Next, Fault

\* Steps that leave the log alone and accept no snapshot.
LEMMA KnownFrame ==
    ASSUME Known, UNCHANGED log, Saving' => Saving /\ UNCHANGED snapshot_id
    PROVE  Known'
  BY BeforeStable DEF Known

LEMMA KnownStep == TypeOK /\ Slotted /\ Known /\ [Next]_vars => Known'
<1> SUFFICES ASSUME TypeOK, Slotted, Known, [Next]_vars PROVE Known'
  OBVIOUS
<1> USE DEF diskVars, configVars, handleVars, groupVars, callVars, resultVars, countVars
<1>1. ASSUME NEW n \in WorkerCounts, NEW t \in DeltaThresholds, NEW sh \in ShadowModes,
             Open(n, t, sh)
      PROVE  Known'
  BY <1>1, KnownFrame DEF Open, Saving
<1>2. ASSUME NEW s \in Snapshots, SaveBadLength(s) \/ SaveNothing(s) PROVE Known'
  BY <1>2, KnownFrame DEF SaveBadLength, SaveNothing, Saving
<1>3. ASSUME NEW s \in Snapshots, NEW mem, NEW first, BeginSave(s, mem, first)
      PROVE  Known'
  BY <1>3, BeforeStable DEF BeginSave, Known
<1>4. ASSUME NEW g \in Groups, NEW pa \in Pas, EmitZero(g, pa) \/ LockBlob(g, pa)
      PROVE  Known'
  BY <1>4, KnownFrame DEF EmitZero, LockBlob, Saving
<1>5. ASSUME NEW g \in Groups, NEW spill \in SpillChoices, EmitDelta(g, spill) \/ EmitFull(g, spill)
      PROVE  Known'
  BY <1>5, KnownFrame DEF EmitDelta, EmitFull, Saving
<1>6. ASSUME PassDone \/ SeekHeader PROVE Known'
  BY <1>6, KnownFrame DEF PassDone, SeekHeader, Saving
<1>7. ASSUME PassFail \/ WriteFail \/ UpdateHeader PROVE Known'
  BY <1>7, KnownFrame DEF PassFail, WriteFail, UpdateHeader, Return, Saving
<1>8. ASSUME BeginFlush \/ FlushBlob \/ EndFlush \/ Close PROVE Known'
  BY <1>8, KnownFrame DEF BeginFlush, FlushBlob, EndFlush, Close, Flushed, Saving
<1>9. ASSUME NEW spill \in SpillChoices, WriteRecord(spill) PROVE Known'
  <2>1. /\ pc = "write" /\ pc' = "write" /\ next < total_dirty
        /\ log' = Append(log, records_buf[next]) /\ snapshot_id' = snapshot_id
    BY <1>9 DEF WriteRecord
  <2>2. next \in Nat /\ log \in Seq(Slot) /\ records_buf \in [Pas -> Slot]
    BY DEF TypeOK
  <2>3. next \in 0..(total_dirty - 1) /\ next \in Pas
    <3>1. DOMAIN memory \in SUBSET Pas
      BY DEF TypeOK
    <3>2. total_dirty \in Nat
      BY <3>1, BelowFinite DEF total_dirty
    <3> QED
      BY <1>9, <2>1, <2>2, <3>2, NextSlot
  <2>4. Snap(records_buf[next]) = snapshot_id /\ snapshot_id \in Snapshots
    BY <2>1, <2>3, SlottedImplies DEF SlotsWritten, Snap, Known, Saving
  <2>5. \A i \in 1..Len(log') : Snap(log'[i]) \in Snapshots
    BY <2>1, <2>2, <2>3, <2>4 DEF Known
  <2> QED
    BY <2>1, <2>4, <2>5, BeforeStable DEF Known
<1>10. ASSUME Crash PROVE Known'
  <2>1. log' = SubSeq(log, 1, logOnDisk) /\ pc' = "idle"
    BY <1>10 DEF Crash
  <2>2. log \in Seq(Slot) /\ logOnDisk \in 0..Len(log)
    BY DEF TypeOK
  <2>3. \A i \in 1..Len(log') : log'[i] = log[i] /\ i \in 1..Len(log)
    BY <2>1, <2>2
  <2> QED
    BY <2>1, <2>3, BeforeStable DEF Known, Saving
<1>11. ASSUME NEW g \in Groups, AppendFail(g) PROVE Known'
  BY <1>11, KnownFrame DEF AppendFail, GiveUp, Saving
<1>12. ASSUME UNCHANGED vars PROVE Known'
  BY <1>12, KnownFrame DEF vars, Saving
<1>13. ASSUME Call PROVE Known'
  BY <1>1, <1>2, <1>3, <1>8, <1>13 DEF Call, BeginSaveAll, BeginSaveBitmap
<1>14. ASSUME Step PROVE Known'
  BY <1>4, <1>5, <1>6, <1>7, <1>8, <1>9, <1>14 DEF Step
<1> QED
  BY <1>7, <1>10, <1>11, <1>12, <1>13, <1>14 DEF Next, Fault

LEMMA NamedStep ==
    ASSUME TypeOK, TypeOK', CallOpen, AtRest, Named, Writer
    PROVE  Named' /\ (LogNamed => LogNamed')
<1> USE DEF diskVars, configVars, handleVars, groupVars, callVars, resultVars, countVars
<1>1. /\ Next /\ blob_files \subseteq blob_files'
      /\ isOpen' => 0..(blob_count' - 1) \subseteq blob_files'
  BY DEF Writer
<1>2. /\ blob_count \in 1..MaxWorkers /\ blob_count' \in 1..MaxWorkers /\ MaxWorkers \in Nat
      /\ records_buf \in [Pas -> Slot] /\ log \in Seq(Slot) /\ Len(log) \in Nat
  BY Constants, FileTypes DEF TypeOK
<1>3. Uninit.worker_id = 0
  BY DEF Uninit
<1> DEFINE Buf == \A k \in Pas : records_buf'[k].worker_id < blob_count'
<1>4. ASSUME UNCHANGED <<records_buf, blob_count>> PROVE Buf
  BY <1>4 DEF Named
<1>5. ASSUME \A k \in Pas : records_buf'[k] = Uninit PROVE Buf
  BY <1>2, <1>3, <1>5
<1>6. ASSUME NEW g \in Groups, NEW pa, NEW rec, EmitRecord(g, pa, rec), rec.worker_id < blob_count,
             UNCHANGED blob_count
      PROVE  Buf
  <2>1. \A k \in Pas : records_buf'[k] = records_buf[k] \/ records_buf'[k] = rec
    BY <1>2, <1>6 DEF EmitRecord
  <2> QED
    BY <1>6, <2>1 DEF Named
<1>7. Buf
  <2>1. CASE \E n \in WorkerCounts, t \in DeltaThresholds, sh \in ShadowModes : Open(n, t, sh)
    <3>1. ~isOpen /\ UNCHANGED records_buf
      BY <2>1 DEF Open
    <3> QED
      BY <1>5, <3>1 DEF CallOpen, AtRest
  <2>2. CASE \/ \E s \in Snapshots : SaveBadLength(s) \/ SaveNothing(s)
             \/ \E s \in Snapshots : \E mem, first : BeginSave(s, mem, first)
             \/ BeginFlush
    BY <1>4, <2>2 DEF SaveBadLength, SaveNothing, BeginSave, BeginFlush
  <2>3. ASSUME NEW g \in Groups, NEW pa \in Pas, EmitZero(g, pa) PROVE Buf
    <3>1. EmitRecord(g, pa, new_zero(encode_key(pa, snapshot_id))) /\ UNCHANGED blob_count
      BY <2>3 DEF EmitZero
    <3>2. new_zero(encode_key(pa, snapshot_id)).worker_id = 0
      BY DEF new_zero
    <3> QED
      BY <1>2, <1>6, <3>1, <3>2
  <2>4. ASSUME NEW g \in Groups, NEW spill, EmitDelta(g, spill) \/ EmitFull(g, spill) PROVE Buf
    <3>1. cur[g] # None /\ UNCHANGED blob_count
      BY <2>4 DEF EmitDelta, EmitFull
    <3>2. wid(cur[g]) < blob_count
      BY <1>2, <3>1, CurrentPage, WorkerOf
    <3>3. \E rec : EmitRecord(g, cur[g], rec) /\ rec.worker_id = wid(cur[g])
      BY <2>4 DEF EmitDelta, EmitFull, new_delta, new_full
    <3> QED
      BY <1>6, <3>1, <3>2, <3>3
  <2>5. CASE \/ \E g \in Groups : AppendFail(g) \/ \E pa \in Pas : LockBlob(g, pa)
             \/ PassDone \/ SeekHeader \/ FlushBlob \/ EndFlush
             \/ \E spill \in SpillChoices : WriteRecord(spill)
    BY <1>4, <2>5 DEF AppendFail, GiveUp, LockBlob, PassDone, SeekHeader, FlushBlob, EndFlush, WriteRecord
  <2>6. CASE PassFail \/ UpdateHeader \/ WriteFail \/ Crash
    BY <1>5, <2>6 DEF PassFail, UpdateHeader, WriteFail, Crash, Return, EndCall
  <2>7. CASE Close
    <3>1. pc = "flush" /\ UNCHANGED records_buf
      BY <2>7 DEF Close, Flushed
    <3> QED
      BY <1>5, <3>1 DEF AtRest
  <2> HIDE DEF Buf
  <2>8. CASE Call
    BY <2>1, <2>2, <2>8 DEF Call, BeginSaveAll, BeginSaveBitmap
  <2>9. CASE Step
    BY <2>3, <2>4, <2>5, <2>6, <2>7, <2>9 DEF Step
  <2> QED
    BY <1>1, <2>5, <2>6, <2>8, <2>9 DEF Next, Fault
<1>8. ASSUME LogNamed PROVE LogNamed'
  <2>1. \/ log' = log
        \/ pc = "write" /\ next \in Pas /\ log' = Append(log, records_buf[next])
        \/ log' = SubSeq(log, 1, logOnDisk)
    <3>1. CASE Call
      BY <3>1 DEF Call, Open, SaveBadLength, SaveNothing, BeginSaveAll, BeginSaveBitmap, BeginSave,
                  BeginFlush
    <3>2. CASE Step
      <4>1. ASSUME NEW g \in Groups, NEW spill, EmitDelta(g, spill) \/ EmitFull(g, spill)
            PROVE  log' = log
        BY <4>1 DEF EmitDelta, EmitFull
      <4>2. ASSUME NEW spill, WriteRecord(spill)
            PROVE  pc = "write" /\ next \in Pas /\ log' = Append(log, records_buf[next])
        BY <4>2, NextSlot DEF WriteRecord
      <4> QED
        BY <3>2, <4>1, <4>2
        DEF Step, EmitZero, LockBlob, PassDone, PassFail, SeekHeader, UpdateHeader, FlushBlob,
            EndFlush, Close
    <3>3. CASE Fault
      BY <3>3 DEF Fault, AppendFail, GiveUp, WriteFail, Crash
    <3> QED
      BY <1>1, <3>1, <3>2, <3>3 DEF Next
  <2>2. CASE log' = log
    BY <1>1, <1>8, <2>2 DEF LogNamed
  <2>3. CASE pc = "write" /\ next \in Pas /\ log' = Append(log, records_buf[next])
    <3>1. isOpen /\ records_buf[next].worker_id < blob_count
      BY <2>3 DEF CallOpen, Named
    <3>2. records_buf[next].worker_id \in Nat
      BY <1>2, <2>3 DEF Slot
    <3>3. records_buf[next].worker_id \in blob_files
      BY <1>2, <3>1, <3>2 DEF Named
    <3>4. \A i \in 1..Len(log') : \/ i \in 1..Len(log) /\ log'[i] = log[i]
                                  \/ log'[i] = records_buf[next]
      BY <1>2, <2>3
    <3> QED
      BY <1>1, <1>8, <3>3, <3>4 DEF LogNamed
  <2>4. CASE log' = SubSeq(log, 1, logOnDisk)
    <3>1. logOnDisk \in Nat /\ logOnDisk <= Len(log)
      BY FileTypes
    <3>2. \A i \in 1..Len(log') : i \in 1..Len(log) /\ log'[i] = log[i]
      BY <1>2, <2>4, <3>1
    <3> QED
      BY <1>1, <1>8, <3>2 DEF LogNamed
  <2> QED
    BY <2>1, <2>2, <2>3, <2>4
<1> QED
  BY <1>1, <1>7, <1>8 DEF Named

\* Without a crash, worker files only grow.
Grown ==
    \A w \in Workers : /\ Len(blobs[w]) <= Len(blobs'[w])
                       /\ \A j \in 1..Len(blobs[w]) : blobs'[w][j] = blobs[w][j]

LEMMA GrownSame == ASSUME TypeOK, UNCHANGED blobs PROVE Grown
  BY FileTypes DEF Grown

LEMMA GrownAppend ==
    ASSUME TypeOK, NEW g, NEW w \in Workers, NEW blob \in Blob, NEW spill,
           append_blob(g, w, blob, spill)
    PROVE  Grown
<1>1. /\ \A v \in Workers : v # w => blobs'[v] = blobs[v]
      /\ blobs'[w] = blobs[w] \/ blobs'[w] = Append(blobs[w], blob)
  BY DEF append_blob, TypeOK
<1>2. \A v \in Workers : blobs[v] \in Seq(Blob) /\ Len(blobs[v]) \in Nat
  BY FileTypes
<1>3. /\ Len(Append(blobs[w], blob)) = Len(blobs[w]) + 1
      /\ \A j \in 1..Len(blobs[w]) : Append(blobs[w], blob)[j] = blobs[w][j]
  BY <1>2
<1>4. /\ Len(blobs[w]) <= Len(blobs'[w])
      /\ \A j \in 1..Len(blobs[w]) : blobs'[w][j] = blobs[w][j]
  BY <1>1, <1>2, <1>3
<1>5. \A v \in Workers : v # w => Len(blobs[v]) <= Len(blobs'[v]) /\ blobs'[v] = blobs[v]
  BY <1>1, <1>2
<1> QED
  BY <1>4, <1>5 DEF Grown

LEMMA GrownStep == ASSUME TypeOK, [Next]_vars, crashes' = crashes PROVE Grown
<1> USE DEF diskVars, configVars, handleVars, groupVars, callVars, resultVars, countVars
<1>1. ASSUME NEW g \in Groups, NEW spill, EmitDelta(g, spill) \/ EmitFull(g, spill) PROVE Grown
  BY <1>1, Appends, GrownAppend
<1>2. ASSUME UNCHANGED blobs PROVE Grown
  BY <1>2, GrownSame
<1>3. CASE Call
  BY <1>2, <1>3 DEF Call, Open, SaveBadLength, SaveNothing, BeginSaveAll, BeginSaveBitmap, BeginSave,
                    BeginFlush
<1>4. CASE Step
  BY <1>1, <1>2, <1>4
  DEF Step, EmitZero, LockBlob, PassDone, PassFail, WriteRecord, SeekHeader, UpdateHeader, FlushBlob,
      EndFlush, Close
<1>5. CASE Fault
  <2>1. ~Crash
    <3>1. crashes \in Nat
      BY DEF TypeOK
    <3> QED
      BY <3>1 DEF Crash
  <2> QED
    BY <1>2, <1>5, <2>1 DEF Fault, AppendFail, GiveUp, WriteFail
<1> QED
  BY <1>2, <1>3, <1>4, <1>5 DEF Next, vars

\* What is in a file that grows stays there.
LEMMA StaysInGrown ==
    ASSUME TypeOK, TypeOK', Grown, NEW rec \in Slot, Within(rec)
    PROVE  /\ rec.worker_id \in Workers
           /\ rec.offset + rec.len <= Len(blobs'[rec.worker_id])
           /\ OfKind(blobs, rec) => OfKind(blobs', rec)
<1>1. /\ rec.worker_id \in Workers /\ rec.offset \in Nat /\ rec.len \in 0..1
      /\ rec.offset + rec.len <= Len(blobs[rec.worker_id])
  BY DEF Within, Slot
<1>2. Len(blobs[rec.worker_id]) \in Nat /\ Len(blobs'[rec.worker_id]) \in Nat
  <2>1. blobs[rec.worker_id] \in Seq(Blob) /\ blobs'[rec.worker_id] \in Seq(Blob)
    BY <1>1 DEF TypeOK
  <2> QED
    BY <2>1, LenProperties
<1>3. /\ Len(blobs[rec.worker_id]) <= Len(blobs'[rec.worker_id])
      /\ \A j \in 1..Len(blobs[rec.worker_id]) : blobs'[rec.worker_id][j] = blobs[rec.worker_id][j]
  BY <1>1 DEF Grown
<1>4. rec.offset + rec.len <= Len(blobs'[rec.worker_id])
  BY <1>1, <1>2, <1>3
<1>5. rec.len = 1 => rec.offset + 1 \in 1..Len(blobs[rec.worker_id])
  BY <1>1, <1>2
<1>6. OfKind(blobs, rec) => OfKind(blobs', rec)
  BY <1>3, <1>5 DEF OfKind
<1> QED
  BY <1>1, <1>4, <1>6

LEMMA KindsEmit ==
    ASSUME TypeOK, TypeOK', Placed, crashes = 0, Grown, Kinds,
           NEW g \in Groups, NEW pa, NEW rec, EmitRecord(g, pa, rec), OfKind(blobs', rec),
           UNCHANGED log
    PROVE  Kinds'
<1>1. /\ \A i \in 1..Len(log) : log[i] \in Slot /\ Within(log[i])
      /\ \A k \in Pas : records_buf[k] \in Slot /\ Within(records_buf[k])
  BY LogSlots DEF Placed, Located, RecordsWithin, TypeOK
<1>2. \A k \in Pas : records_buf'[k] = records_buf[k] \/ records_buf'[k] = rec
  BY DEF EmitRecord, TypeOK
<1>3. \A k \in Pas : OfKind(blobs', records_buf'[k])
  BY <1>1, <1>2, StaysInGrown DEF Kinds
<1>4. \A i \in 1..Len(log') : OfKind(blobs', log'[i])
  BY <1>1, StaysInGrown DEF Kinds
<1> QED
  BY <1>3, <1>4 DEF Kinds

LEMMA KindsStep ==
    ASSUME TypeOK, TypeOK', Placed, Kinds, crashes = 0, crashes' = 0, [Next]_vars
    PROVE  Kinds'
<1> USE DEF diskVars, configVars, handleVars, groupVars, callVars, resultVars, countVars
<1>1. Grown
  BY GrownStep
<1>2. ASSUME UNCHANGED <<log, blobs>>, \A k \in Pas : records_buf'[k] \in {records_buf[k], Uninit}
      PROVE  Kinds'
  <2>1. OfKind(blobs', Uninit)
    BY DEF OfKind, Uninit
  <2>2. \A k \in Pas : OfKind(blobs', records_buf'[k])
    BY <1>2, <2>1 DEF Kinds
  <2> QED
    BY <1>2, <2>2 DEF Kinds
<1>3. CASE Call
  BY <1>2, <1>3 DEF Call, Open, SaveBadLength, SaveNothing, BeginSaveAll, BeginSaveBitmap, BeginSave,
                    BeginFlush
<1>4. ASSUME NEW g \in Groups, NEW pa \in Pas, EmitZero(g, pa) PROVE Kinds'
  <2>1. EmitRecord(g, pa, new_zero(encode_key(pa, snapshot_id))) /\ UNCHANGED log
    BY <1>4 DEF EmitZero
  <2>2. OfKind(blobs', new_zero(encode_key(pa, snapshot_id)))
    BY DEF OfKind, new_zero
  <2> QED
    BY <1>1, <2>1, <2>2, KindsEmit
<1>5. ASSUME NEW g \in Groups, NEW spill, EmitDelta(g, spill) \/ EmitFull(g, spill) PROVE Kinds'
  <2> DEFINE w == wid(cur[g])
  <2>1. cur[g] # None /\ pc = "pass" /\ UNCHANGED log
    BY <1>5 DEF EmitDelta, EmitFull
  <2>2. w \in Workers /\ w < blob_count /\ isOpen
    BY <2>1, CurrentPage, WorkerOf DEF Placed, CallOpen, TypeOK
  <2>3. at[g] = Len(blobs[w])
    BY <2>1, <2>2 DEF Placed, OffsetAtEnd, AppendAlone
  <2>4. PICK blob, rec : /\ append_blob(g, w, blob, spill) /\ EmitRecord(g, cur[g], rec)
                         /\ rec.kind = blob.kind /\ rec.kind # "Zero"
                         /\ rec.worker_id = w /\ rec.offset = at[g] /\ rec.len = blob_len(blob)
    BY <1>5 DEF EmitDelta, EmitFull, new_delta, new_full
  <2>5. blobs[w] \in Seq(Blob)
    BY <2>2, FileTypes
  <2>6. ASSUME rec.len = 1 PROVE blobs'[w][at[g] + 1].kind = rec.kind
    <3>1. blobs'[w] = Append(blobs[w], blob)
      BY <2>2, <2>4, <2>6 DEF append_blob, TypeOK
    <3>2. Append(blobs[w], blob)[Len(blobs[w]) + 1] = blob
      BY <2>5
    <3> QED
      BY <2>3, <2>4, <3>1, <3>2
  <2>7. OfKind(blobs', rec)
    BY <2>4, <2>6 DEF OfKind
  <2> QED
    BY <1>1, <2>1, <2>4, <2>7, KindsEmit
<1>6. ASSUME NEW spill, WriteRecord(spill) PROVE Kinds'
  <2>1. next \in Pas /\ log' = Append(log, records_buf[next]) /\ UNCHANGED <<blobs, records_buf>>
    BY <1>6, NextSlot DEF WriteRecord
  <2>2. log \in Seq(Slot) /\ records_buf \in [Pas -> Slot]
    BY DEF TypeOK
  <2>3. \A i \in 1..Len(log') : \/ i \in 1..Len(log) /\ log'[i] = log[i]
                                \/ log'[i] = records_buf[next]
    BY <2>1, <2>2
  <2> QED
    BY <2>1, <2>3 DEF Kinds
<1>7. ASSUME \/ \E g \in Groups : AppendFail(g) \/ \E pa \in Pas : LockBlob(g, pa)
             \/ PassDone \/ SeekHeader \/ FlushBlob \/ EndFlush \/ Close
      PROVE  Kinds'
  <2>1. UNCHANGED <<log, blobs, records_buf>>
    BY <1>7 DEF AppendFail, GiveUp, LockBlob, PassDone, SeekHeader, FlushBlob, EndFlush, Close
  <2> QED
    BY <1>2, <2>1
<1>8. ASSUME PassFail \/ UpdateHeader \/ WriteFail PROVE Kinds'
  <2>1. UNCHANGED <<log, blobs>> /\ \A k \in Pas : records_buf'[k] = Uninit
    BY <1>8 DEF PassFail, UpdateHeader, WriteFail, Return, EndCall
  <2> QED
    BY <1>2, <2>1
<1>9. ~Crash
  BY DEF Crash
<1>10. CASE Step
  BY <1>4, <1>5, <1>6, <1>7, <1>8, <1>10 DEF Step
<1>11. CASE UNCHANGED vars
  <2>1. UNCHANGED <<log, blobs, records_buf>>
    BY <1>11 DEF vars
  <2> QED
    BY <1>2, <2>1
<1> QED
  BY <1>3, <1>7, <1>8, <1>9, <1>10, <1>11 DEF Next, Fault

\* A file that is there, with all its bytes, for the records of an index.
LEMMA HeldGrows ==
    ASSUME TypeOK, TypeOK', Grown, blob_files \subseteq blob_files',
           NEW idx, WellKeyed(idx), IndexHeld(idx)
    PROVE  IndexHeld(idx)'
<1>1. \A k \in DOMAIN idx : idx[k] \in Slot
  BY DEF WellKeyed, Sound
<1>2. \A k \in DOMAIN idx :
         /\ Within(idx[k]) /\ idx[k].worker_id \in blob_files' /\ OfKind(blobs, idx[k])
  BY DEF IndexHeld, Held
<1>3. \A k \in DOMAIN idx :
         /\ idx[k].worker_id \in Workers
         /\ idx[k].offset + idx[k].len <= Len(blobs'[idx[k].worker_id])
         /\ OfKind(blobs', idx[k])
  BY <1>1, <1>2, StaysInGrown
<1> QED
  BY <1>2, <1>3 DEF IndexHeld, Held, Within, OfKind

LEMMA CountsStep ==
    TypeOK /\ [Next]_vars => (crashes' = 0 => crashes = 0) /\ (ioErrors' = 0 => ioErrors = 0)
<1> SUFFICES ASSUME TypeOK, [Next]_vars
             PROVE  (crashes' = 0 => crashes = 0) /\ (ioErrors' = 0 => ioErrors = 0)
  OBVIOUS
<1> USE DEF diskVars, configVars, handleVars, groupVars, callVars, resultVars, countVars
<1>1. crashes \in Nat /\ ioErrors \in Nat
  BY DEF TypeOK
<1>2. CASE Call
  BY <1>2 DEF Call, Open, SaveBadLength, SaveNothing, BeginSaveAll, BeginSaveBitmap, BeginSave,
              BeginFlush
<1>3. CASE Step
  BY <1>3 DEF Step, EmitZero, LockBlob, EmitDelta, EmitFull, PassDone, PassFail, WriteRecord, SeekHeader,
              UpdateHeader, FlushBlob, EndFlush, Close
<1>4. ASSUME NEW g, AppendFail(g)
      PROVE  (crashes' = 0 => crashes = 0) /\ (ioErrors' = 0 => ioErrors = 0)
  BY <1>1, <1>4 DEF AppendFail, GiveUp
<1>5. CASE WriteFail
  BY <1>1, <1>5 DEF WriteFail
<1>6. CASE Crash
  BY <1>1, <1>6 DEF Crash
<1> QED
  BY <1>2, <1>3, <1>4, <1>5, <1>6 DEF Next, Fault, vars

LEMMA ApartStable ==
    \A idx : (Apart(idx)' <=> Apart(idx)) /\ (IndexKnown(idx)' <=> IndexKnown(idx))
  BY DEF Apart, IndexKnown, Disjoint, InOrder, pa_of, snapshot_of

LEMMA OrderlyWriter ==
    ASSUME IInv, IInv', Orderly, Writer
    PROVE  Orderly'
<1>1. /\ Next /\ tool_pc = "none" /\ tool_pc' = "none"
      /\ index' = index /\ kept' = kept /\ tool_crashes' = tool_crashes
      /\ blob_files \subseteq blob_files'
  BY DEF Writer, purgeVars
<1>2. /\ TypeOK /\ TypeOK' /\ Slotted /\ CallOpen
      /\ WellKeyed(index) /\ WellKeyed(kept)
  BY DEF IInv, Tooled, LogMade, AllSound
<1>3. Known' /\ IndexKnown(index)' /\ IndexKnown(kept)' /\ AtRest' /\ Named'
  <2>1. Known' /\ AtRest'
    BY <1>1, <1>2, KnownStep, AtRestStep DEF Orderly
  <2>2. Named'
    BY <1>2, NamedStep DEF Orderly
  <2> QED
    BY <1>1, <2>1, <2>2 DEF Orderly, IndexKnown, snapshot_of
<1>4. ASSUME Healthy' PROVE Upright'
  <2>1. Healthy /\ crashes = 0 /\ crashes' = 0
    BY <1>1, <1>2, <1>4, CountsStep DEF Healthy
  <2>2. /\ LogUpright /\ Apart(index) /\ Apart(kept) /\ IndexHeld(index) /\ IndexHeld(kept)
    BY <1>1, <2>1 DEF Orderly, Upright
  <2>3. Placed' /\ Ascending' /\ Sorted' /\ Based'
    BY <1>1, <1>2, <2>2, PlacedStep, AscendingStep, SortedStep, BasedStep DEF LogUpright
  <2>4. LogNamed'
    BY <1>2, <2>2, NamedStep DEF LogUpright, Orderly
  <2>5. Kinds'
    BY <1>1, <1>2, <2>1, <2>2, KindsStep DEF LogUpright
  <2>6. Apart(index') /\ Apart(kept')
    BY <1>1, <2>2
  <2>7. IndexHeld(index)' /\ IndexHeld(kept)'
    <3>1. Grown
      BY <1>1, <1>2, <2>1, GrownStep
    <3>2. \A idx : (WellKeyed(idx) /\ IndexHeld(idx)) => IndexHeld(idx)'
      BY <1>1, <1>2, <3>1, HeldGrows
    <3> QED
      BY <1>1, <1>2, <2>2, <3>2 DEF IndexHeld, Held, Within, OfKind
  <2>8. LogUpright'
    BY <2>3, <2>4, <2>5 DEF LogUpright
  <2>9. Apart(index)' /\ Apart(kept)'
    BY <1>1, <2>2, ApartStable DEF Apart
  <2> QED
    BY <1>1, <2>7, <2>8, <2>9 DEF Upright
<1>5. Upright'
  BY <1>4 DEF Upright
<1> QED
  BY <1>3, <1>5 DEF Orderly

LEMMA OrderlyInit == InitMaintenance => Orderly
<1> SUFFICES ASSUME InitMaintenance PROVE Orderly
  OBVIOUS
<1>1. /\ Init /\ index = EmptyIndex /\ kept = EmptyIndex /\ tool_pc = "none"
  BY DEF InitMaintenance
<1>2. /\ log = <<>> /\ Len(log) = 0 /\ pc = "idle" /\ ~isOpen /\ blob_count = 1 /\ ~failed
      /\ snapshot_id = 0 /\ next = 0 /\ shadow = EmptyShadow
      /\ \A k \in Pas : records_buf[k] = Uninit
  BY <1>1 DEF Init, NoCall
<1>3. Known /\ AtRest
  BY <1>2 DEF Known, AtRest, Saving
<1>4. Named /\ LogNamed /\ Kinds
  BY <1>2 DEF Named, LogNamed, Kinds, OfKind, Uninit
<1>5. IndexKnown(EmptyIndex) /\ Apart(EmptyIndex) /\ IndexHeld(EmptyIndex)
  BY EmptyKeyed DEF IndexKnown, Apart, IndexHeld
<1>6. LogUpright
  BY <1>1, <1>4, PlacedInit, AscendingInit, SortedInit, BasedInit DEF LogUpright
<1> QED
  BY <1>1, <1>3, <1>4, <1>5, <1>6 DEF Orderly, Upright

\* The order of the keys of a snapshot is that of its pages.
LEMMA SavedPages ==
    ASSUME NEW j \in Nat, NEW k \in Nat, saved_before(j, k)
    PROVE  snapshot_of(j) < snapshot_of(k) \/ (snapshot_of(j) = snapshot_of(k) /\ pa_of(j) < pa_of(k))
  BY KeyOrder DEF saved_before

-----------------------------------------------------------------------------
(* What the tools make of it: the index of a log, the log of an index.     *)

\* A purge keeps a Delta with its base, as the base is of an earlier snapshot.
LEMMA KeptApart ==
    ASSUME NEW idx, WellKeyed(idx), NEW T \in Nat
    PROVE  /\ Apart(idx) => Apart(kept_of(idx, T))
           /\ IndexHeld(idx) => IndexHeld(kept_of(idx, T))
           /\ IndexKnown(idx) => IndexKnown(kept_of(idx, T))
<1> DEFINE K == kept_of(idx, T)
<1>1. /\ DOMAIN K = {k \in DOMAIN idx : snapshot_of(k) <= T}
      /\ \A k \in DOMAIN K : K[k] = idx[k]
  BY DEF kept_of
<1>2. \A k \in DOMAIN idx : idx[k] \in Slot /\ k \in Nat
  BY KeysNat DEF WellKeyed, Sound
<1> HIDE DEF K
<1>3. (IndexHeld(idx) => IndexHeld(K)) /\ (IndexKnown(idx) => IndexKnown(K))
  BY <1>1 DEF IndexHeld, IndexKnown
<1>4. ASSUME Apart(idx) PROVE Apart(K)
  <2>1. \A j, k \in DOMAIN K : (j # k => Disjoint(K[j], K[k])) /\ InOrder(K[j], K[k])
    BY <1>1, <1>4 DEF Apart
  <2>2. ASSUME NEW k \in DOMAIN K, K[k].kind = "Delta"
        PROVE  /\ K[k].base_key \in DOMAIN K
               /\ K[K[k].base_key].kind = "Full"
               /\ pa_of(K[k].base_key) = pa_of(k)
               /\ snapshot_of(K[k].base_key) < snapshot_of(k)
    <3> DEFINE base == idx[k].base_key
    <3>1. k \in DOMAIN idx /\ snapshot_of(k) <= T /\ K[k] = idx[k]
      BY <1>1
    <3>2. /\ base \in DOMAIN idx /\ idx[base].kind = "Full"
          /\ pa_of(base) = pa_of(k) /\ snapshot_of(base) < snapshot_of(k)
      BY <1>4, <2>2, <3>1 DEF Apart
    <3>3. snapshot_of(base) \in Nat /\ snapshot_of(k) \in Nat
      BY <1>2, <3>1, <3>2, SnapNat
    <3> HIDE DEF base
    <3>4. snapshot_of(base) <= T
      BY <3>1, <3>2, <3>3
    <3>5. base \in DOMAIN K /\ K[base] = idx[base]
      BY <1>1, <3>2, <3>4
    <3> QED
      BY <3>1, <3>2, <3>5 DEF base
  <2> QED
    BY <2>1, <2>2 DEF Apart
<1> QED
  BY <1>3, <1>4 DEF K

\* In a log in the order of the saves every key is of one record.
LEMMA KeysOfLog ==
    ASSUME TypeOK, LogApart
    PROVE  \A i, j \in 1..Len(log) : log[i].key = log[j].key => i = j
<1>1. \A i \in 1..Len(log) : log[i] \in Slot
  BY LogSlots
<1>2. \A i \in 1..Len(log) : Snap(log[i]) \in Nat /\ pa_of(log[i].key) \in Nat
  BY <1>1, SnapType, SnapNat DEF Slot
<1>3. Len(log) \in Nat
  BY FileTypes
<1>4. ASSUME NEW i \in 1..Len(log), NEW j \in 1..Len(log), i < j PROVE log[i].key # log[j].key
  <2>1. Before(log[i], log[j])
    BY <1>4 DEF LogApart
  <2> QED
    BY <1>2, <2>1 DEF Before, Snap
<1>5. \A i, j \in 1..Len(log) : i < j \/ j < i \/ i = j
  BY <1>3
<1> QED
  BY <1>4, <1>5

\* The index of a log in order.
LEMMA IndexApart ==
    ASSUME TypeOK, LogApart
    PROVE  Apart(build_lazy_index(log))
<1> DEFINE idx == build_lazy_index(log)
<1>1. log \in Seq(Slot) /\ Len(log) \in Nat /\ DOMAIN log = 1..Len(log)
  BY FileTypes
<1>2. ASSUME NEW k \in DOMAIN idx PROVE \E i \in 1..Len(log) : log[i].key = k /\ idx[k] = log[i]
  BY <1>1, IndexHolds
<1>3. ASSUME NEW i \in 1..Len(log) PROVE log[i].key \in DOMAIN idx /\ idx[log[i].key] = log[i]
  <2>1. log[i].key \in DOMAIN idx
    BY <1>1, IndexDomain
  <2>2. PICK j \in 1..Len(log) : log[j].key = log[i].key /\ idx[log[i].key] = log[j]
    BY <1>2, <2>1
  <2>3. i = j
    BY <2>2, KeysOfLog
  <2> QED
    BY <2>1, <2>2, <2>3
<1> HIDE DEF idx
<1>4. ASSUME NEW j \in DOMAIN idx, NEW k \in DOMAIN idx
      PROVE  (j # k => Disjoint(idx[j], idx[k])) /\ InOrder(idx[j], idx[k])
  <2>1. PICK a \in 1..Len(log) : log[a].key = j /\ idx[j] = log[a]
    BY <1>2
  <2>2. PICK c \in 1..Len(log) : log[c].key = k /\ idx[k] = log[c]
    BY <1>2
  <2> QED
    BY <2>1, <2>2 DEF LogApart, LogDisjoint
<1>5. ASSUME NEW k \in DOMAIN idx, idx[k].kind = "Delta"
      PROVE  /\ idx[k].base_key \in DOMAIN idx
             /\ idx[idx[k].base_key].kind = "Full"
             /\ pa_of(idx[k].base_key) = pa_of(k)
             /\ snapshot_of(idx[k].base_key) < snapshot_of(k)
  <2>1. PICK i \in 1..Len(log) : log[i].key = k /\ idx[k] = log[i]
    BY <1>2
  <2>2. PICK j \in 1..(i - 1) : /\ log[j].key = log[i].base_key
                                /\ log[j].kind = "Full"
                                /\ pa_of(log[j].key) = pa_of(log[i].key)
                                /\ snapshot_of(log[j].key) < snapshot_of(log[i].key)
    BY <1>5, <2>1 DEF LogApart, DeltaAlwaysHasBase, HasBase
  <2>3. j \in 1..Len(log)
    BY <1>1
  <2> QED
    BY <1>3, <2>1, <2>2, <2>3
<1> QED
  BY <1>4, <1>5 DEF Apart, idx

LEMMA IndexOfKnown == TypeOK /\ Known => IndexKnown(build_lazy_index(log))
<1> SUFFICES ASSUME TypeOK, Known, NEW k \in DOMAIN build_lazy_index(log)
             PROVE  snapshot_of(k) \in Snapshots
  BY DEF IndexKnown
<1>1. log \in Seq(Slot)
  BY FileTypes
<1> QED
  BY <1>1, IndexHolds DEF Known, Snap

\* All records of the log have their bytes.
LogHeld == \A i \in 1..Len(log) : Held(log[i])

LEMMA IndexOfHeld == TypeOK /\ LogHeld => IndexHeld(build_lazy_index(log))
<1> SUFFICES ASSUME TypeOK, LogHeld, NEW k \in DOMAIN build_lazy_index(log)
             PROVE  Held(build_lazy_index(log)[k])
  BY DEF IndexHeld
<1>1. log \in Seq(Slot)
  BY FileTypes
<1> QED
  BY <1>1, IndexHolds DEF LogHeld

\* The log of an index.
LEMMA LogOfApart ==
    ASSUME NEW idx, WellKeyed(idx), Apart(idx), NEW recs, recs = by_snapshot(idx)
    PROVE  /\ \A i, j \in 1..Len(recs) : i # j => Disjoint(recs[i], recs[j])
           /\ \A i, j \in 1..Len(recs) : InOrder(recs[i], recs[j])
           /\ \A i, j \in 1..Len(recs) : i < j => Before(recs[i], recs[j])
           /\ \A i \in 1..Len(recs) : Snap(recs[i]) <= max_snap(idx)
           /\ \A i \in 1..Len(recs) : recs[i].kind = "Delta" =>
                 \E j \in 1..(i - 1) :
                    /\ recs[j].key = recs[i].base_key
                    /\ recs[j].kind = "Full"
                    /\ pa_of(recs[j].key) = pa_of(recs[i].key)
                    /\ snapshot_of(recs[j].key) < snapshot_of(recs[i].key)
<1> DEFINE n == Len(recs)
<1>1. /\ n \in Nat
      /\ \A i \in 1..n : \E k \in DOMAIN idx : recs[i] = idx[k]
      /\ \A k \in DOMAIN idx : \E i \in 1..n : recs[i] = idx[k]
      /\ \A i, j \in 1..n : i < j => saved_before(recs[i].key, recs[j].key)
  <2> DEFINE m == Cardinality(DOMAIN idx)
  <2>1. /\ m \in Nat /\ Len(recs) = m
        /\ \A i \in 1..m : \E k \in DOMAIN idx : recs[i] = idx[k]
        /\ \A k \in DOMAIN idx : \E i \in 1..m : recs[i] = idx[k]
    BY LogHolds
  <2>2. \A i, j \in 1..m : i < j => saved_before(recs[i].key, recs[j].key)
    BY LogHolds
  <2> HIDE DEF m
  <2> QED
    BY <2>1, <2>2
<1>2. \A k \in DOMAIN idx : idx[k] \in Slot /\ idx[k].key = k /\ k \in Nat /\ snapshot_of(k) \in Nat
  BY KeysNat, SnapNat DEF WellKeyed, Sound
<1>3. \A i \in 1..n : recs[i].key \in DOMAIN idx /\ recs[i] = idx[recs[i].key]
  BY <1>1, <1>2
<1> HIDE DEF n
<1>4. \A i, j \in 1..n : i < j => Before(recs[i], recs[j])
  <2>1. ASSUME NEW i \in 1..n, NEW j \in 1..n, i < j PROVE Before(recs[i], recs[j])
    <3>1. saved_before(recs[i].key, recs[j].key)
      BY <1>1, <2>1
    <3>2. recs[i].key \in Nat /\ recs[j].key \in Nat
      BY <1>2, <1>3
    <3> QED
      BY <3>1, <3>2, SavedPages DEF Before, Snap, saved_before
  <2> QED
    BY <2>1
<1>5. \A i, j \in 1..n : i # j => recs[i].key # recs[j].key
  <2>1. ASSUME NEW i \in 1..n, NEW j \in 1..n, i < j PROVE recs[i].key # recs[j].key
    <3>1. saved_before(recs[i].key, recs[j].key)
      BY <1>1, <2>1
    <3>2. recs[i].key \in Nat /\ snapshot_of(recs[i].key) \in Nat
      BY <1>2, <1>3
    <3> QED
      BY <3>1, <3>2 DEF saved_before
  <2>2. \A i, j \in 1..n : i # j => i < j \/ j < i
    BY <1>1
  <2> QED
    BY <2>1, <2>2
<1>6. \A i, j \in 1..n : i # j => Disjoint(recs[i], recs[j])
  BY <1>3, <1>5 DEF Apart
<1>7. \A i, j \in 1..n : InOrder(recs[i], recs[j])
  BY <1>3 DEF Apart
<1>8. \A i \in 1..n : Snap(recs[i]) <= max_snap(idx)
  BY <1>3, MaxSnap DEF Snap
<1>9. ASSUME NEW i \in 1..n, recs[i].kind = "Delta"
      PROVE  \E j \in 1..(i - 1) : /\ recs[j].key = recs[i].base_key
                                   /\ recs[j].kind = "Full"
                                   /\ pa_of(recs[j].key) = pa_of(recs[i].key)
                                   /\ snapshot_of(recs[j].key) < snapshot_of(recs[i].key)
  <2> DEFINE k == recs[i].key
             base == recs[i].base_key
  <2>1. k \in DOMAIN idx /\ recs[i] = idx[k]
    BY <1>3
  <2>2. /\ base \in DOMAIN idx /\ idx[base].kind = "Full"
        /\ pa_of(base) = pa_of(k) /\ snapshot_of(base) < snapshot_of(k)
    BY <1>9, <2>1 DEF Apart
  <2>3. PICK j \in 1..n : recs[j] = idx[base]
    BY <1>1, <2>2
  <2>4. recs[j].key = base
    BY <1>2, <2>2, <2>3
  <2>5. snapshot_of(base) \in Nat /\ snapshot_of(k) \in Nat
    BY <1>2, <2>1, <2>2
  <2> HIDE DEF k, base
  <2>6. ~saved_before(k, base) /\ k # base
    BY <2>2, <2>5 DEF saved_before
  <2>7. ~(i < j) /\ i # j
    BY <1>1, <2>4, <2>6 DEF k
  <2>8. j \in 1..(i - 1)
    BY <1>1, <2>7
  <2> QED
    BY <2>2, <2>3, <2>4, <2>8 DEF k, base
<1> QED
  BY <1>4, <1>6, <1>7, <1>8, <1>9 DEF n

LEMMA LogOfHeld ==
    ASSUME NEW idx, WellKeyed(idx)
    PROVE  /\ IndexKnown(idx) =>
                 \A i \in 1..Len(by_snapshot(idx)) : Snap(by_snapshot(idx)[i]) \in Snapshots
           /\ IndexHeld(idx) => \A i \in 1..Len(by_snapshot(idx)) : Held(by_snapshot(idx)[i])
<1>1. \A i \in 1..Len(by_snapshot(idx)) : \E k \in DOMAIN idx : by_snapshot(idx)[i] = idx[k]
  BY LogHolds
<1>2. \A k \in DOMAIN idx : idx[k].key = k
  BY DEF WellKeyed
<1> QED
  BY <1>1, <1>2 DEF IndexKnown, IndexHeld, Snap

-----------------------------------------------------------------------------
(* The steps of the tools.                                                 *)

\* A database that is closed, with a log in order.
Rested == TypeOK /\ LogMade /\ AtRest /\ ~isOpen /\ LogApart /\ LogHeld

\* A writer may go on with it.
LEMMA Resting == Rested => LogUpright
<1> SUFFICES ASSUME Rested PROVE LogUpright
  OBVIOUS
<1> USE DEF Rested
<1>1. pc = "idle" /\ next = 0 /\ snapshot_id = 0 /\ ~failed /\ shadow = EmptyShadow
  BY DEF LogMade, CallOpen, AtRest, TypeOK
<1>2. \A k \in Pas : records_buf[k] = Uninit
  BY <1>1 DEF AtRest
<1>3. \A g \in Groups : cur[g] = None
  BY <1>1 DEF TypeOK
<1>4. Uninit.len = 0 /\ Uninit.offset = 0 /\ Uninit.worker_id = 0 /\ Uninit.kind = "Uninit"
      /\ Snap(Uninit) = 0
  BY UninitSnap DEF Uninit
<1>5. \A i \in 1..Len(log) : log[i] \in Slot /\ Snap(log[i]) \in Nat
  BY LogSlots, SnapType
<1>6. Located
  <2>1. 0 \in Workers /\ Len(blobs[0]) \in Nat
    <3>1. 0 \in Workers
      BY Constants DEF Workers
    <3> QED
      BY <3>1, FileTypes
  <2>2. RecordsWithin
    BY <1>2, <1>4, <2>1 DEF RecordsWithin, Within, LogHeld, Held
  <2>3. BufDisjoint /\ BufLogDisjoint
    BY <1>2, <1>4, EmptyDisjoint DEF BufDisjoint, BufLogDisjoint
  <2> QED
    BY <2>2, <2>3 DEF Located, LogApart
<1>7. Placed
  BY <1>1, <1>2, <1>3, <1>4, <1>6 DEF Placed, LogMade, OffsetAtEnd, AppendAlone, BufEmpty
<1>8. Ascending
  <2>1. Recent
    <3>1. header = None => Len(log) = 0
      BY DEF LogMade
    <3>2. \A i \in 1..Len(log) : Snap(log[i]) <= header
      BY DEF LogApart
    <3> QED
      BY <1>1, <1>2, <1>4, <3>1, <3>2 DEF Recent
  <2>2. Ordered
    BY <1>2, <1>4 DEF Ordered, LogApart, InOrder
  <2> QED
    BY <2>1, <2>2 DEF Ascending
<1>9. Sorted
  BY <1>1 DEF Sorted, LogApart
<1>10. Based
  <2>1. \A pa \in Pas : shadow[pa].key = None
    BY <1>1 DEF EmptyShadow, NoShadow
  <2>2. ShadowKept
    BY <2>1 DEF ShadowKept
  <2>3. PassBased /\ Progress
    BY <1>1 DEF PassBased, Progress, Saving
  <2> QED
    BY <1>1, <2>2, <2>3 DEF Based, Saving, LogApart
<1>11. LogNamed
  BY DEF LogNamed, LogHeld, Held
<1>12. Kinds
  BY <1>2, <1>4 DEF Kinds, LogHeld, Held, OfKind
<1> QED
  BY <1>7, <1>8, <1>9, <1>10, <1>11, <1>12 DEF LogUpright

LEMMA UprightRests == IInv /\ LogUpright /\ ~isOpen /\ Healthy => LogApart /\ LogHeld
<1> SUFFICES ASSUME IInv, LogUpright, ~isOpen, Healthy PROVE LogApart /\ LogHeld
  OBVIOUS
<1> USE DEF LogUpright, Healthy
<1>1. pc = "idle"
  BY DEF IInv, Tooled, LogMade, CallOpen
<1>2. RecordsWithin /\ LogDisjoint
  BY DEF Placed, Located
<1>3. Recent /\ Ordered
  BY DEF Ascending
<1>4. LogApart
  BY <1>1, <1>2, <1>3 DEF LogApart, Recent, Ordered, Sorted, Based
<1>5. LogHeld
  BY <1>2 DEF LogHeld, Held, RecordsWithin, LogNamed, Kinds
<1> QED
  BY <1>4, <1>5

\* A log written from an index or from what a purge keeps.
LEMMA WriteRested ==
    ASSUME IInv', AtRest', ~isOpen', UNCHANGED <<blobs, blob_files>>,
           NEW idx, WellKeyed(idx), Apart(idx), IndexHeld(idx), write_log_file(idx)
    PROVE  Rested'
<1> DEFINE recs == by_snapshot(idx)
<1>1. log' = recs /\ header' = max_snap(idx)
  BY DEF write_log_file
<1>2. \A i \in 1..Len(recs) : Held(recs[i])
  BY LogOfHeld
<1>3. LogHeld'
  BY <1>1, <1>2 DEF LogHeld, Held, Within, OfKind
<1>4. /\ \A i, j \in 1..Len(recs) : i # j => Disjoint(recs[i], recs[j])
      /\ \A i, j \in 1..Len(recs) : InOrder(recs[i], recs[j])
      /\ \A i, j \in 1..Len(recs) : i < j => Before(recs[i], recs[j])
      /\ \A i \in 1..Len(recs) : Snap(recs[i]) <= max_snap(idx)
      /\ \A i \in 1..Len(recs) : recs[i].kind = "Delta" =>
            \E j \in 1..(i - 1) :
               /\ recs[j].key = recs[i].base_key
               /\ recs[j].kind = "Full"
               /\ pa_of(recs[j].key) = pa_of(recs[i].key)
               /\ snapshot_of(recs[j].key) < snapshot_of(recs[i].key)
  BY LogOfApart
<1> HIDE DEF recs
<1>5. LogDisjoint'
  BY <1>1, <1>4 DEF LogDisjoint, Disjoint
<1>6. (\A i, j \in 1..Len(log) : InOrder(log[i], log[j]))'
  BY <1>1, <1>4 DEF InOrder, snapshot_of
<1>7. (\A i, j \in 1..Len(log) : i < j => Before(log[i], log[j]))'
  BY <1>1, <1>4 DEF Before, Snap, snapshot_of, pa_of
<1>8. (\A i \in 1..Len(log) : Snap(log[i]) <= header)'
  BY <1>1, <1>4 DEF Snap, snapshot_of
<1>9. DeltaAlwaysHasBase'
  BY <1>1, <1>4 DEF DeltaAlwaysHasBase, HasBase, snapshot_of, pa_of
<1>10. LogApart'
  BY <1>5, <1>6, <1>7, <1>8, <1>9 DEF LogApart
<1>11. TypeOK' /\ LogMade'
  BY DEF IInv, Tooled
<1> QED
  BY <1>3, <1>10, <1>11 DEF Rested

\* No log.
LEMMA NoLogRested ==
    ASSUME IInv', AtRest', ~isOpen', log' = <<>>
    PROVE  Rested'
<1>1. Len(log') = 0 /\ 1..Len(log') = {}
  OBVIOUS
<1>2. LogApart' /\ LogHeld'
  BY <1>1 DEF LogApart, LogDisjoint, DeltaAlwaysHasBase, LogHeld
<1>3. TypeOK' /\ LogMade'
  BY DEF IInv, Tooled
<1> QED
  BY <1>2, <1>3 DEF Rested

LEMMA AtRestTool ==
    ASSUME IInv, Anchored, AtRest, Named, Tool
    PROVE  AtRest' /\ Named' /\ ~isOpen /\ ~isOpen'
<1>1. UNCHANGED processVars /\ ~isOpen
  BY ToolFrame, ToolClosed
<1> QED
  BY <1>1 DEF processVars, configVars, handleVars, groupVars, resultVars, callVars, AtRest, Named,
              EmptyShadow

LEMMA KnownTool ==
    ASSUME IInv, IInv', Anchored, Orderly, Tool
    PROVE  Known' /\ IndexKnown(index') /\ IndexKnown(kept')
<1> USE DEF vars, dirVars, purgeVars
<1>1. /\ TypeOK /\ Known /\ IndexKnown(index) /\ IndexKnown(kept)
      /\ WellKeyed(index) /\ WellKeyed(kept)
  BY DEF IInv, AllSound, Orderly
<1>2. /\ IndexKnown(build_lazy_index(log)) /\ IndexKnown(purge_input) /\ IndexKnown(EmptyIndex)
  BY <1>1, IndexOfKnown, EmptyKeyed DEF purge_input, IndexKnown
<1>3. Known'
  <2>1. ~Saving'
    <3>1. ~isOpen /\ UNCHANGED processVars
      BY ToolClosed, ToolFrame
    <3>2. ~Saving
      BY <3>1 DEF IInv, Tooled, LogMade, CallOpen, Saving
    <3> QED
      BY <3>1, <3>2 DEF Saving, processVars, resultVars
  <2>2. \A i \in 1..Len(log') : Snap(log'[i]) \in Snapshots
    <3>1. CASE UNCHANGED log
      BY <1>1, <3>1 DEF Known
    <3>2. CASE log' = <<>>
      BY <3>2
    <3>3. CASE \E idx \in {index, kept} : WellKeyed(idx) /\ write_log_file(idx)
      BY <1>1, <3>3, LogOfHeld DEF write_log_file
    <3> QED
      BY <3>1, <3>2, <3>3, ToolLog
  <2> QED
    BY <2>1, <2>2, BeforeStable DEF Known
<1> DEFINE Both == IndexKnown(index') /\ IndexKnown(kept')
<1> SUFFICES Both
  BY <1>3
<1>4. CASE to_btree
  BY <1>1, <1>2, <1>4 DEF to_btree
<1>5. CASE to_log
  BY <1>1, <1>5 DEF to_log
<1>6. ASSUME NEW T \in Thresholds, PurgeNothing(T) PROVE Both
  BY <1>1, <1>6 DEF PurgeNothing
<1>7. ASSUME NEW T \in Thresholds, BeginPurge(T) PROVE Both
  <2>1. T \in Nat /\ WellKeyed(purge_input)
    BY MaintenanceAssumption, InputKeyed
  <2>2. IndexKnown(kept_of(purge_input, T))
    BY <1>2, <2>1, KeptApart
  <2> QED
    BY <1>1, <1>7, <2>2 DEF BeginPurge
<1>8. ASSUME NEW w, TruncateBlob(w) \/ TruncateFail(w) \/ CleanupBlob(w) PROVE Both
  BY <1>1, <1>2, <1>8 DEF TruncateBlob, TruncateFail, CleanupBlob, EndPurge
<1>9. CASE TruncateDone \/ CleanupDone \/ PurgeIndex
  BY <1>1, <1>9 DEF TruncateDone, CleanupDone, PurgeIndex
<1>10. CASE PurgeLog \/ ToolCrash
  BY <1>1, <1>2, <1>10 DEF PurgeLog, ToolCrash, EndPurge
<1>11. CASE DeleteLog \/ DeleteIndex
  BY <1>1, <1>2, <1>11 DEF DeleteLog, DeleteIndex
<1> QED
  BY <1>4, <1>5, <1>6, <1>7, <1>8, <1>9, <1>10, <1>11 DEF Tool

\* What is kept has its bytes, whatever a purge does to the worker files.
LEMMA KeptHeld ==
    ASSUME IInv, IInv', Anchored, IndexHeld(kept), NEW w \in Workers,
           TruncateBlob(w) \/ CleanupBlob(w)
    PROVE  IndexHeld(kept)'
<1>1. UNCHANGED kept
  BY DEF TruncateBlob, CleanupBlob, purgeVars
<1> SUFFICES ASSUME NEW k \in DOMAIN kept
             PROVE  /\ kept[k].worker_id \in Workers
                    /\ kept[k].offset + kept[k].len <= Len(blobs'[kept[k].worker_id])
                    /\ kept[k].worker_id \in blob_files'
                    /\ OfKind(blobs', kept[k])
  BY <1>1 DEF IndexHeld, Held, Within
<1> DEFINE r == kept[k]
<1>2. /\ r \in Slot /\ r \in records_of(kept) /\ WellFormed(r)
      /\ r.worker_id \in Workers /\ r.offset \in Nat /\ r.len \in 0..1
  BY DEF IInv, AllSound, WellKeyed, Sound, records_of, Anchored, IndexWithin, WellFormed, Slot
<1>3. /\ in_range(blobs, r) /\ r.worker_id \in blob_files /\ OfKind(blobs, r)
  BY DEF IndexHeld, Held, Within, in_range
<1> HIDE DEF r
<1>4. r.worker_id \in blob_files'
  <2>1. CASE TruncateBlob(w)
    BY <1>3, <2>1 DEF TruncateBlob
  <2>2. CASE CleanupBlob(w)
    BY <1>2, <1>3, <2>2 DEF CleanupBlob, unused_blob_files
  <2> QED
    BY <2>1, <2>2
<1>5. Len(blobs'[r.worker_id]) \in Nat
  <2>1. blobs'[r.worker_id] \in Seq(Blob)
    BY <1>2 DEF IInv, TypeOK
  <2> QED
    BY <2>1, LenProperties
<1>6. CASE r.kind = "Zero"
  <2>1. r.offset = 0 /\ r.len = 0
    BY <1>3, <1>6 DEF OfKind
  <2>2. OfKind(blobs', r)
    BY <1>6, <2>1 DEF OfKind
  <2>3. r.offset + r.len <= Len(blobs'[r.worker_id])
    BY <1>5, <2>1
  <2> QED
    BY <1>2, <1>4, <2>2, <2>3 DEF r
<1>7. CASE r.kind # "Zero"
  <2>1. StillThere(r, blobs, blobs')
    BY <1>2, <1>7, TruncateKeeps, CleanupKeeps DEF IInv
  <2> QED
    BY <1>2, <1>3, <1>4, <1>7, <2>1 DEF StillThere, in_range, OfKind, r
<1> QED
  BY <1>6, <1>7

LEMMA UprightTool ==
    ASSUME IInv, IInv', Anchored, Orderly, Tool, AtRest', Healthy'
    PROVE  Upright'
<1> USE DEF vars, dirVars, purgeVars, diskVars
<1>1. /\ TypeOK /\ ~isOpen /\ ~isOpen' /\ WellKeyed(index) /\ WellKeyed(kept) /\ WellKeyed(purge_input)
      /\ UNCHANGED processVars
  BY AtRestTool, ToolFrame, InputKeyed DEF IInv, AllSound, Orderly
<1>2. ~ToolCrash /\ Healthy
  <2>1. tool_crashes \in Nat /\ UNCHANGED <<crashes, ioErrors>>
    BY <1>1 DEF processVars, IInv, Tooled, Formats
  <2>2. ~ToolCrash
    BY <2>1 DEF ToolCrash, Healthy
  <2>3. tool_crashes' = tool_crashes
    BY <2>2
    DEF Tool, to_btree, to_log, PurgeNothing, BeginPurge, TruncateBlob, TruncateFail, CleanupBlob,
        TruncateDone, CleanupDone, PurgeIndex, PurgeLog, DeleteLog, DeleteIndex, historyVars
  <2> QED
    BY <2>1, <2>2, <2>3 DEF Healthy
<1>3. /\ IF tool_pc = "none" THEN LogUpright ELSE LogApart
      /\ Apart(index) /\ Apart(kept) /\ IndexHeld(kept)
      /\ tool_pc \in {"none", "write_log"} => IndexHeld(index)
  BY <1>2 DEF Orderly, Upright
<1>4. Apart(EmptyIndex) /\ IndexHeld(EmptyIndex)
  BY EmptyKeyed DEF Apart, IndexHeld
<1>5. LogApart /\ (tool_pc = "none" => LogHeld)
  BY <1>1, <1>2, <1>3, UprightRests
<1>6. /\ Apart(build_lazy_index(log)) /\ Apart(purge_input)
      /\ tool_pc = "none" => IndexHeld(build_lazy_index(log)) /\ IndexHeld(purge_input)
  BY <1>1, <1>3, <1>5, IndexApart, IndexOfHeld DEF purge_input
\* The parts are those of the new state wherever what they speak of is the same.
<1>7. /\ Apart(index') => Apart(index)'
      /\ Apart(kept') => Apart(kept)'
  BY DEF Apart, Disjoint, InOrder, pa_of, snapshot_of
<1>17. ASSUME UNCHANGED <<blobs, blob_files>>
       PROVE  /\ IndexHeld(index') => IndexHeld(index)'
              /\ IndexHeld(kept') => IndexHeld(kept)'
  BY <1>17 DEF IndexHeld, Held, Within, OfKind
<1>8. ASSUME UNCHANGED <<header, log>> PROVE LogApart'
  BY <1>5, <1>8 DEF LogApart, LogDisjoint, Disjoint, InOrder, Before, Snap, snapshot_of, pa_of,
                    DeltaAlwaysHasBase, HasBase
<1>9. ASSUME UNCHANGED <<header, log, blobs, blob_files>>, tool_pc = "none" PROVE LogUpright'
  <2>1. LogHeld'
    BY <1>5, <1>9 DEF LogHeld, Held, Within, OfKind
  <2>2. Rested'
    BY <1>1, <1>8, <1>9, <2>1 DEF Rested, IInv, Tooled
  <2> QED
    BY <2>2, Resting, PTL
<1>10. CASE to_btree
  <2>1. /\ tool_pc = "none" /\ tool_pc' = "none" /\ kept' = kept /\ index' = build_lazy_index(log)
        /\ UNCHANGED <<header, log, blobs, blob_files>>
    BY <1>10 DEF to_btree, RunTool, Offline
  <2>2. LogUpright'
    BY <1>9, <2>1
  <2> QED
    BY <1>3, <1>6, <1>7, <1>17, <2>1, <2>2 DEF Upright
<1>11. CASE to_log
  <2>1. /\ tool_pc = "none" /\ tool_pc' = "none" /\ kept' = kept /\ index' = index
        /\ write_log_file(index) /\ UNCHANGED <<blobs, blob_files>>
    BY <1>11 DEF to_log, RunTool, Offline
  <2>2. Rested'
    BY <1>1, <1>3, <2>1, WriteRested
  <2>3. LogUpright'
    BY <2>2, Resting, PTL
  <2> QED
    BY <1>3, <1>7, <1>17, <2>1, <2>3 DEF Upright
<1>12. ASSUME NEW T \in Thresholds, PurgeNothing(T) PROVE Upright'
  <2>1. /\ tool_pc = "none" /\ tool_pc' = "none" /\ kept' = kept /\ index' = index
        /\ UNCHANGED <<header, log, blobs, blob_files>>
    BY <1>12 DEF PurgeNothing, RunTool, Offline
  <2>2. LogUpright'
    BY <1>9, <2>1
  <2> QED
    BY <1>3, <1>7, <1>17, <2>1, <2>2 DEF Upright
<1>13. ASSUME NEW T \in Thresholds, BeginPurge(T) PROVE Upright'
  <2>1. /\ tool_pc = "none" /\ tool_pc' = "truncate" /\ kept' = kept_of(purge_input, T)
        /\ index' = index /\ UNCHANGED <<header, log, blobs, blob_files>>
    BY <1>13 DEF BeginPurge, RunTool, Offline
  <2>2. T \in Nat
    BY MaintenanceAssumption
  <2>3. Apart(kept') /\ IndexHeld(kept')
    BY <1>1, <1>6, <2>1, <2>2, KeptApart
  <2>4. LogApart'
    BY <1>8, <2>1
  <2> QED
    BY <1>3, <1>7, <1>17, <2>1, <2>3, <2>4 DEF Upright
<1>14. ASSUME NEW w \in Workers, TruncateBlob(w) \/ CleanupBlob(w) PROVE Upright'
  <2>1. /\ tool_pc \in {"truncate", "cleanup"} /\ tool_pc' = tool_pc
        /\ kept' = kept /\ index' = index /\ UNCHANGED <<header, log>>
    BY <1>14 DEF TruncateBlob, CleanupBlob
  <2>2. LogApart'
    BY <1>8, <2>1
  <2>3. IndexHeld(kept)'
    BY <1>3, <1>14, KeptHeld
  <2> QED
    BY <1>3, <1>7, <2>1, <2>2, <2>3 DEF Upright
\* What is kept has its files.
<1>15. ASSUME NEW w \in Workers, TruncateFail(w) PROVE FALSE
  <2>1. w \in truncated_workers(kept) /\ w \notin blob_files
    BY <1>15 DEF TruncateFail, IInv, Tooled, PurgeRuns
  <2>2. PICK k \in DOMAIN kept : w = kept[k].worker_id
    BY <2>1 DEF truncated_workers, records_of
  <2> QED
    BY <1>3, <2>1, <2>2 DEF IndexHeld, Held
<1>16. CASE TruncateDone \/ CleanupDone
  <2>1. /\ tool_pc \notin {"none", "write_log"} /\ tool_pc' \notin {"none", "write_log"}
        /\ kept' = kept /\ index' = index /\ UNCHANGED <<header, log, blobs, blob_files>>
    BY <1>16 DEF TruncateDone, CleanupDone
  <2>2. LogApart'
    BY <1>8, <2>1
  <2> QED
    BY <1>3, <1>7, <1>17, <2>1, <2>2 DEF Upright
<1>18. CASE PurgeIndex
  <2>1. /\ tool_pc = "write_index" /\ tool_pc' = "write_log"
        /\ kept' = kept /\ index' = IF has_index THEN kept ELSE index
        /\ UNCHANGED <<header, log, blobs, blob_files>>
    BY <1>18 DEF PurgeIndex
  <2>2. ~has_index => index = EmptyIndex
    BY DEF IInv, Tooled, Formats
  <2>3. Apart(index') /\ IndexHeld(index')
    BY <1>3, <1>4, <2>1, <2>2
  <2>4. LogApart'
    BY <1>8, <2>1
  <2> QED
    BY <1>3, <1>7, <1>17, <2>1, <2>3, <2>4 DEF Upright
<1>19. CASE PurgeLog
  <2>1. /\ tool_pc = "write_log" /\ tool_pc' = "none"
        /\ kept' = EmptyIndex /\ index' = index /\ UNCHANGED <<blobs, blob_files>>
        /\ IF has_log THEN write_log_file(kept) ELSE UNCHANGED <<header, log, logOnDisk>>
    BY <1>19 DEF PurgeLog, EndPurge
  <2>2. Rested'
    <3>1. CASE has_log
      BY <1>1, <1>3, <2>1, <3>1, WriteRested
    <3>2. CASE ~has_log
      <4>1. log' = <<>>
        BY <2>1, <3>2 DEF IInv, Tooled, LogMade, has_log
      <4> QED
        BY <1>1, <4>1, NoLogRested
    <3> QED
      BY <3>1, <3>2
  <2>3. LogUpright'
    BY <2>2, Resting, PTL
  <2> QED
    BY <1>3, <1>4, <1>7, <1>17, <2>1, <2>3 DEF Upright
<1>20. CASE DeleteLog
  <2>1. /\ tool_pc = "none" /\ tool_pc' = "none" /\ kept' = kept /\ index' = index
        /\ log' = <<>> /\ UNCHANGED <<blobs, blob_files>>
    BY <1>20 DEF DeleteLog, RunTool, Offline
  <2>2. Rested'
    BY <1>1, <2>1, NoLogRested
  <2>3. LogUpright'
    BY <2>2, Resting, PTL
  <2> QED
    BY <1>3, <1>7, <1>17, <2>1, <2>3 DEF Upright
<1>21. CASE DeleteIndex
  <2>1. /\ tool_pc = "none" /\ tool_pc' = "none" /\ kept' = kept /\ index' = EmptyIndex
        /\ UNCHANGED <<header, log, blobs, blob_files>>
    BY <1>21 DEF DeleteIndex, RunTool, Offline
  <2>2. LogUpright'
    BY <1>9, <2>1
  <2> QED
    BY <1>3, <1>4, <1>7, <1>17, <2>1, <2>2 DEF Upright
<1> QED
  BY <1>2, <1>10, <1>11, <1>12, <1>13, <1>14, <1>15, <1>16, <1>18, <1>19, <1>20, <1>21 DEF Tool

LEMMA OrderlyTool ==
    ASSUME IInv, IInv', Anchored, Orderly, Tool
    PROVE  Orderly'
<1>1. AtRest' /\ Named'
  BY AtRestTool DEF Orderly
<1>2. Known' /\ IndexKnown(index)' /\ IndexKnown(kept)'
  BY KnownTool DEF IndexKnown, snapshot_of
<1>3. Upright'
  BY <1>1, UprightTool DEF Upright
<1> QED
  BY <1>1, <1>2, <1>3 DEF Orderly

LEMMA OrderlySame ==
    ASSUME IInv, IInv', Orderly, UNCHANGED allVars
    PROVE  Orderly'
<1>1. /\ UNCHANGED vars
      /\ UNCHANGED <<index, blob_files, tool_pc, kept, tool_crashes>>
  BY DEF allVars, purgeVars, historyVars
<1>2. UNCHANGED <<header, log, blobs, isOpen, blob_count, records_buf, crashes, ioErrors>>
  BY <1>1 DEF vars, diskVars, configVars, groupVars, countVars, handleVars
<1>3. TypeOK /\ TypeOK' /\ Slotted /\ CallOpen
  BY DEF IInv, Tooled, LogMade
<1>4. Known' /\ AtRest' /\ Named'
  <2>1. Known' /\ AtRest'
    BY <1>1, <1>3, KnownStep, AtRestStep DEF Orderly
  <2>2. Named'
    BY <1>1, <1>2 DEF Orderly, Named
  <2> QED
    BY <2>1, <2>2
<1>5. IndexKnown(index)' /\ IndexKnown(kept)'
  BY <1>1 DEF Orderly, IndexKnown, snapshot_of
<1>6. ASSUME Healthy' PROVE Upright'
  <2>1. Healthy /\ crashes = 0 /\ crashes' = 0
    BY <1>1, <1>2, <1>6 DEF Healthy
  <2>2. /\ IF tool_pc = "none" THEN LogUpright ELSE LogApart
        /\ Apart(index) /\ Apart(kept) /\ IndexHeld(kept)
        /\ tool_pc \in {"none", "write_log"} => IndexHeld(index)
    BY <2>1 DEF Orderly, Upright
  <2>3. Apart(index)' /\ Apart(kept)'
    BY <1>1, <2>2 DEF Apart, Disjoint, InOrder, pa_of, snapshot_of
  <2>4. /\ IndexHeld(kept)'
        /\ tool_pc' \in {"none", "write_log"} => IndexHeld(index)'
    BY <1>1, <1>2, <2>2 DEF IndexHeld, Held, Within, OfKind
  <2>5. LogUpright => LogUpright'
    <3>1. ASSUME LogUpright PROVE LogUpright'
      <4>1. Placed' /\ Ascending' /\ Sorted' /\ Based'
        BY <1>1, <1>3, <3>1, PlacedStep, AscendingStep, SortedStep, BasedStep DEF LogUpright
      <4>2. LogNamed'
        BY <1>1, <1>2, <3>1 DEF LogUpright, LogNamed
      <4>3. Kinds'
        BY <1>1, <1>3, <2>1, <3>1, KindsStep DEF LogUpright
      <4> QED
        BY <4>1, <4>2, <4>3 DEF LogUpright
    <3> QED
      BY <3>1
  <2>6. LogApart => LogApart'
    BY <1>2 DEF LogApart, LogDisjoint, Disjoint, InOrder, Before, Snap, snapshot_of, pa_of,
                DeltaAlwaysHasBase, HasBase
  <2> QED
    BY <1>1, <2>2, <2>3, <2>4, <2>5, <2>6 DEF Upright
<1> QED
  BY <1>4, <1>5, <1>6 DEF Orderly, Upright

LEMMA OrderlyStep == IInv /\ Anchored /\ Orderly /\ [NextMaintenance]_allVars => Orderly'
<1> SUFFICES ASSUME IInv, Anchored, Orderly, [NextMaintenance]_allVars PROVE Orderly'
  OBVIOUS
<1>1. IInv'
  BY MaintenanceStep
<1>2. CASE Writer
  BY <1>1, <1>2, OrderlyWriter
<1>3. CASE Tool
  BY <1>1, <1>3, OrderlyTool
<1>4. CASE UNCHANGED allVars
  BY <1>1, <1>4, OrderlySame
<1> QED
  BY <1>2, <1>3, <1>4 DEF NextMaintenance, Tool

LEMMA OrderlyInv == SpecMaintenance => [](IInv /\ Anchored /\ Orderly)
<1>1. SpecMaintenance => []Anchored
  BY AnchoredInit, AnchoredStep, MaintenanceInv, PTL DEF SpecMaintenance
<1> QED
  BY <1>1, OrderlyInit, OrderlyStep, MaintenanceInv, PTL DEF SpecMaintenance

\* What Healthy states promise of the log, whether a tool runs or not.
LEMMA UprightLog ==
    ASSUME IInv, Orderly, Healthy
    PROVE  /\ \A i, j \in 1..Len(log) : InOrder(log[i], log[j])
           /\ \A i, j \in 1..Len(log) : i < j => Before(log[i], log[j])
           /\ DeltaAlwaysHasBase
           /\ Offline => LogApart /\ LogHeld
<1>1. IF tool_pc = "none" THEN LogUpright ELSE LogApart
  BY DEF Orderly, Upright
<1>2. CASE tool_pc = "none"
  <2>1. /\ Ordered /\ DeltaAlwaysHasBase
        /\ \A i, j \in 1..Len(log) : i < j => Before(log[i], log[j])
    BY <1>1, <1>2 DEF LogUpright, Ascending, Sorted, Based, Healthy
  <2>2. Offline => LogApart /\ LogHeld
    BY <1>1, <1>2, UprightRests DEF Offline
  <2> QED
    BY <2>1, <2>2 DEF Ordered
<1>3. CASE tool_pc # "none"
  BY <1>1, <1>3 DEF LogApart, Offline
<1> QED
  BY <1>2, <1>3

\* The order that the offline tools rest on outlasts them: as long as no tool is
\* killed, no process crashes and no write fails, every conversion (convert.rs),
\* purge (purge.rs) and deleted format leaves a log that is strictly ascending by
\* snapshot and page, and worker files in which the blobs of a snapshot lie
\* before those of later ones, and so does every save that follows.
THEOREM OrderAlwaysKept == SpecMaintenance => []OrderKept
<1>1. ASSUME IInv, Orderly PROVE OrderKept
  <2> SUFFICES ASSUME Healthy PROVE BlobsInSnapshotOrder /\ LogInOrder
    BY DEF OrderKept, BlobsInSnapshotOrder, LogInOrder, Healthy
  <2> QED
    BY <1>1, UprightLog DEF BlobsInSnapshotOrder, LogInOrder, Before, Snap
<1> QED
  BY <1>1, OrderlyInv, PTL

\* And every Delta of the log keeps its base: conversions drop none, and a purge
\* (purge.rs) that keeps a Delta keeps the Full chunk that it is a patch of, in
\* both formats.
THEOREM BasesOutlastTools == SpecMaintenance => [](Healthy => DeltaHasBase)
<1>1. ASSUME IInv, Orderly PROVE Healthy => DeltaHasBase
  BY <1>1, UprightLog DEF DeltaHasBase
<1> QED
  BY <1>1, OrderlyInv, PTL

\* check finds nothing wrong in a database that was only ever saved to, closed,
\* converted and purged: every record has its file and its bytes, of its sort,
\* and check.rs finds the base of every Delta.  Snapshot 0 is left out: check
\* takes a base_key of 0, the key of page 0 at snapshot 0, for none.
THEOREM CheckAlwaysAccepts ==
    ASSUME 0 \notin Snapshots
    PROVE  SpecMaintenance => []CheckAccepts
<1>1. ASSUME IInv, Anchored, Orderly, Healthy, Offline PROVE check_errors = {}
  <2>1. /\ TypeOK /\ LogSound /\ OnDisk
        /\ log \in Seq(Slot) /\ DOMAIN log = 1..Len(log) /\ Len(log) \in Nat
    <3>1. TypeOK /\ LogSound
      BY <1>1 DEF IInv, AllSound
    <3>2. OnDisk
      BY <1>1, <3>1, AllOnDisk DEF Anchored, Offline
    <3> QED
      BY <3>1, <3>2, FileTypes
  <2>2. LogApart /\ LogHeld
    BY <1>1, UprightLog
  <2>3. check_errors = check(log, blobs, blob_files)
    BY <2>1 DEF check_errors, OnDisk
  <2> SUFFICES ASSUME NEW i \in 1..Len(log)
               PROVE  /\ log[i].worker_id \in blob_files
                      /\ blob_ok(blobs, log[i])
                      /\ base_ok(log, log[i])
    BY <2>1, <2>3 DEF check
  <2>4. Held(log[i]) /\ log[i] \in Slot
    BY <2>1, <2>2 DEF LogHeld
  <2>5. blob_ok(blobs, log[i])
    <3>1. log[i].len \in 0..1
      BY <2>4 DEF Slot
    <3> QED
      BY <2>4, <3>1 DEF blob_ok, in_range, Held, Within, OfKind
  <2>6. base_ok(log, log[i])
    <3> SUFFICES ASSUME log[i].kind = "Delta"
                 PROVE  /\ log[i].base_key # 0
                        /\ \E j \in full_index(log, log[i].base_key) : log[j].kind = "Full"
      BY DEF base_ok
    <3>1. PICK j \in 1..(i - 1) : log[j].key = log[i].base_key /\ log[j].kind = "Full"
      BY <2>2 DEF LogApart, DeltaAlwaysHasBase, HasBase
    <3>2. j \in 1..Len(log)
      BY <2>1, <3>1
    <3>3. log[i].base_key # 0
      <4>1. snapshot_of(log[j].key) \in Snapshots
        BY <1>1, <3>2 DEF Orderly, Known, Snap
      <4>2. snapshot_of(0) = 0
        BY DEF snapshot_of, SNAPSHOT_LIMIT
      <4> QED
        BY <3>1, <4>1, <4>2
    <3>4. \A n \in (j + 1)..Len(log) : log[n].key # log[j].key
      BY <2>1, <2>2, <3>2, KeysOfLog
    <3>5. j \in full_index(log, log[i].base_key)
      BY <2>1, <3>1, <3>2, <3>4 DEF full_index
    <3> QED
      BY <3>1, <3>3, <3>5
  <2> QED
    BY <2>4, <2>5, <2>6 DEF Held
<1>2. IInv /\ Healthy => log_reads
  BY DEF IInv, TypeOK, Healthy, log_reads
<1>3. IInv /\ Anchored /\ Orderly => CheckAccepts
  BY <1>1, <1>2 DEF CheckAccepts, check_accepts
<1> QED
  BY <1>3, OrderlyInv, PTL

=============================================================================
