------------------------- MODULE SharedCache_proofs -------------------------
(***************************************************************************)
(* Theorems about the shared cache, for all values of the constants: its   *)
(* types, its creation, what the mutexes keep apart, where keys are        *)
(* placed, which page makes room, and that it implements PageCache.        *)
(***************************************************************************)
EXTENDS SharedCache, FiniteSetTheorems, WellFoundedInduction, TLAPS

-----------------------------------------------------------------------------
(* Sets and ways.                                                          *)

\* A remainder is below the divisor.
LEMMA Remainder ==
    ASSUME NEW a \in Nat, NEW n \in Nat \ {0}
    PROVE  a \div n \in Nat /\ a % n \in 0..(n - 1)
  BY SMT

\* Every key has a set.
LEMMA LocateType ==
    ASSUME NEW k \in Keys
    PROVE  locate(k) \in Sets /\ locate(k)[1] \in Metas
<1>1. Hash[k] \in Nat
  BY SharedCacheAssumption
<1>2. METADATA_PAGES \in Nat \ {0} /\ SETS_PER_META \in Nat \ {0}
  BY SharedCacheAssumption
<1>3. Hash[k] \div SETS_PER_META \in Nat /\ Hash[k] % SETS_PER_META \in 0..(SETS_PER_META - 1)
  BY <1>1, <1>2, Remainder
<1>4. (Hash[k] \div SETS_PER_META) % METADATA_PAGES \in 0..(METADATA_PAGES - 1)
  BY <1>2, <1>3, Remainder
<1> QED
  BY <1>3, <1>4 DEF locate, Sets, Metas

\* The way that a put takes is one of the ways.
LEMMA TargetType ==
    ASSUME NEW s, NEW k
    PROVE  target(s, k) \subseteq Ways
<1>1. 0 \in Ways
  BY SharedCacheAssumption DEF Ways
<1> QED
  BY <1>1 DEF target, first, ways_of, oldest

-----------------------------------------------------------------------------
(* Types.                                                                  *)

\* What the type invariant says of the call of one process.
LEMMA CallTyped ==
    ASSUME TypeOK, NEW p \in Procs
    PROVE  /\ key[p] \in Keys
           /\ set_of(p) \in Sets
           /\ meta_of(p) \in Metas
           /\ page[p] \in Contents \union {NoPage}
           /\ way[p] \in Ways
           /\ meta_idx[p] \in 0..METADATA_PAGES
  BY LocateType DEF TypeOK, set_of, meta_of

\* A process stays at one of the labels.
LEMMA GotoType ==
    ASSUME TypeOK, NEW p, NEW label \in Pcs, Goto(p, label)
    PROVE  pc' \in [Procs -> Pcs]
  BY DEF TypeOK, Goto

\* Every variable of the cache has its type.
LEMMA InitType == Init => TypeOK
<1> SUFFICES ASSUME Init PROVE TypeOK
  OBVIOUS
<1>1. 0 \in Keys /\ 0 \in 0..U8_MAX /\ 0 \in Ways /\ 0 \in 0..METADATA_PAGES
  BY SharedCacheAssumption DEF Ways
<1> QED
  BY <1>1 DEF Init, TypeOK, NoneOlder, Pcs, Inside

LEMMA StepType == TypeOK /\ [Next]_vars => TypeOK'
<1> SUFFICES ASSUME TypeOK, [Next]_vars PROVE TypeOK'
  OBVIOUS
<1> USE DEF fileVars, setVars, callVars, initVars, histVars
<1>0. 0 \in Keys /\ 0 \in 0..U8_MAX /\ 0 \in Ways /\ 0 \in 0..METADATA_PAGES
  BY SharedCacheAssumption DEF Ways
<1>1. ASSUME NEW p \in Procs, NEW id \in Identities, Create(p, id) PROVE TypeOK'
  <2>1. pc' \in [Procs -> Pcs]
    BY <1>1, GotoType DEF Create, Pcs
  <2> QED
    BY <1>1, <2>1 DEF Create, TypeOK
<1>2. ASSUME NEW p \in Procs, CreateNothing(p) PROVE TypeOK'
  <2>1. pc' \in [Procs -> Pcs]
    BY <1>2, GotoType DEF CreateNothing, Created, Pcs
  <2> QED
    BY <1>0, <1>2, <2>1 DEF CreateNothing, Created, TypeOK
<1>3. ASSUME NEW p \in Procs, Ftruncate(p) PROVE TypeOK'
  <2>1. pc' \in [Procs -> Pcs]
    BY <1>3, GotoType DEF Ftruncate, Pcs
  <2> QED
    BY <1>3, <2>1 DEF Ftruncate, TypeOK
<1>4. ASSUME NEW p \in Procs, ZeroMetadata(p) PROVE TypeOK'
  <2>1. pc' \in [Procs -> Pcs]
    BY <1>4, GotoType DEF ZeroMetadata, Pcs
  <2> QED
    BY <1>0, <1>4, <2>1 DEF ZeroMetadata, TypeOK, NoneOlder
<1>5. ASSUME NEW p \in Procs, InitMeta(p) PROVE TypeOK'
  <2>1. /\ meta_idx[p] \in Metas
        /\ meta_idx[p] + 1 \in 0..METADATA_PAGES
    BY <1>5, CallTyped, SharedCacheAssumption DEF InitMeta, Metas
  <2>2. page_ids' \in [Sets -> [Ways -> Keys \union {EMPTY_KEY}]]
    BY <1>5 DEF InitMeta, TypeOK
  <2>3. timestamps' \in [Sets -> [Ways -> 0..U8_MAX]]
    BY <1>0, <1>5 DEF InitMeta, TypeOK
  <2>4. owner' \in [Metas -> Procs \union {None, Died}] /\ ready' \subseteq Metas
    BY <1>5, <2>1 DEF InitMeta, TypeOK
  <2>5. meta_idx' \in [Procs -> 0..METADATA_PAGES]
    BY <1>5, <2>1 DEF InitMeta, TypeOK
  <2> QED
    BY <1>5, <2>2, <2>3, <2>4, <2>5 DEF InitMeta, TypeOK
<1>6. ASSUME NEW p \in Procs, WriteMagic(p) PROVE TypeOK'
  <2>1. pc' \in [Procs -> Pcs]
    BY <1>6, GotoType DEF WriteMagic, Pcs
  <2> QED
    BY <1>6, <2>1 DEF WriteMagic, TypeOK
<1>7. ASSUME NEW p \in Procs, WritePath(p) PROVE TypeOK'
  <2>1. pc' \in [Procs -> Pcs]
    BY <1>7, GotoType DEF WritePath, Created, Pcs
  <2> QED
    BY <1>0, <1>7, <2>1 DEF WritePath, Created, TypeOK
<1>8. ASSUME NEW p \in Procs, NEW id \in Identities, Open(p, id) PROVE TypeOK'
  <2>1. pc' \in [Procs -> Pcs]
    BY <1>8, GotoType DEF Open, Pcs
  <2> QED
    BY <1>8, <2>1 DEF Open, TypeOK
<1>9. ASSUME NEW p \in Procs, Drop(p) PROVE TypeOK'
  <2>1. pc' \in [Procs -> Pcs]
    BY <1>9, GotoType DEF Drop, Pcs
  <2> QED
    BY <1>9, <2>1 DEF Drop, TypeOK
<1>10. CASE Delete
  BY <1>0, <1>10 DEF Delete, TypeOK, NoneOlder
<1>11. ASSUME NEW p \in Procs, NEW k \in Keys, Get(p, k) PROVE TypeOK'
  <2>1. pc' \in [Procs -> Pcs]
    BY <1>11, GotoType DEF Get, Pcs
  <2> QED
    BY <1>11, <2>1 DEF Get, TypeOK
<1>12. ASSUME NEW p \in Procs, NEW k \in Keys, NEW image \in Images[k], Put(p, k, image)
       PROVE TypeOK'
  <2>1. pc' \in [Procs -> Pcs]
    BY <1>12, GotoType DEF Put, Pcs
  <2>2. image \in Contents
    BY SharedCacheAssumption
  <2> QED
    BY <1>12, <2>1, <2>2 DEF Put, TypeOK
<1>13. ASSUME NEW p \in Procs, Lock(p) PROVE TypeOK'
  <2>1. pc' \in [Procs -> Pcs]
    BY <1>13, GotoType DEF Lock, Pcs, Inside
  <2>2. owner' \in [Metas -> Procs \union {None, Died}]
    BY <1>13 DEF Lock, TypeOK
  <2> QED
    BY <1>13, <2>1, <2>2 DEF Lock, TypeOK
<1>14. ASSUME NEW p \in Procs, GetHit(p) PROVE TypeOK'
  <2>1. pc' \in [Procs -> Pcs]
    BY <1>14, GotoType DEF GetHit, Pcs, Inside
  <2>2. PICK w \in Ways : /\ way' = [way EXCEPT ![p] = w]
                          /\ out' = [out EXCEPT ![p] = data[set_of(p)][w]]
    BY <1>14 DEF GetHit, first, ways_of
  <2>3. data[set_of(p)][w] \in Contents \union {NoPage, Torn}
    BY CallTyped DEF TypeOK
  <2> QED
    BY <1>14, <2>1, <2>2, <2>3 DEF GetHit, TypeOK
<1>15. ASSUME NEW p \in Procs, GetMiss(p) PROVE TypeOK'
  <2>1. pc' \in [Procs -> Pcs]
    BY <1>15, GotoType DEF GetMiss, Pcs, Inside
  <2> QED
    BY <1>15, <2>1 DEF GetMiss, TypeOK
<1>16. ASSUME NEW s \in Sets, NEW w \in Ways, NEW image \in Contents \union {NoPage, Torn},
              write_slot(s, w, image)
       PROVE data' \in [Sets -> [Ways -> Contents \union {NoPage, Torn}]]
  BY <1>16 DEF write_slot, TypeOK
<1>17. ASSUME NEW p \in Procs, PutFind(p) PROVE TypeOK'
  <2>1. pc' \in [Procs -> Pcs]
    BY <1>17, GotoType DEF PutFind, Pcs, Inside
  <2>2. PICK w \in Ways :
           /\ way' = [way EXCEPT ![p] = w]
           /\ write_slot(set_of(p), w, IF data[set_of(p)][w] = page[p] THEN page[p] ELSE Torn)
    BY <1>17, TargetType DEF PutFind
  <2>3. data' \in [Sets -> [Ways -> Contents \union {NoPage, Torn}]]
    BY <1>16, <2>2, CallTyped
  <2> QED
    BY <1>17, <2>1, <2>2, <2>3 DEF PutFind, TypeOK
<1>18. ASSUME NEW p \in Procs, PutCopied(p) PROVE TypeOK'
  <2>1. pc' \in [Procs -> Pcs]
    BY <1>18, GotoType DEF PutCopied, Pcs, Inside
  <2>2. data' \in [Sets -> [Ways -> Contents \union {NoPage, Torn}]]
    BY <1>16, <1>18, CallTyped DEF PutCopied
  <2> QED
    BY <1>18, <2>1, <2>2 DEF PutCopied, TypeOK
<1>19. ASSUME NEW p \in Procs, PutKey(p) PROVE TypeOK'
  <2>1. pc' \in [Procs -> Pcs]
    BY <1>19, GotoType DEF PutKey, Pcs, Inside
  <2>2. page_ids' \in [Sets -> [Ways -> Keys \union {EMPTY_KEY}]]
    BY <1>19, CallTyped DEF PutKey, TypeOK
  <2> QED
    BY <1>19, <2>1, <2>2 DEF PutKey, TypeOK
<1>20. ASSUME NEW p \in Procs, Decay(p) PROVE TypeOK'
  <2>1. pc' \in [Procs -> Pcs]
    BY <1>20, GotoType DEF Decay, Pcs, Inside
  <2>2. \A t \in 0..U8_MAX : (IF t = 0 THEN 0 ELSE t - 1) \in 0..U8_MAX
    BY SharedCacheAssumption
  <2>3. timestamps' \in [Sets -> [Ways -> 0..U8_MAX]]
    BY <1>20, <2>2, CallTyped DEF Decay, TypeOK
  <2> QED
    BY <1>20, <2>1, <2>3 DEF Decay, TypeOK
<1>21. ASSUME NEW p \in Procs, Stamp(p) PROVE TypeOK'
  <2>1. pc' \in [Procs -> Pcs]
    BY <1>21, GotoType DEF Stamp, Pcs, Inside
  <2>2. U8_MAX \in 0..U8_MAX
    BY SharedCacheAssumption
  <2>3. timestamps' \in [Sets -> [Ways -> 0..U8_MAX]]
    BY <1>21, <2>2, CallTyped DEF Stamp, TypeOK
  <2>4. older' \in [Sets -> SUBSET (Ways \X Ways)]
    BY <1>21, CallTyped DEF Stamp, TypeOK
  <2> QED
    BY <1>21, <2>1, <2>3, <2>4 DEF Stamp, TypeOK
<1>22. ASSUME NEW p \in Procs, EndCall(p)
       PROVE  /\ key' \in [Procs -> Keys]
              /\ page' \in [Procs -> Contents \union {NoPage}]
              /\ way' \in [Procs -> Ways]
              /\ out' \in [Procs -> Contents \union {NoPage, Torn}]
  BY <1>0, <1>22 DEF EndCall, TypeOK
<1>23. ASSUME NEW p \in Procs, Unlock(p) PROVE TypeOK'
  <2>1. pc' \in [Procs -> Pcs]
    BY <1>23, GotoType DEF Unlock, Pcs
  <2>2. owner' \in [Metas -> Procs \union {None, Died}]
    BY <1>23 DEF Unlock, TypeOK
  <2> QED
    BY <1>22, <1>23, <2>1, <2>2 DEF Unlock, TypeOK
<1>24. ASSUME NEW p \in Procs, Kill(p) PROVE TypeOK'
  <2>1. pc' \in [Procs -> Pcs]
    BY <1>24, GotoType DEF Kill, Pcs
  <2>2. owner' \in [Metas -> Procs \union {None, Died}]
    BY <1>24 DEF Kill, TypeOK
  <2>3. spoiled' \subseteq Sets \X Ways
    BY <1>24, CallTyped DEF Kill, TypeOK, unfinished
  <2>4. ident' \in [Procs -> Identities \union {None}] /\ meta_idx' \in [Procs -> 0..METADATA_PAGES]
    BY <1>0, <1>24 DEF Kill, TypeOK
  <2>5. kills' \in Nat
    BY <1>24 DEF Kill, TypeOK
  <2> QED
    BY <1>22, <1>24, <2>1, <2>2, <2>3, <2>4, <2>5 DEF Kill, TypeOK
<1>25. CASE UNCHANGED vars
  BY <1>25 DEF vars, TypeOK
<1> QED
  BY <1>1, <1>2, <1>3, <1>4, <1>5, <1>6, <1>7, <1>8, <1>9, <1>10, <1>11, <1>12, <1>13,
     <1>14, <1>15, <1>17, <1>18, <1>19, <1>20, <1>21, <1>23, <1>24, <1>25
     DEF Next, Call, Step

\* cache.rs: every variable has its type at all times: timestamps stay within a
\* byte, ways within their set, and a mutex is owned by a process, by none or by
\* one that has died.
THEOREM TypeCorrect == Spec => []TypeOK
  BY InitType, StepType, PTL DEF Spec

-----------------------------------------------------------------------------
(* Creation.  With one creator at a time, the identity is in the file only *)
(* while the file is complete, and nobody is attached without it.          *)

OneCreator == \A p, q \in Creating : p = q

IdentifiedIsInitialised == magic => file = "full" /\ ready = Metas

CreatorAlone(p) ==
    /\ pc[p] \notin {"init", "path"} => meta_idx[p] = 0
    /\ pc[p] = "size" => Attached = {} \/ (file = "full" /\ verify_identity(ident[p]))
    /\ pc[p] \in {"zero", "init", "path"} => Attached = {} /\ file = "full"
    /\ pc[p] = "init" => /\ ~magic
                        /\ ready = {m \in Metas : m < meta_idx[p]}
                        /\ \A s \in Sets, w \in Ways : timestamps[s][w] = 0

Creation ==
    /\ OneCreator
    /\ IdentifiedIsInitialised
    /\ Attached # {} => magic
    /\ \A p \in Procs : CreatorAlone(p)

CreatorPcs == {"size", "zero", "init", "path"}

\* A step of a process that is attached, before and after, moves nobody.
LEMMA StaysAttached ==
    ASSUME TypeOK, NEW p \in Procs, pc[p] \notin CreatorPcs \union {"off"},
           NEW label, label \notin CreatorPcs \union {"off"}, Goto(p, label)
    PROVE  Attached' = Attached /\ Creating' = Creating
  BY DEF TypeOK, Goto, Attached, Creating, Detached, CreatorPcs

\* A process stops creating, or is detached.
LEMMA GoesOff ==
    ASSUME TypeOK, NEW p \in Procs, Goto(p, "off")
    PROVE  Attached' \subseteq Attached /\ Creating' = Creating \ {p} /\ pc'[p] = "off"
           /\ (pc[p] \in CreatorPcs => Attached' = Attached)
  BY DEF TypeOK, Goto, Attached, Creating, Detached, CreatorPcs

\* A creator goes on.
LEMMA GoesOn ==
    ASSUME TypeOK, NEW p \in Procs, pc[p] \in CreatorPcs,
           NEW label \in CreatorPcs, Goto(p, label)
    PROVE  Attached' = Attached /\ Creating' = Creating /\ pc'[p] = label
  BY DEF TypeOK, Goto, Attached, Creating, Detached, CreatorPcs

LEMMA InitCreation == Init => Creation
  BY DEF Init, Creation, OneCreator, IdentifiedIsInitialised, CreatorAlone, Creating, Attached,
         Detached

\* What a step of an attached process leaves alone.
LEMMA CallKeepsCreation ==
    ASSUME TypeOK, Creation, NEW p \in Procs, pc[p] \notin CreatorPcs \union {"off"},
           NEW label, label \notin CreatorPcs \union {"off"}, Goto(p, label),
           UNCHANGED <<fileVars, initVars>>
    PROVE  Creation'
<1>1. Attached' = Attached /\ Creating' = Creating
  BY StaysAttached
<1>2. p \in Attached
  BY DEF Attached, Creating, Detached, CreatorPcs
<1>3. ASSUME NEW q \in Procs PROVE CreatorAlone(q)'
  <2>1. q # p => pc'[q] = pc[q]
    BY DEF TypeOK, Goto
  <2>2. CASE q = p
    BY <2>2 DEF Creation, CreatorAlone, TypeOK, Goto, CreatorPcs, initVars
  <2>3. CASE q # p
    <3>1. pc[q] # "init"
      BY <1>2 DEF Creation, CreatorAlone
    <3> QED
      BY <1>1, <2>1, <2>3, <3>1 DEF Creation, CreatorAlone, initVars, fileVars, verify_identity
  <2> QED
    BY <2>2, <2>3
<1>4. OneCreator' /\ IdentifiedIsInitialised' /\ (Attached' # {} => magic')
  BY <1>1 DEF Creation, OneCreator, IdentifiedIsInitialised, fileVars
<1> QED
  BY <1>3, <1>4 DEF Creation

LEMMA StepCreation ==
    ASSUME MaxCreators <= 1, TypeOK, Creation, [Next]_vars
    PROVE  Creation'
<1> USE DEF fileVars, setVars, callVars, initVars, histVars
<1>0. ASSUME NEW p \in Procs, NEW q \in Procs, q # p, pc[p] \in CreatorPcs
      PROVE  pc[q] \notin CreatorPcs
  BY <1>0 DEF Creation, OneCreator, Creating, CreatorPcs
<1>1. ASSUME NEW p \in Procs, NEW id \in Identities, Create(p, id) PROVE Creation'
  <2>1. Creating = {}
    <3>1. IsFiniteSet(Creating)
      BY SharedCacheAssumption, FS_Subset DEF Creating
    <3>2. Cardinality(Creating) \in Nat /\ Cardinality(Creating) < 1
      BY <1>1, <3>1, FS_CardinalityType, SharedCacheAssumption DEF Create
    <3> QED
      BY <3>1, <3>2, FS_EmptySet
  <2>2. Creating' = {p} /\ Attached' = Attached
    BY <1>1, <2>1 DEF Create, TypeOK, Goto, Attached, Creating, Detached
  <2>3. \A q \in Procs : q # p => pc'[q] = pc[q] /\ pc[q] \notin CreatorPcs
    BY <1>1, <2>1 DEF Create, TypeOK, Goto, Creating, CreatorPcs
  <2>4. pc'[p] = "size" /\ ident'[p] = id
    BY <1>1 DEF Create, TypeOK, Goto
  <2>5. CreatorAlone(p)'
    <3>1. Attached' = {} \/ (file' = "full" /\ magic' /\ path' = ident'[p])
      BY <1>1, <2>2, <2>4 DEF Create, verify_identity
    <3>2. meta_idx'[p] = 0
      BY <1>1 DEF Create, Creation, CreatorAlone
    <3> QED
      BY <2>4, <3>1, <3>2 DEF CreatorAlone, verify_identity
  <2>6. \A q \in Procs : q # p => CreatorAlone(q)'
    BY <1>1, <2>3 DEF Create, CreatorAlone, Creation, CreatorPcs
  <2>7. IdentifiedIsInitialised' /\ (Attached' # {} => magic')
    BY <1>1, <2>2 DEF Create, Creation, IdentifiedIsInitialised
  <2> QED
    BY <2>2, <2>5, <2>6, <2>7 DEF Creation, OneCreator
<1>2. ASSUME NEW p \in Procs, pc[p] \in CreatorPcs, Created(p), UNCHANGED file,
             UNCHANGED ready, UNCHANGED timestamps,
             magic' => file = "full" /\ ready = Metas, Attached # {} => magic'
      PROVE  Creation'
  <2>1. Attached' = Attached /\ Creating' = Creating \ {p} /\ pc'[p] = "off"
    BY <1>2, GoesOff DEF Created
  <2>2. meta_idx'[p] = 0
    BY <1>2 DEF Created, TypeOK
  <2>3. \A q \in Procs : q # p => /\ pc'[q] = pc[q] /\ meta_idx'[q] = meta_idx[q]
                                  /\ pc[q] \notin CreatorPcs
    BY <1>0, <1>2 DEF Created, TypeOK, Goto
  <2>4. \A q \in Procs : CreatorAlone(q)'
    BY <2>1, <2>2, <2>3 DEF CreatorAlone, Creation, CreatorPcs
  <2> QED
    BY <1>2, <2>1, <2>4 DEF Creation, OneCreator, IdentifiedIsInitialised
<1>3. ASSUME NEW p \in Procs, CreateNothing(p) PROVE Creation'
  BY <1>2, <1>3 DEF CreateNothing, Creation, IdentifiedIsInitialised, CreatorPcs
<1>4. ASSUME NEW p \in Procs, WritePath(p) PROVE Creation'
  BY <1>2, <1>4 DEF WritePath, Creation, IdentifiedIsInitialised, CreatorPcs
<1>5. ASSUME NEW p \in Procs, NEW label \in CreatorPcs, pc[p] \in CreatorPcs, Goto(p, label),
             Attached = {}, UNCHANGED ident, CreatorAlone(p)', IdentifiedIsInitialised',
             \A q \in Procs : q # p => meta_idx'[q] = meta_idx[q]
      PROVE  Creation'
  <2>1. Attached' = Attached /\ Creating' = Creating
    BY <1>5, GoesOn
  <2>2. \A q \in Procs : q # p => pc'[q] = pc[q] /\ pc[q] \notin CreatorPcs
    BY <1>0, <1>5 DEF TypeOK, Goto
  <2>3. \A q \in Procs : CreatorAlone(q)'
    BY <1>5, <2>2 DEF CreatorAlone, Creation, CreatorPcs
  <2> QED
    BY <1>5, <2>1, <2>3 DEF Creation, OneCreator
<1>6. ASSUME NEW p \in Procs, Ftruncate(p) PROVE Creation'
  <2>1. Attached = {}
    BY <1>6 DEF Ftruncate, Creation, CreatorAlone
  <2>2. pc'[p] = "zero" /\ Attached' = {}
    BY <1>6, <2>1, GoesOn DEF Ftruncate, CreatorPcs
  <2>3. CreatorAlone(p)'
    BY <1>6, <2>2 DEF Ftruncate, Creation, CreatorAlone
  <2>4. IdentifiedIsInitialised'
    BY <1>6 DEF Ftruncate, Creation, IdentifiedIsInitialised
  <2> QED
    BY <1>5, <1>6, <2>1, <2>3, <2>4 DEF Ftruncate, CreatorPcs
<1>7. ASSUME NEW p \in Procs, ZeroMetadata(p) PROVE Creation'
  <2>1. Attached = {} /\ file = "full" /\ meta_idx[p] = 0
    BY <1>7 DEF ZeroMetadata, Creation, CreatorAlone
  <2>2. pc'[p] = "init" /\ Attached' = {}
    BY <1>7, <2>1, GoesOn DEF ZeroMetadata, CreatorPcs
  <2>3. ready' = {m \in Metas : m < meta_idx'[p]}
    BY <1>7, <2>1, SharedCacheAssumption DEF ZeroMetadata, Metas
  <2>4. CreatorAlone(p)'
    BY <1>7, <2>1, <2>2, <2>3 DEF ZeroMetadata, CreatorAlone
  <2>5. IdentifiedIsInitialised'
    BY <1>7 DEF ZeroMetadata, IdentifiedIsInitialised
  <2> QED
    BY <1>5, <1>7, <2>1, <2>4, <2>5 DEF ZeroMetadata, CreatorPcs
<1>8. ASSUME NEW p \in Procs, InitMeta(p) PROVE Creation'
  <2>1. /\ Attached = {} /\ file = "full" /\ ~magic
        /\ ready = {m \in Metas : m < meta_idx[p]}
        /\ \A s \in Sets, w \in Ways : timestamps[s][w] = 0
    BY <1>8 DEF InitMeta, Creation, CreatorAlone
  <2>2. Goto(p, "init")
    BY <1>8 DEF InitMeta, Goto, TypeOK
  <2>3. pc'[p] = "init" /\ Attached' = {}
    BY <1>8, <2>1, <2>2, GoesOn DEF InitMeta, CreatorPcs
  <2>4. meta_idx'[p] = meta_idx[p] + 1 /\ meta_idx[p] \in Metas
    BY <1>8, CallTyped, SharedCacheAssumption DEF InitMeta, TypeOK, Metas
  <2>5. ready' = {m \in Metas : m < meta_idx'[p]}
    <3>1. ready' = {m \in Metas : m < meta_idx[p]} \union {meta_idx[p]}
      BY <1>8, <2>1 DEF InitMeta
    <3>2. \A m \in Metas : m < meta_idx[p] + 1 <=> m < meta_idx[p] \/ m = meta_idx[p]
      BY <2>4, SharedCacheAssumption DEF Metas
    <3> QED
      BY <2>4, <3>1, <3>2
  <2>6. \A s \in Sets, w \in Ways : timestamps'[s][w] = 0
    BY <1>8, <2>1 DEF InitMeta
  <2>7. CreatorAlone(p)'
    BY <1>8, <2>1, <2>3, <2>5, <2>6 DEF InitMeta, CreatorAlone
  <2>8. IdentifiedIsInitialised' /\ \A q \in Procs : q # p => meta_idx'[q] = meta_idx[q]
    BY <1>8, <2>1 DEF InitMeta, IdentifiedIsInitialised, TypeOK
  <2> QED
    BY <1>5, <1>8, <2>1, <2>2, <2>7, <2>8 DEF InitMeta, CreatorPcs
<1>9. ASSUME NEW p \in Procs, WriteMagic(p) PROVE Creation'
  <2>1. Attached = {} /\ file = "full" /\ ready = {m \in Metas : m < METADATA_PAGES}
    BY <1>9 DEF WriteMagic, Creation, CreatorAlone
  <2>2. ready = Metas
    BY <2>1, SharedCacheAssumption DEF Metas
  <2>3. pc'[p] = "path" /\ Attached' = {}
    BY <1>9, <2>1, GoesOn DEF WriteMagic, CreatorPcs
  <2>4. CreatorAlone(p)' /\ IdentifiedIsInitialised'
    BY <1>9, <2>1, <2>2, <2>3 DEF WriteMagic, CreatorAlone, IdentifiedIsInitialised
  <2> QED
    BY <1>5, <1>9, <2>1, <2>4 DEF WriteMagic, CreatorPcs
<1>10. ASSUME NEW p \in Procs, NEW id \in Identities, Open(p, id) PROVE Creation'
  <2>1. Creating' = {} /\ Attached' = Attached \union {p}
    BY <1>10 DEF Open, Goto, TypeOK, Attached, Creating, Detached
  <2>2. magic'
    BY <1>10 DEF Open, verify_identity
  <2>3. \A q \in Procs : pc'[q] \notin CreatorPcs /\ pc[q] \notin CreatorPcs
    BY <1>10, <2>1 DEF Open, Creating, CreatorPcs
  <2>4. \A q \in Procs : CreatorAlone(q)'
    BY <1>10, <2>3 DEF Open, CreatorAlone, Creation, CreatorPcs
  <2> QED
    BY <1>10, <2>1, <2>2, <2>4 DEF Open, Creation, OneCreator, IdentifiedIsInitialised
<1>11. ASSUME NEW p \in Procs, pc[p] \notin CreatorPcs, Goto(p, "off"),
              UNCHANGED <<fileVars, timestamps>>, UNCHANGED initVars
       PROVE  Creation'
  <2>1. Attached' \subseteq Attached /\ Creating' = Creating \ {p} /\ pc'[p] = "off"
    BY <1>11, GoesOff
  <2>2. \A q \in Procs : q # p => pc'[q] = pc[q]
    BY <1>11 DEF Goto, TypeOK
  <2>3. ASSUME NEW q \in Procs PROVE CreatorAlone(q)'
    <3>1. CASE q = p
      BY <1>11, <2>1, <3>1 DEF CreatorAlone, Creation, CreatorPcs
    <3>2. CASE q # p
      BY <1>11, <2>1, <2>2, <3>2 DEF CreatorAlone, Creation, verify_identity
    <3> QED
      BY <3>1, <3>2
  <2> QED
    BY <1>11, <2>1, <2>3 DEF Creation, OneCreator, IdentifiedIsInitialised
<1>12. ASSUME NEW p \in Procs, Drop(p) PROVE Creation'
  BY <1>11, <1>12 DEF Drop, CreatorPcs
<1>13. CASE Delete
  <2>1. \A q \in Procs : pc[q] = "off"
    BY <1>13 DEF Delete, Detached
  <2>2. Creating' = {} /\ Attached' = {}
    BY <1>13, <2>1 DEF Delete, Creating, Attached, Detached
  <2>3. \A q \in Procs : CreatorAlone(q)'
    BY <1>13, <2>1 DEF Delete, CreatorAlone, Creation
  <2> QED
    BY <1>13, <2>2, <2>3 DEF Delete, Creation, OneCreator, IdentifiedIsInitialised
<1>14. ASSUME NEW p \in Procs, Kill(p) PROVE Creation'
  <2>1. Attached' \subseteq Attached /\ Creating' = Creating \ {p} /\ pc'[p] = "off"
    BY <1>14, GoesOff DEF Kill
  <2>2. \A q \in Procs : q # p => /\ pc'[q] = pc[q] /\ meta_idx'[q] = meta_idx[q]
                                  /\ ident'[q] = ident[q]
    BY <1>14 DEF Kill, Goto, TypeOK
  <2>3. meta_idx'[p] = 0
    BY <1>14 DEF Kill, TypeOK
  <2>4. ASSUME NEW q \in Procs PROVE CreatorAlone(q)'
    <3>1. CASE q = p
      BY <2>1, <2>3, <3>1 DEF CreatorAlone
    <3>2. CASE q # p
      BY <1>14, <2>1, <2>2, <3>2 DEF Kill, CreatorAlone, Creation, verify_identity
    <3> QED
      BY <3>1, <3>2
  <2> QED
    BY <1>14, <2>1, <2>4 DEF Kill, Creation, OneCreator, IdentifiedIsInitialised
<1>15. ASSUME NEW p \in Procs, NEW k \in Keys, Get(p, k) PROVE Creation'
  BY <1>15, CallKeepsCreation DEF Get, CreatorPcs
<1>16. ASSUME NEW p \in Procs, NEW k \in Keys, NEW image \in Images[k], Put(p, k, image)
       PROVE Creation'
  BY <1>16, CallKeepsCreation DEF Put, CreatorPcs
<1>17. ASSUME NEW p \in Procs, Lock(p) PROVE Creation'
  BY <1>17, CallKeepsCreation DEF Lock, CreatorPcs
<1>18. ASSUME NEW p \in Procs, GetHit(p) PROVE Creation'
  BY <1>18, CallKeepsCreation DEF GetHit, CreatorPcs
<1>19. ASSUME NEW p \in Procs, GetMiss(p) PROVE Creation'
  BY <1>19, CallKeepsCreation DEF GetMiss, CreatorPcs
<1>20. ASSUME NEW p \in Procs, PutFind(p) PROVE Creation'
  BY <1>20, CallKeepsCreation DEF PutFind, CreatorPcs
<1>21. ASSUME NEW p \in Procs, PutCopied(p) PROVE Creation'
  BY <1>21, CallKeepsCreation DEF PutCopied, CreatorPcs
<1>22. ASSUME NEW p \in Procs, PutKey(p) PROVE Creation'
  BY <1>22, CallKeepsCreation DEF PutKey, CreatorPcs
<1>23. ASSUME NEW p \in Procs, Decay(p) PROVE Creation'
  BY <1>23, CallKeepsCreation DEF Decay, CreatorPcs
<1>24. ASSUME NEW p \in Procs, Stamp(p) PROVE Creation'
  BY <1>24, CallKeepsCreation DEF Stamp, CreatorPcs
<1>25. ASSUME NEW p \in Procs, Unlock(p) PROVE Creation'
  BY <1>25, CallKeepsCreation DEF Unlock, CreatorPcs
<1>26. CASE UNCHANGED vars
  BY <1>26 DEF vars, Creation, OneCreator, IdentifiedIsInitialised, CreatorAlone, Creating,
               Attached, Detached, verify_identity
<1> QED
  BY <1>1, <1>3, <1>4, <1>6, <1>7, <1>8, <1>9, <1>10, <1>12, <1>13, <1>14, <1>15, <1>16,
     <1>17, <1>18, <1>19, <1>20, <1>21, <1>22, <1>23, <1>24, <1>25, <1>26
     DEF Next, Call, Step

\* cache.rs, open: whoever is attached works on a file whose every mutex and set
\* has been through init_metadata, provided that processes do not create the
\* cache at the same time: with kills at any step of a create.
THEOREM OpenedAfterInitialisation ==
    ASSUME MaxCreators <= 1
    PROVE  Spec => []OpenedIsInitialised
<1>1. Init => TypeOK /\ Creation
  BY InitType, InitCreation
<1>2. TypeOK /\ Creation /\ [Next]_vars => (TypeOK /\ Creation)'
  BY StepType, StepCreation
<1>3. Creation => OpenedIsInitialised
  BY DEF Creation, IdentifiedIsInitialised, OpenedIsInitialised
<1> QED
  BY <1>1, <1>2, <1>3, PTL DEF Spec

-----------------------------------------------------------------------------
(* Calls.  A process inside a call owns the mutex of its sets, and the way *)
(* it is about to give its key is the only one that may hold the key.      *)

OwnsMutex == \A p \in Procs : pc[p] \in Inside => owner[meta_of(p)] = p

PutsAlone ==
    \A p \in Procs : pc[p] \in {"put_copy", "put_key"} =>
        \A v \in Ways : page_ids[set_of(p)][v] = key[p] => v = way[p]

Exclusive == OwnsMutex /\ PutsAlone /\ KeysPlaced

\* Two processes inside calls are in sets of different mutexes.
LEMMA MutualExclusion ==
    ASSUME OwnsMutex, NEW p \in Procs, NEW q \in Procs, q # p,
           pc[p] \in Inside, pc[q] \in Inside
    PROVE  meta_of(q) # meta_of(p) /\ set_of(q) # set_of(p)
  BY DEF OwnsMutex, meta_of, set_of

\* While metadata is being initialised nobody is in a call.
LEMMA NobodyInside ==
    ASSUME Attached = {}, NEW p \in Procs
    PROVE  pc[p] \notin Inside
  BY DEF Attached, Creating, Detached, Inside

LEMMA InitExclusive == Init => Exclusive
  BY DEF Init, Exclusive, OwnsMutex, PutsAlone, KeysPlaced, Inside

\* Puts that go on as they are stay alone.
LEMMA PutsStayAlone ==
    ASSUME PutsAlone, UNCHANGED page_ids,
           \A q \in Procs : pc'[q] \in {"put_copy", "put_key"} =>
               /\ pc[q] \in {"put_copy", "put_key"}
               /\ key'[q] = key[q]
               /\ way'[q] = way[q]
    PROVE  PutsAlone'
<1> SUFFICES ASSUME NEW q \in Procs, pc'[q] \in {"put_copy", "put_key"}, NEW v \in Ways,
                    page_ids[set_of(q)'][v] = key'[q]
             PROVE  v = way'[q]
  BY DEF PutsAlone
<1>1. set_of(q)' = set_of(q)
  BY DEF set_of, locate
<1> QED
  BY <1>1 DEF PutsAlone

\* A step after which p is in no call, that changes neither keys nor mutexes.
LEMMA OutsideKeepsExclusive ==
    ASSUME TypeOK, Exclusive, NEW p \in Procs, NEW label, label \notin Inside, Goto(p, label),
           UNCHANGED <<page_ids, ready, owner>>,
           \A q \in Procs : q # p => key'[q] = key[q] /\ way'[q] = way[q]
    PROVE  Exclusive'
<1>1. pc'[p] \notin Inside /\ \A q \in Procs : q # p => pc'[q] = pc[q]
  BY DEF Goto, TypeOK
<1>2. OwnsMutex'
  BY <1>1 DEF Exclusive, OwnsMutex, meta_of, locate
<1>3. PutsAlone'
  <2>1. \A q \in Procs : pc'[q] \in {"put_copy", "put_key"} => q # p
    BY <1>1 DEF Inside
  <2> QED
    BY <1>1, <2>1, PutsStayAlone DEF Exclusive
<1>4. KeysPlaced'
  BY DEF Exclusive, KeysPlaced, locate
<1> QED
  BY <1>2, <1>3, <1>4 DEF Exclusive

\* A step of p within a call, that changes neither keys nor mutexes.
LEMMA InsideKeepsExclusive ==
    ASSUME TypeOK, Exclusive, NEW p \in Procs, pc[p] \in Inside, NEW label, Goto(p, label),
           label \in {"put_copy", "put_key"} =>
               \A v \in Ways : page_ids[set_of(p)][v] = key[p] => v = way'[p],
           UNCHANGED <<page_ids, ready, owner, key>>,
           \A q \in Procs : q # p => way'[q] = way[q]
    PROVE  Exclusive'
<1>1. pc'[p] = label /\ \A q \in Procs : q # p => pc'[q] = pc[q]
  BY DEF Goto, TypeOK
<1>2. OwnsMutex'
  BY <1>1 DEF Exclusive, OwnsMutex, meta_of, locate
<1>3. PutsAlone'
  BY <1>1 DEF Exclusive, PutsAlone, set_of, locate
<1>4. KeysPlaced'
  BY DEF Exclusive, KeysPlaced, locate
<1> QED
  BY <1>2, <1>3, <1>4 DEF Exclusive

\* A step by which p leaves its call and its mutex, in whatever state.
LEMMA LeavingKeepsExclusive ==
    ASSUME TypeOK, Exclusive, NEW p \in Procs, NEW label, label \notin Inside, Goto(p, label),
           NEW to, owner' = IF pc[p] \in Inside THEN [owner EXCEPT ![meta_of(p)] = to] ELSE owner,
           UNCHANGED <<page_ids, ready>>, EndCall(p)
    PROVE  Exclusive'
<1>1. /\ pc'[p] \notin Inside
      /\ \A q \in Procs : q # p => pc'[q] = pc[q] /\ key'[q] = key[q] /\ way'[q] = way[q]
  BY DEF Goto, TypeOK, EndCall
<1>2. OwnsMutex'
  <2>1. SUFFICES ASSUME NEW q \in Procs, pc'[q] \in Inside PROVE owner'[meta_of(q)'] = q
    BY DEF OwnsMutex
  <2>2. q # p /\ pc[q] \in Inside
    BY <1>1, <2>1
  <2>3. meta_of(q)' = meta_of(q) /\ owner[meta_of(q)] = q /\ meta_of(q) \in Metas
    BY <1>1, <2>2, CallTyped DEF meta_of, locate, Exclusive, OwnsMutex
  <2>4. pc[p] \in Inside => meta_of(q) # meta_of(p)
    BY <2>2, MutualExclusion DEF Exclusive
  <2> QED
    BY <2>3, <2>4 DEF TypeOK
<1>3. PutsAlone'
  <2>1. \A q \in Procs : pc'[q] \in {"put_copy", "put_key"} => q # p
    BY <1>1 DEF Inside
  <2> QED
    BY <1>1, <2>1, PutsStayAlone DEF Exclusive
<1>4. KeysPlaced'
  BY DEF Exclusive, KeysPlaced, locate
<1> QED
  BY <1>2, <1>3, <1>4 DEF Exclusive

\* The metadata of the file changes, and nobody is in a call.
LEMMA AloneKeepsExclusive ==
    ASSUME \A q \in Procs : pc'[q] \notin Inside, KeysPlaced'
    PROVE  Exclusive'
  BY DEF Exclusive, OwnsMutex, PutsAlone, Inside

\* While a process is attached, all sets are ready.
LEMMA AttachedReady ==
    ASSUME Creation, NEW p \in Procs, pc[p] \in Inside
    PROVE  ready = Metas
<1>1. p \in Attached
  BY DEF Attached, Creating, Detached, Inside
<1> QED
  BY <1>1 DEF Creation, IdentifiedIsInitialised

LEMMA StepExclusive ==
    ASSUME TypeOK, Creation, Exclusive, [Next]_vars
    PROVE  Exclusive'
<1> USE DEF fileVars, setVars, callVars, initVars, histVars
<1>1. ASSUME NEW p \in Procs, NEW id \in Identities, Create(p, id) PROVE Exclusive'
  BY <1>1, OutsideKeepsExclusive DEF Create, Inside
<1>2. ASSUME NEW p \in Procs, CreateNothing(p) PROVE Exclusive'
  BY <1>2, OutsideKeepsExclusive DEF CreateNothing, Created, Inside
<1>3. ASSUME NEW p \in Procs, Ftruncate(p) PROVE Exclusive'
  BY <1>3, OutsideKeepsExclusive DEF Ftruncate, Inside
<1>4. ASSUME NEW p \in Procs, ZeroMetadata(p) PROVE Exclusive'
  <2>1. Attached = {}
    BY <1>4 DEF ZeroMetadata, Creation, CreatorAlone
  <2>2. \A q \in Procs : pc'[q] \notin Inside
    BY <1>4, <2>1, NobodyInside DEF ZeroMetadata, Goto, TypeOK, Inside
  <2>3. KeysPlaced'
    BY <1>4 DEF ZeroMetadata, KeysPlaced
  <2> QED
    BY <2>2, <2>3, AloneKeepsExclusive
<1>5. ASSUME NEW p \in Procs, InitMeta(p) PROVE Exclusive'
  <2>1. Attached = {}
    BY <1>5 DEF InitMeta, Creation, CreatorAlone
  <2>2. \A q \in Procs : pc'[q] \notin Inside
    BY <1>5, <2>1, NobodyInside DEF InitMeta
  <2>3. ASSUME NEW s \in Sets, s[1] \in ready', NEW w \in Ways, page_ids'[s][w] # EMPTY_KEY
        PROVE  s[1] \in ready /\ page_ids'[s] = page_ids[s]
    BY <1>5, <2>3 DEF InitMeta
  <2>4. KeysPlaced'
    BY <2>3 DEF KeysPlaced, Exclusive, locate
  <2> QED
    BY <2>2, <2>4, AloneKeepsExclusive
<1>6. ASSUME NEW p \in Procs, WriteMagic(p) PROVE Exclusive'
  BY <1>6, OutsideKeepsExclusive DEF WriteMagic, Inside
<1>7. ASSUME NEW p \in Procs, WritePath(p) PROVE Exclusive'
  BY <1>7, OutsideKeepsExclusive DEF WritePath, Created, Inside
<1>8. ASSUME NEW p \in Procs, NEW id \in Identities, Open(p, id) PROVE Exclusive'
  BY <1>8, OutsideKeepsExclusive DEF Open, Inside
<1>9. ASSUME NEW p \in Procs, Drop(p) PROVE Exclusive'
  BY <1>9, OutsideKeepsExclusive DEF Drop, Inside
<1>10. CASE Delete
  <2>1. \A q \in Procs : pc'[q] \notin Inside
    BY <1>10 DEF Delete, Detached, Inside
  <2>2. KeysPlaced'
    BY <1>10 DEF Delete, KeysPlaced
  <2> QED
    BY <2>1, <2>2, AloneKeepsExclusive
<1>11. ASSUME NEW p \in Procs, NEW k \in Keys, Get(p, k) PROVE Exclusive'
  BY <1>11, OutsideKeepsExclusive DEF Get, Inside, TypeOK
<1>12. ASSUME NEW p \in Procs, NEW k \in Keys, NEW image \in Images[k], Put(p, k, image)
       PROVE Exclusive'
  BY <1>12, OutsideKeepsExclusive DEF Put, Inside, TypeOK
<1>13. ASSUME NEW p \in Procs, Lock(p) PROVE Exclusive'
  <2>1. /\ pc'[p] \notin {"put_copy", "put_key"}
        /\ \A q \in Procs : q # p => pc'[q] = pc[q]
    BY <1>13 DEF Lock, Goto, TypeOK
  <2>2. ASSUME NEW q \in Procs, pc'[q] \in Inside PROVE owner'[meta_of(q)'] = q
    <3>1. meta_of(q)' = meta_of(q) /\ meta_of(q) \in Metas
      BY <1>13, CallTyped DEF Lock, meta_of, locate
    <3>2. CASE q = p
      BY <1>13, <3>1, <3>2 DEF Lock, TypeOK
    <3>3. CASE q # p
      <4>1. owner[meta_of(q)] = q
        BY <2>1, <2>2, <3>3 DEF Exclusive, OwnsMutex
      <4>2. owner[meta_of(p)] # q
        BY <1>13, SharedCacheAssumption DEF Lock, lockable
      <4> QED
        BY <1>13, <3>1, <4>1, <4>2 DEF Lock, TypeOK
    <3> QED
      BY <3>2, <3>3
  <2>3. OwnsMutex'
    BY <2>2 DEF OwnsMutex
  <2>4. PutsAlone'
    BY <1>13, <2>1, PutsStayAlone DEF Lock, Exclusive
  <2>5. KeysPlaced'
    BY <1>13 DEF Lock, Exclusive, KeysPlaced, locate
  <2> QED
    BY <2>3, <2>4, <2>5 DEF Exclusive
<1>14. ASSUME NEW p \in Procs, GetHit(p) PROVE Exclusive'
  <2>1. \A q \in Procs : q # p => way'[q] = way[q]
    BY <1>14 DEF GetHit, TypeOK
  <2> QED
    BY <1>14, <2>1, InsideKeepsExclusive DEF GetHit, Inside
<1>15. ASSUME NEW p \in Procs, GetMiss(p) PROVE Exclusive'
  BY <1>15, InsideKeepsExclusive DEF GetMiss, Inside
<1>16. ASSUME NEW p \in Procs, PutFind(p) PROVE Exclusive'
  <2>1. PICK w \in target(set_of(p), key[p]) : way' = [way EXCEPT ![p] = w]
    BY <1>16 DEF PutFind
  <2>2. way'[p] = w /\ \A q \in Procs : q # p => way'[q] = way[q]
    BY <2>1 DEF TypeOK
  <2>3. ASSUME NEW v \in Ways, page_ids[set_of(p)][v] = key[p] PROVE v = w
    <3>1. v \in ways_of(set_of(p), key[p])
      BY <2>3 DEF ways_of
    <3>2. w \in Ways /\ page_ids[set_of(p)][w] = key[p]
      BY <3>1 DEF target, first, ways_of
    <3>3. set_of(p) \in Sets /\ set_of(p)[1] \in ready /\ key[p] # EMPTY_KEY
      BY <1>16, CallTyped, AttachedReady, SharedCacheAssumption
         DEF PutFind, Inside, meta_of, set_of, EMPTY_KEY
    <3> QED
      BY <2>3, <3>2, <3>3 DEF Exclusive, KeysPlaced
  <2> QED
    BY <1>16, <2>2, <2>3, InsideKeepsExclusive DEF PutFind, Inside
<1>17. ASSUME NEW p \in Procs, PutCopied(p) PROVE Exclusive'
  <2>1. \A v \in Ways : page_ids[set_of(p)][v] = key[p] => v = way[p]
    BY <1>17 DEF PutCopied, Exclusive, PutsAlone
  <2> QED
    BY <1>17, <2>1, InsideKeepsExclusive DEF PutCopied, Inside
<1>18. ASSUME NEW p \in Procs, PutKey(p) PROVE Exclusive'
  <2> DEFINE s == set_of(p)
             w == way[p]
  <2>1. /\ s \in Sets /\ w \in Ways /\ key[p] \in Keys
        /\ pc[p] \in Inside /\ pc'[p] = "decay"
        /\ \A q \in Procs : q # p => pc'[q] = pc[q]
    BY <1>18, CallTyped DEF PutKey, Goto, TypeOK, Inside
  <2>2. /\ page_ids'[s][w] = key[p]
        /\ \A v \in Ways : v # w => page_ids'[s][v] = page_ids[s][v]
        /\ \A t \in Sets : t # s => page_ids'[t] = page_ids[t]
    BY <1>18, <2>1 DEF PutKey, TypeOK
  <2>3. \A v \in Ways : page_ids[s][v] = key[p] => v = w
    BY <1>18 DEF PutKey, Exclusive, PutsAlone
  <2>4. OwnsMutex'
    BY <1>18, <2>1 DEF PutKey, Exclusive, OwnsMutex, meta_of, locate, Inside
  <2>5. ASSUME NEW q \in Procs, pc'[q] \in {"put_copy", "put_key"}, NEW v \in Ways,
               page_ids'[set_of(q)'][v] = key'[q]
        PROVE  v = way'[q]
    <3>1. q # p /\ pc[q] = pc'[q] /\ set_of(q)' = set_of(q)
      BY <1>18, <2>1, <2>5 DEF PutKey, set_of, locate
    <3>2. set_of(q) # s /\ set_of(q) \in Sets
      BY <2>1, <2>5, <3>1, MutualExclusion, CallTyped DEF Exclusive, Inside
    <3> QED
      BY <1>18, <2>2, <2>5, <3>1, <3>2 DEF PutKey, Exclusive, PutsAlone
  <2>6. PutsAlone'
    BY <2>5 DEF PutsAlone
  <2>7. ASSUME NEW t \in Sets, t[1] \in ready, NEW v \in Ways, page_ids'[t][v] # EMPTY_KEY
        PROVE  /\ locate(page_ids'[t][v]) = t
               /\ \A u \in Ways : page_ids'[t][u] = page_ids'[t][v] => u = v
    <3>1. CASE t # s
      BY <2>2, <2>7, <3>1 DEF Exclusive, KeysPlaced
    <3>2. CASE t = s /\ v = w
      BY <2>2, <2>3, <3>2 DEF set_of
    <3>3. CASE t = s /\ v # w
      BY <2>2, <2>3, <2>7, <3>3 DEF Exclusive, KeysPlaced
    <3> QED
      BY <3>1, <3>2, <3>3
  <2>8. KeysPlaced'
    BY <1>18, <2>7 DEF PutKey, KeysPlaced, locate
  <2> QED
    BY <2>4, <2>6, <2>8 DEF Exclusive
<1>19. ASSUME NEW p \in Procs, Decay(p) PROVE Exclusive'
  BY <1>19, InsideKeepsExclusive DEF Decay, Inside
<1>20. ASSUME NEW p \in Procs, Stamp(p) PROVE Exclusive'
  BY <1>20, InsideKeepsExclusive DEF Stamp, Inside
<1>21. ASSUME NEW p \in Procs, Unlock(p) PROVE Exclusive'
  BY <1>21, LeavingKeepsExclusive DEF Unlock, Inside
<1>22. ASSUME NEW p \in Procs, Kill(p) PROVE Exclusive'
  BY <1>22, LeavingKeepsExclusive DEF Kill, Inside
<1>23. CASE UNCHANGED vars
  <2>1. UNCHANGED <<pc, key, way, page_ids, ready, owner>>
    BY <1>23 DEF vars
  <2>2. OwnsMutex'
    BY <2>1 DEF Exclusive, OwnsMutex, meta_of, locate
  <2>3. PutsAlone'
    BY <2>1 DEF Exclusive, PutsAlone, set_of, locate
  <2>4. KeysPlaced'
    BY <2>1 DEF Exclusive, KeysPlaced, locate
  <2> QED
    BY <2>2, <2>3, <2>4 DEF Exclusive
<1> QED
  BY <1>1, <1>2, <1>3, <1>4, <1>5, <1>6, <1>7, <1>8, <1>9, <1>10, <1>11, <1>12, <1>13,
     <1>14, <1>15, <1>16, <1>17, <1>18, <1>19, <1>20, <1>21, <1>22, <1>23
     DEF Next, Call, Step

\* cache.rs, put: a key is in one way of its set at most, and in no other set,
\* whichever processes put it at the same time, make room or are killed over a
\* slot.
THEOREM KeysAlwaysPlaced ==
    ASSUME MaxCreators <= 1
    PROVE  Spec => []KeysPlaced
<1>1. Init => TypeOK /\ Creation /\ Exclusive
  BY InitType, InitCreation, InitExclusive
<1>2. TypeOK /\ Creation /\ Exclusive /\ [Next]_vars => (TypeOK /\ Creation /\ Exclusive)'
  BY StepType, StepCreation, StepExclusive
<1>3. Exclusive => KeysPlaced
  BY DEF Exclusive
<1> QED
  BY <1>1, <1>2, <1>3, PTL DEF Spec

-----------------------------------------------------------------------------
(* Order of use.  A way that was used longer ago than another has a lower  *)
(* timestamp, unless both have run down to 0.                              *)

StampsFollowUse ==
    \A s \in Sets, v, w \in Ways : <<v, w>> \in older[s] =>
        \/ timestamps[s][v] < timestamps[s][w]
        \/ timestamps[s][v] = 0 /\ timestamps[s][w] = 0

Decayed ==
    \A p \in Procs : pc[p] = "stamp" =>
        \A w \in Ways : timestamps[set_of(p)][w] < U8_MAX

\* The way that p is about to give to its key.
MayGo(p) ==
    \/ page_ids[set_of(p)][way[p]] \in {key[p], EMPTY_KEY}
    \/ \A v \in Ways : timestamps[set_of(p)][way[p]] <= timestamps[set_of(p)][v]

VictimChosen == \A p \in Procs : pc[p] \in {"put_copy", "put_key"} => MayGo(p)

Usage == StampsFollowUse /\ Decayed /\ VictimChosen

Less == {pair \in Nat \X Nat : pair[1] < pair[2]}

\* A set of naturals that is not empty has a least element.
LEMMA Least ==
    ASSUME NEW T, T \subseteq Nat, T # {}
    PROVE  \E n \in T : \A m \in T : n <= m
<1>1. IsWellFoundedOn(Less, Nat)
  BY NatLessThanWellFounded DEF OpToRel, Less
<1>2. \E n \in T : \A m \in T : ~(<<m, n>> \in Less)
  BY <1>1, WFMin
<1>3. \A n, m \in T : <<m, n>> \in Less <=> m < n
  BY DEF Less
<1>4. \A n, m \in T : ~(m < n) => n <= m
  OBVIOUS
<1> QED
  BY <1>2, <1>3, <1>4

\* When no way is the oldest, all have the greatest timestamp.
LEMMA NoOldest ==
    ASSUME TypeOK, NEW s \in Sets, oldest(s) = {}, NEW w \in Ways
    PROVE  timestamps[s][w] = U8_MAX
<1> DEFINE stamps == {timestamps[s][v] : v \in Ways}
<1>1. /\ U8_MAX \in Nat
      /\ \A v \in Ways : timestamps[s][v] \in Nat /\ timestamps[s][v] <= U8_MAX
  BY SharedCacheAssumption DEF TypeOK
<1>2. PICK n \in stamps : \A m \in stamps : n <= m
  BY <1>1, Least
<1>3. PICK v \in Ways : timestamps[s][v] = n
  BY <1>2
<1>4. \A u \in Ways : timestamps[s][v] <= timestamps[s][u]
  BY <1>2, <1>3
<1>5. ~(timestamps[s][v] < U8_MAX)
  BY <1>4 DEF oldest
<1>6. timestamps[s][v] <= timestamps[s][w]
  BY <1>4
<1> QED
  BY <1>1, <1>5, <1>6

LEMMA InitUsage == Init => Usage
  BY DEF Init, NoneOlder, Usage, StampsFollowUse, Decayed, VictimChosen

\* A step of p that changes no set, and after which p is about to change none.
LEMMA QuietKeepsUsage ==
    ASSUME TypeOK, Usage, NEW p \in Procs, NEW label, Goto(p, label),
           label \notin {"stamp", "put_copy", "put_key"},
           UNCHANGED <<page_ids, timestamps, older>>,
           \A q \in Procs : q # p => key'[q] = key[q] /\ way'[q] = way[q]
    PROVE  Usage'
<1>1. pc'[p] = label /\ \A q \in Procs : q # p => pc'[q] = pc[q]
  BY DEF Goto, TypeOK
<1>2. StampsFollowUse'
  BY DEF Usage, StampsFollowUse
<1>3. Decayed'
  BY <1>1 DEF Usage, Decayed, set_of, locate
<1>4. VictimChosen'
  BY <1>1 DEF Usage, VictimChosen, MayGo, set_of, locate
<1> QED
  BY <1>2, <1>3, <1>4 DEF Usage

\* The metadata of the file changes, and nobody is in a call.
LEMMA AloneKeepsUsage ==
    ASSUME \A q \in Procs : pc'[q] \notin Inside, StampsFollowUse'
    PROVE  Usage'
  BY DEF Usage, Decayed, VictimChosen, Inside

\* A step of p that changes nothing but its own set leaves the others' as they
\* are, and the ways that they have found.
LEMMA OthersKeepUsage ==
    ASSUME TypeOK, OwnsMutex, Usage, NEW p \in Procs, pc[p] \in Inside,
           \A q \in Procs : q # p => pc'[q] = pc[q],
           UNCHANGED <<key, way>>,
           \A s \in Sets : s # set_of(p) => page_ids'[s] = page_ids[s] /\ timestamps'[s] = timestamps[s],
           NEW q \in Procs, q # p
    PROVE  /\ pc'[q] = "stamp" => \A w \in Ways : timestamps'[set_of(q)'][w] < U8_MAX
           /\ pc'[q] \in {"put_copy", "put_key"} => MayGo(q)'
<1>1. set_of(q)' = set_of(q) /\ set_of(q) \in Sets
  BY CallTyped DEF set_of, locate
<1>2. pc'[q] \in {"stamp", "put_copy", "put_key"} => set_of(q) # set_of(p)
  BY MutualExclusion DEF Inside
<1> QED
  BY <1>1, <1>2 DEF Usage, Decayed, VictimChosen, MayGo

LEMMA StepUsage ==
    ASSUME TypeOK, Creation, Exclusive, Usage, [Next]_vars
    PROVE  Usage'
<1> USE DEF fileVars, setVars, callVars, initVars, histVars
<1>1. ASSUME NEW p \in Procs, NEW id \in Identities, Create(p, id) PROVE Usage'
  BY <1>1, QuietKeepsUsage DEF Create
<1>2. ASSUME NEW p \in Procs, CreateNothing(p) PROVE Usage'
  BY <1>2, QuietKeepsUsage DEF CreateNothing, Created
<1>3. ASSUME NEW p \in Procs, Ftruncate(p) PROVE Usage'
  BY <1>3, QuietKeepsUsage DEF Ftruncate
<1>4. ASSUME NEW p \in Procs, ZeroMetadata(p) PROVE Usage'
  <2>1. Attached = {}
    BY <1>4 DEF ZeroMetadata, Creation, CreatorAlone
  <2>2. \A q \in Procs : pc'[q] \notin Inside
    BY <1>4, <2>1, NobodyInside DEF ZeroMetadata, Goto, TypeOK, Inside
  <2>3. StampsFollowUse'
    BY <1>4 DEF ZeroMetadata, NoneOlder, StampsFollowUse
  <2> QED
    BY <2>2, <2>3, AloneKeepsUsage
<1>5. ASSUME NEW p \in Procs, InitMeta(p) PROVE Usage'
  <2>1. Attached = {} /\ \A s \in Sets, w \in Ways : timestamps[s][w] = 0
    BY <1>5 DEF InitMeta, Creation, CreatorAlone
  <2>2. \A q \in Procs : pc'[q] \notin Inside
    BY <1>5, <2>1, NobodyInside DEF InitMeta
  <2>3. \A s \in Sets, w \in Ways : timestamps'[s][w] = 0
    BY <1>5, <2>1 DEF InitMeta
  <2>4. StampsFollowUse'
    BY <2>3 DEF StampsFollowUse
  <2> QED
    BY <2>2, <2>4, AloneKeepsUsage
<1>6. ASSUME NEW p \in Procs, WriteMagic(p) PROVE Usage'
  BY <1>6, QuietKeepsUsage DEF WriteMagic
<1>7. ASSUME NEW p \in Procs, WritePath(p) PROVE Usage'
  BY <1>7, QuietKeepsUsage DEF WritePath, Created
<1>8. ASSUME NEW p \in Procs, NEW id \in Identities, Open(p, id) PROVE Usage'
  BY <1>8, QuietKeepsUsage DEF Open
<1>9. ASSUME NEW p \in Procs, Drop(p) PROVE Usage'
  BY <1>9, QuietKeepsUsage DEF Drop
<1>10. CASE Delete
  <2>1. \A q \in Procs : pc'[q] \notin Inside
    BY <1>10 DEF Delete, Detached, Inside
  <2>2. StampsFollowUse'
    BY <1>10 DEF Delete, NoneOlder, StampsFollowUse
  <2> QED
    BY <2>1, <2>2, AloneKeepsUsage
<1>11. ASSUME NEW p \in Procs, NEW k \in Keys, Get(p, k) PROVE Usage'
  BY <1>11, QuietKeepsUsage DEF Get, TypeOK
<1>12. ASSUME NEW p \in Procs, NEW k \in Keys, NEW image \in Images[k], Put(p, k, image)
       PROVE Usage'
  BY <1>12, QuietKeepsUsage DEF Put, TypeOK
<1>13. ASSUME NEW p \in Procs, Lock(p) PROVE Usage'
  BY <1>13, QuietKeepsUsage DEF Lock
<1>14. ASSUME NEW p \in Procs, GetHit(p) PROVE Usage'
  <2>1. \A q \in Procs : q # p => way'[q] = way[q]
    BY <1>14 DEF GetHit, TypeOK
  <2> QED
    BY <1>14, <2>1, QuietKeepsUsage DEF GetHit
<1>15. ASSUME NEW p \in Procs, GetMiss(p) PROVE Usage'
  BY <1>15, QuietKeepsUsage DEF GetMiss
<1>16. ASSUME NEW p \in Procs, PutFind(p) PROVE Usage'
  <2> DEFINE s == set_of(p)
  <2>1. PICK w \in target(s, key[p]) : way' = [way EXCEPT ![p] = w]
    BY <1>16 DEF PutFind
  <2>2. /\ way'[p] = w /\ w \in Ways /\ s \in Sets
        /\ \A q \in Procs : q # p => way'[q] = way[q] /\ pc'[q] = pc[q]
    BY <1>16, <2>1, TargetType, CallTyped DEF PutFind, Goto, TypeOK
  <2>3. \/ page_ids[s][w] \in {key[p], EMPTY_KEY}
        \/ \A v \in Ways : timestamps[s][w] <= timestamps[s][v]
    <3>1. CASE oldest(s) = {}
      <4>1. \A v \in Ways : timestamps[s][w] <= timestamps[s][v]
        BY <2>2, <3>1, NoOldest, SharedCacheAssumption
      <4> QED
        BY <4>1
    <3>2. CASE oldest(s) # {}
      BY <2>1, <3>2 DEF target, first, ways_of, oldest
    <3> QED
      BY <3>1, <3>2
  <2>4. MayGo(p)'
    BY <1>16, <2>2, <2>3 DEF PutFind, MayGo, set_of, locate
  <2>5. \A q \in Procs : q # p /\ pc'[q] \in {"put_copy", "put_key"} => MayGo(q)'
    BY <1>16, <2>2 DEF PutFind, Usage, VictimChosen, MayGo, set_of, locate
  <2>6. VictimChosen'
    BY <2>4, <2>5 DEF VictimChosen
  <2>7. Decayed'
    BY <1>16 DEF PutFind, Goto, TypeOK, Usage, Decayed, set_of, locate
  <2>8. StampsFollowUse'
    BY <1>16 DEF PutFind, Usage, StampsFollowUse
  <2> QED
    BY <2>6, <2>7, <2>8 DEF Usage
<1>17. ASSUME NEW p \in Procs, PutCopied(p) PROVE Usage'
  <2>1. VictimChosen'
    BY <1>17 DEF PutCopied, Goto, TypeOK, Usage, VictimChosen, MayGo, set_of, locate
  <2>2. Decayed'
    BY <1>17 DEF PutCopied, Goto, TypeOK, Usage, Decayed, set_of, locate
  <2>3. StampsFollowUse'
    BY <1>17 DEF PutCopied, Usage, StampsFollowUse
  <2> QED
    BY <2>1, <2>2, <2>3 DEF Usage
<1>18. ASSUME NEW p \in Procs, PutKey(p) PROVE Usage'
  <2>1. pc[p] \in Inside /\ pc'[p] = "decay" /\ \A q \in Procs : q # p => pc'[q] = pc[q]
    BY <1>18 DEF PutKey, Goto, TypeOK, Inside
  <2>2. \A s \in Sets : s # set_of(p) => page_ids'[s] = page_ids[s] /\ timestamps'[s] = timestamps[s]
    BY <1>18 DEF PutKey, TypeOK
  <2>3. Decayed' /\ VictimChosen'
    BY <1>18, <2>1, <2>2, OthersKeepUsage DEF PutKey, Exclusive, Decayed, VictimChosen
  <2>4. StampsFollowUse'
    BY <1>18 DEF PutKey, Usage, StampsFollowUse
  <2> QED
    BY <2>3, <2>4 DEF Usage
<1>19. ASSUME NEW p \in Procs, Decay(p) PROVE Usage'
  <2> DEFINE s == set_of(p)
             lower(t) == IF t = 0 THEN 0 ELSE t - 1
  <2>1. pc[p] \in Inside /\ s \in Sets /\ \A q \in Procs : q # p => pc'[q] = pc[q]
    BY <1>19, CallTyped DEF Decay, Goto, TypeOK, Inside
  <2>2. /\ \A w \in Ways : timestamps'[s][w] = lower(timestamps[s][w])
        /\ \A t \in Sets : t # s => page_ids'[t] = page_ids[t] /\ timestamps'[t] = timestamps[t]
    BY <1>19, <2>1 DEF Decay, TypeOK
  <2>3. \A w \in Ways : timestamps[s][w] \in 0..U8_MAX
    BY <2>1 DEF TypeOK
  <2>4. set_of(p)' = s /\ \A w \in Ways : timestamps'[s][w] < U8_MAX
    <3>1. set_of(p)' = s
      BY <1>19 DEF Decay, set_of, locate
    <3>2. U8_MAX \in Nat \ {0} /\ \A t \in 0..U8_MAX : lower(t) < U8_MAX
      BY SharedCacheAssumption
    <3> QED
      BY <2>2, <2>3, <3>1, <3>2
  <2>5. Decayed' /\ VictimChosen'
    <3>1. pc'[p] = "stamp"
      BY <1>19 DEF Decay, Goto, TypeOK
    <3> QED
      BY <1>19, <2>1, <2>2, <2>4, <3>1, OthersKeepUsage DEF Decay, Exclusive, Decayed, VictimChosen
  <2>6. ASSUME NEW t \in Sets, NEW v \in Ways, NEW w \in Ways, <<v, w>> \in older[t]
        PROVE  \/ timestamps'[t][v] < timestamps'[t][w]
               \/ timestamps'[t][v] = 0 /\ timestamps'[t][w] = 0
    <3>1. \/ timestamps[t][v] < timestamps[t][w]
          \/ timestamps[t][v] = 0 /\ timestamps[t][w] = 0
      BY <2>6 DEF Usage, StampsFollowUse
    <3>2. CASE t # s
      BY <2>2, <3>1, <3>2
    <3>3. CASE t = s
      BY <2>2, <2>3, <3>1, <3>3
    <3> QED
      BY <3>2, <3>3
  <2>7. StampsFollowUse'
    BY <1>19, <2>6 DEF Decay, StampsFollowUse
  <2> QED
    BY <2>5, <2>7 DEF Usage
<1>20. ASSUME NEW p \in Procs, Stamp(p) PROVE Usage'
  <2> DEFINE s == set_of(p)
             used == way[p]
  <2>1. /\ pc[p] \in Inside /\ s \in Sets /\ used \in Ways /\ pc'[p] = "unlock"
        /\ \A q \in Procs : q # p => pc'[q] = pc[q]
    BY <1>20, CallTyped DEF Stamp, Goto, TypeOK, Inside
  <2>2. /\ timestamps'[s][used] = U8_MAX
        /\ \A w \in Ways : w # used => timestamps'[s][w] = timestamps[s][w]
        /\ \A t \in Sets : t # s => page_ids'[t] = page_ids[t] /\ timestamps'[t] = timestamps[t]
    BY <1>20, <2>1 DEF Stamp, TypeOK
  <2>3. Decayed' /\ VictimChosen'
    BY <1>20, <2>1, <2>2, OthersKeepUsage DEF Stamp, Exclusive, Decayed, VictimChosen
  <2>4. /\ \A t \in Sets : t # s => older'[t] = older[t]
        /\ older'[s] = {pair \in older[s] : pair[1] # used} \union ((Ways \ {used}) \X {used})
    BY <1>20, <2>1 DEF Stamp, TypeOK
  <2>5. \A w \in Ways : timestamps[s][w] < U8_MAX
    BY <1>20 DEF Stamp, Usage, Decayed
  <2>6. ASSUME NEW t \in Sets, NEW v \in Ways, NEW w \in Ways, <<v, w>> \in older'[t]
        PROVE  \/ timestamps'[t][v] < timestamps'[t][w]
               \/ timestamps'[t][v] = 0 /\ timestamps'[t][w] = 0
    <3>1. CASE t # s
      BY <2>2, <2>4, <2>6, <3>1 DEF Usage, StampsFollowUse
    <3>2. CASE t = s
      <4>1. v # used /\ (w = used \/ <<v, w>> \in older[s])
        BY <2>4, <2>6, <3>2
      <4>2. CASE w = used
        BY <2>2, <2>5, <3>2, <4>1, <4>2
      <4>3. CASE w # used
        BY <2>2, <3>2, <4>1, <4>3 DEF Usage, StampsFollowUse
      <4> QED
        BY <4>2, <4>3
    <3> QED
      BY <3>1, <3>2
  <2>7. StampsFollowUse'
    BY <2>6 DEF StampsFollowUse
  <2> QED
    BY <2>3, <2>7 DEF Usage
<1>21. ASSUME NEW p \in Procs, Unlock(p) PROVE Usage'
  <2>1. \A q \in Procs : q # p => key'[q] = key[q] /\ way'[q] = way[q]
    BY <1>21 DEF Unlock, EndCall, TypeOK
  <2> QED
    BY <1>21, <2>1, QuietKeepsUsage DEF Unlock
<1>22. ASSUME NEW p \in Procs, Kill(p) PROVE Usage'
  <2>1. \A q \in Procs : q # p => key'[q] = key[q] /\ way'[q] = way[q]
    BY <1>22 DEF Kill, EndCall, TypeOK
  <2> QED
    BY <1>22, <2>1, QuietKeepsUsage DEF Kill
<1>23. CASE UNCHANGED vars
  <2>1. UNCHANGED <<pc, key, way, page_ids, timestamps, older>>
    BY <1>23 DEF vars
  <2>2. StampsFollowUse'
    BY <2>1 DEF Usage, StampsFollowUse
  <2>3. Decayed'
    BY <2>1 DEF Usage, Decayed, set_of, locate
  <2>4. VictimChosen'
    BY <2>1 DEF Usage, VictimChosen, MayGo, set_of, locate
  <2> QED
    BY <2>2, <2>3, <2>4 DEF Usage
<1> QED
  BY <1>1, <1>2, <1>3, <1>4, <1>5, <1>6, <1>7, <1>8, <1>9, <1>10, <1>11, <1>12, <1>13,
     <1>14, <1>15, <1>16, <1>17, <1>18, <1>19, <1>20, <1>21, <1>22, <1>23
     DEF Next, Call, Step

\* The one step by which a key that is in the cache gives way to another.
Replaces(s, w) ==
    /\ s[1] \in ready'
    /\ page_ids[s][w] \in Keys
    /\ page_ids'[s][w] # page_ids[s][w]

LEMMA StepReplaces ==
    ASSUME TypeOK, Creation, Usage, [Next]_vars, NEW s \in Sets, NEW w \in Ways, Replaces(s, w)
    PROVE  timestamps[s][w] = 0 \/ \A v \in Ways : <<v, w>> \notin older[s]
<1> USE DEF fileVars, setVars
<1>1. page_ids' # page_ids /\ ready' # {}
  BY DEF Replaces
<1>2. CASE \E p \in Procs : InitMeta(p)
  BY <1>2 DEF InitMeta, Creation, CreatorAlone
<1>3. CASE \E p \in Procs : PutKey(p)
  <2>1. PICK p \in Procs : PutKey(p)
    BY <1>3
  <2>2. s = set_of(p) /\ w = way[p] /\ page_ids'[s][w] = key[p]
    BY <2>1, CallTyped DEF PutKey, Replaces, TypeOK
  <2>3. \A v \in Ways : timestamps[s][w] <= timestamps[s][v]
    BY <2>1, <2>2, SharedCacheAssumption
       DEF PutKey, Usage, VictimChosen, MayGo, Replaces, EMPTY_KEY
  <2>4. \A v \in Ways : timestamps[s][v] \in Nat
    BY SharedCacheAssumption DEF TypeOK
  <2> QED
    BY <2>3, <2>4 DEF Usage, StampsFollowUse
<1>4. CASE Delete \/ UNCHANGED vars \/ \E p \in Procs : ZeroMetadata(p)
  BY <1>1, <1>4 DEF Delete, vars, ZeroMetadata
<1>5. CASE \E p \in Procs :
          \/ CreateNothing(p) \/ Ftruncate(p) \/ WriteMagic(p) \/ WritePath(p) \/ Drop(p)
          \/ Lock(p) \/ GetHit(p) \/ GetMiss(p) \/ PutFind(p) \/ PutCopied(p) \/ Decay(p)
          \/ Stamp(p) \/ Unlock(p) \/ Kill(p)
          \/ \E id \in Identities : Create(p, id) \/ Open(p, id)
          \/ \E k \in Keys : Get(p, k) \/ \E image \in Images[k] : Put(p, k, image)
  <2>1. UNCHANGED page_ids
    BY <1>5 DEF CreateNothing, Ftruncate, WriteMagic, WritePath, Drop, Lock, GetHit, GetMiss,
                PutFind, PutCopied, Decay, Stamp, Unlock, Kill, Create, Open, Get, Put
  <2> QED
    BY <1>1, <2>1
<1> QED
  BY <1>2, <1>3, <1>4, <1>5 DEF Next, Call, Step

\* cache.rs, update_lru and put: the page that makes room is the one that has
\* gone unused longest, unless its timestamp has run down to 0: for any number
\* of ways, whatever owners of the mutex die between the two halves of
\* update_lru.
THEOREM OldestAlwaysMakesRoom ==
    ASSUME MaxCreators <= 1
    PROVE  Spec => OldestMakesRoom
<1> DEFINE Inv == TypeOK /\ Creation /\ Exclusive /\ Usage
           Makes == \A s \in Sets, w \in Ways :
                       ( /\ s[1] \in ready'
                         /\ page_ids[s][w] \in Keys
                         /\ page_ids'[s][w] # page_ids[s][w] ) =>
                             \/ timestamps[s][w] = 0
                             \/ \A v \in Ways : <<v, w>> \notin older[s]
<1>1. Init => Inv
  BY InitType, InitCreation, InitExclusive, InitUsage
<1>2. Inv /\ [Next]_vars => Inv'
  BY StepType, StepCreation, StepExclusive, StepUsage
<1>3. Inv /\ [Next]_vars => [Makes]_vars
  BY StepReplaces DEF Replaces
<1> QED
  BY <1>1, <1>2, <1>3, PTL DEF Spec, OldestMakesRoom


-----------------------------------------------------------------------------
(* What a call carries.                                                    *)

Putting == {"put_lock", "put_find", "put_copy", "put_key"}

\* A process has a page when it puts one and an answer when a get has found it,
\* and the page of a put is in its slot when the slot is given its key.
Carried ==
    \A p \in Procs :
        /\ pc[p] \in Putting => page[p] \in Contents
        /\ pc[p] \notin Putting \union {"decay", "stamp", "unlock"} => page[p] = NoPage /\ out[p] = NoPage
        /\ pc[p] = "put_key" => data[set_of(p)][way[p]] = page[p]


LEMMA InitCarried == Init => Carried
  BY DEF Init, Carried, Putting

\* What the invariant asks of the call of one process.
CarriedBy(label, image, answer) ==
    /\ label \in Putting => image \in Contents
    /\ label \notin Putting \union {"decay", "stamp", "unlock"} => image = NoPage /\ answer = NoPage

\* A step of p that copies no page into a slot.
LEMMA StepKeepsCarried ==
    ASSUME TypeOK, Exclusive, Carried, NEW p \in Procs, NEW label, Goto(p, label), label # "put_key",
           CarriedBy(label, page'[p], out'[p]),
           \A q \in Procs : q # p => /\ page'[q] = page[q] /\ out'[q] = out[q]
                                     /\ key'[q] = key[q] /\ way'[q] = way[q],
           \/ UNCHANGED data
           \/ \A q \in Procs : pc[q] # "put_key"
           \/ /\ pc[p] \in Inside
              /\ \A s \in Sets : s # set_of(p) => data'[s] = data[s]
    PROVE  Carried'
<1>1. pc'[p] = label /\ \A q \in Procs : q # p => pc'[q] = pc[q]
  BY DEF Goto, TypeOK
<1>2. ASSUME NEW q \in Procs
      PROVE  /\ CarriedBy(pc'[q], page'[q], out'[q])
             /\ pc'[q] = "put_key" => data'[set_of(q)'][way'[q]] = page'[q]
  <2>1. CASE q = p
    BY <1>1, <2>1
  <2>2. CASE q # p
    <3>1. CarriedBy(pc'[q], page'[q], out'[q])
      BY <1>1, <2>2 DEF Carried, CarriedBy
    <3>2. ASSUME pc'[q] = "put_key" PROVE data'[set_of(q)'][way'[q]] = page'[q]
      <4>1. pc[q] = "put_key" /\ set_of(q)' = set_of(q) /\ set_of(q) \in Sets
        BY <1>1, <2>2, <3>2, CallTyped DEF set_of, locate
      <4>2. pc[p] \in Inside => set_of(q) # set_of(p)
        BY <2>2, <4>1, MutualExclusion DEF Exclusive, Inside
      <4>3. data'[set_of(q)] = data[set_of(q)]
        BY <4>1, <4>2
      <4> QED
        BY <2>2, <4>1, <4>3 DEF Carried
    <3> QED
      BY <3>1, <3>2
  <2> QED
    BY <2>1, <2>2
<1> QED
  BY <1>2 DEF Carried, CarriedBy

\* A slot of the set of p is written.
LEMMA OneSetWritten ==
    ASSUME NEW p, NEW w, NEW image, write_slot(set_of(p), w, image), TypeOK
    PROVE  \A s \in Sets : s # set_of(p) => data'[s] = data[s]
  BY DEF write_slot, TypeOK

LEMMA StepCarried ==
    ASSUME TypeOK, Creation, Exclusive, Carried, [Next]_vars
    PROVE  Carried'
<1> USE DEF fileVars, setVars, callVars, initVars, histVars
<1>0. \A p \in Procs : CarriedBy(pc[p], page[p], out[p])
  BY DEF Carried, CarriedBy
<1>1. ASSUME NEW p \in Procs, NEW label, Goto(p, label), label # "put_key",
             CarriedBy(label, page[p], out[p]),
             UNCHANGED <<key, page, way, out>>,
             \/ UNCHANGED data
             \/ /\ pc[p] \in Inside
                /\ \A s \in Sets : s # set_of(p) => data'[s] = data[s]
      PROVE  Carried'
  BY <1>1, StepKeepsCarried
<1>2. ASSUME NEW p \in Procs, NEW id \in Identities, Create(p, id) PROVE Carried'
  BY <1>0, <1>1, <1>2 DEF Create, CarriedBy, Putting
<1>3. ASSUME NEW p \in Procs, CreateNothing(p) \/ WritePath(p) PROVE Carried'
  BY <1>0, <1>1, <1>3 DEF CreateNothing, WritePath, Created, CarriedBy, Putting
<1>4. ASSUME NEW p \in Procs, Ftruncate(p) \/ ZeroMetadata(p) \/ WriteMagic(p) PROVE Carried'
  BY <1>0, <1>1, <1>4 DEF Ftruncate, ZeroMetadata, WriteMagic, CarriedBy, Putting
<1>5. ASSUME NEW p \in Procs, InitMeta(p) PROVE Carried'
  BY <1>5 DEF InitMeta, Carried, set_of, locate
<1>6. ASSUME NEW p \in Procs, NEW id \in Identities, Open(p, id) PROVE Carried'
  BY <1>0, <1>1, <1>6 DEF Open, CarriedBy, Putting
<1>7. ASSUME NEW p \in Procs, Drop(p) PROVE Carried'
  BY <1>0, <1>1, <1>7 DEF Drop, CarriedBy, Putting
<1>8. CASE Delete
  <2>1. \A q \in Procs : pc[q] = "off"
    BY <1>8 DEF Delete, Detached
  <2> QED
    BY <1>8, <2>1 DEF Delete, Carried, Putting
<1>9. ASSUME NEW p \in Procs, NEW k \in Keys, Get(p, k) PROVE Carried'
  <2>1. \A q \in Procs : q # p => key'[q] = key[q]
    BY <1>9 DEF Get, TypeOK
  <2>2. CarriedBy("get_lock", page[p], out[p])
    BY <1>0, <1>9 DEF Get, CarriedBy, Putting
  <2> QED
    BY <1>9, <2>1, <2>2, StepKeepsCarried DEF Get
<1>10. ASSUME NEW p \in Procs, NEW k \in Keys, NEW image \in Images[k], Put(p, k, image)
       PROVE  Carried'
  <2>1. \A q \in Procs : q # p => key'[q] = key[q] /\ page'[q] = page[q]
    BY <1>10 DEF Put, TypeOK
  <2>2. CarriedBy("put_lock", page'[p], out[p])
    BY <1>10, SharedCacheAssumption DEF Put, TypeOK, CarriedBy, Putting
  <2> QED
    BY <1>10, <2>1, <2>2, StepKeepsCarried DEF Put
<1>11. ASSUME NEW p \in Procs, Lock(p) PROVE Carried'
  BY <1>0, <1>1, <1>11 DEF Lock, CarriedBy, Putting
<1>12. ASSUME NEW p \in Procs, GetHit(p) PROVE Carried'
  <2>1. \A q \in Procs : q # p => way'[q] = way[q] /\ out'[q] = out[q]
    BY <1>12 DEF GetHit, TypeOK
  <2>2. CarriedBy("decay", page[p], out'[p])
    BY DEF CarriedBy, Putting
  <2> QED
    BY <1>12, <2>1, <2>2, StepKeepsCarried DEF GetHit
<1>13. ASSUME NEW p \in Procs, GetMiss(p) \/ Decay(p) \/ Stamp(p) \/ PutKey(p) PROVE Carried'
  BY <1>1, <1>13 DEF GetMiss, Decay, Stamp, PutKey, CarriedBy, Putting
<1>14. ASSUME NEW p \in Procs, PutFind(p) PROVE Carried'
  <2>1. PICK w \in target(set_of(p), key[p]) :
           /\ way' = [way EXCEPT ![p] = w]
           /\ write_slot(set_of(p), w, IF data[set_of(p)][w] = page[p] THEN page[p] ELSE Torn)
    BY <1>14 DEF PutFind
  <2>2. /\ \A q \in Procs : q # p => way'[q] = way[q]
        /\ \A s \in Sets : s # set_of(p) => data'[s] = data[s]
    BY <2>1, OneSetWritten DEF TypeOK
  <2>3. CarriedBy("put_copy", page[p], out[p])
    BY <1>0, <1>14 DEF PutFind, CarriedBy, Putting
  <2> QED
    BY <1>14, <2>2, <2>3, StepKeepsCarried DEF PutFind, Inside
<1>15. ASSUME NEW p \in Procs, PutCopied(p) PROVE Carried'
  <2>1. /\ pc[p] \in Inside /\ pc'[p] = "put_key" /\ \A q \in Procs : q # p => pc'[q] = pc[q]
        /\ set_of(p) \in Sets /\ way[p] \in Ways
    BY <1>15, CallTyped DEF PutCopied, Goto, TypeOK, Inside
  <2>2. /\ data'[set_of(p)][way[p]] = page[p]
        /\ \A s \in Sets : s # set_of(p) => data'[s] = data[s]
    BY <1>15, <2>1 DEF PutCopied, write_slot, TypeOK
  <2>3. ASSUME NEW q \in Procs
        PROVE  /\ CarriedBy(pc'[q], page[q], out[q])
               /\ pc'[q] = "put_key" => data'[set_of(q)][way[q]] = page[q]
    <3>1. CASE q = p
      BY <1>0, <1>15, <2>1, <2>2, <3>1 DEF PutCopied, CarriedBy, Putting
    <3>2. CASE q # p
      <4>1. pc[q] = "put_key" => set_of(q) # set_of(p) /\ set_of(q) \in Sets
        BY <2>1, <3>2, MutualExclusion, CallTyped DEF Exclusive, Inside
      <4> QED
        BY <1>0, <2>1, <2>2, <3>2, <4>1 DEF Carried
    <3> QED
      BY <3>1, <3>2
  <2>4. UNCHANGED <<key, page, way, out>> /\ \A q \in Procs : set_of(q)' = set_of(q)
    BY <1>15 DEF PutCopied, set_of, locate
  <2> QED
    BY <2>3, <2>4 DEF Carried, CarriedBy
<1>16. ASSUME NEW p \in Procs, NEW label \in {"idle", "off"}, Goto(p, label), EndCall(p), UNCHANGED data
       PROVE  Carried'
  <2>1. \A q \in Procs : q # p => /\ page'[q] = page[q] /\ out'[q] = out[q]
                                  /\ key'[q] = key[q] /\ way'[q] = way[q]
    BY <1>16 DEF EndCall, TypeOK
  <2>2. CarriedBy(label, page'[p], out'[p])
    BY <1>16 DEF EndCall, TypeOK, CarriedBy, Putting
  <2> QED
    BY <1>16, <2>1, <2>2, StepKeepsCarried
<1>17. ASSUME NEW p \in Procs, Unlock(p) PROVE Carried'
  BY <1>16, <1>17 DEF Unlock
<1>18. ASSUME NEW p \in Procs, Kill(p) PROVE Carried'
  BY <1>16, <1>18 DEF Kill
<1>19. CASE UNCHANGED vars
  BY <1>19 DEF vars, Carried, set_of, locate
<1> QED
  BY <1>2, <1>3, <1>4, <1>5, <1>6, <1>7, <1>8, <1>9, <1>10, <1>11, <1>12, <1>13, <1>14, <1>15,
     <1>17, <1>18, <1>19
     DEF Next, Call, Step


-----------------------------------------------------------------------------
(* What a process is in the middle of, as PageCache has it.                *)

CallOf(label, k, image, answer) ==
    CASE label \in {"get_lock", "get_find"} -> [op |-> "get", key |-> k]
      [] label \in {"put_lock", "put_find", "put_copy", "put_key"} ->
            [op |-> "put", key |-> k, page |-> image]
      [] label \in {"decay", "stamp", "unlock"} ->
            IF image # NoPage THEN [op |-> "stored"] ELSE [op |-> "answered", out |-> answer]
      [] OTHER -> [op |-> "none"]

LEMMA CallOfLabel ==
    ASSUME NEW k, NEW image, NEW answer
    PROVE  /\ \A label \in {"get_lock", "get_find"} :
                 CallOf(label, k, image, answer) = [op |-> "get", key |-> k]
           /\ \A label \in Putting :
                 CallOf(label, k, image, answer) = [op |-> "put", key |-> k, page |-> image]
           /\ \A label \in {"decay", "stamp", "unlock"} :
                 CallOf(label, k, image, answer) = IF image # NoPage THEN [op |-> "stored"]
                                                   ELSE [op |-> "answered", out |-> answer]
           /\ \A label \in {"off", "size", "zero", "init", "path", "idle"} :
                 CallOf(label, k, image, answer) = [op |-> "none"]
  BY DEF CallOf, Putting

LEMMA CallsAre ==
    /\ calls = [p \in Procs |-> CallOf(pc[p], key[p], page[p], out[p])]
    /\ calls' = [p \in Procs |-> CallOf(pc'[p], key'[p], page'[p], out'[p])]
  BY DEF calls, CallOf

\* A step of p changes the call of p at most.
LEMMA CallOfOne ==
    ASSUME TypeOK, NEW p \in Procs, NEW label, Goto(p, label),
           \A q \in Procs : q # p => key'[q] = key[q] /\ page'[q] = page[q] /\ out'[q] = out[q]
    PROVE  /\ calls[p] = CallOf(pc[p], key[p], page[p], out[p])
           /\ calls' = [calls EXCEPT ![p] = CallOf(label, key'[p], page'[p], out'[p])]
<1>1. pc'[p] = label /\ \A q \in Procs : q # p => pc'[q] = pc[q]
  BY DEF Goto, TypeOK
<1>2. \A q \in Procs : q # p => calls'[q] = calls[q]
  BY <1>1, CallsAre
<1>3. calls'[p] = CallOf(label, key'[p], page'[p], out'[p])
  BY <1>1, CallsAre
<1>4. calls = [q \in Procs |-> calls[q]] /\ calls' = [q \in Procs |-> calls'[q]]
  BY CallsAre
<1> HIDE DEF CallOf
<1>5. calls[p] = CallOf(pc[p], key[p], page[p], out[p])
  BY CallsAre
<1> QED
  BY <1>2, <1>3, <1>4, <1>5

\* ... and changes it not at all if it stays in the same part of it.
LEMMA SameCall ==
    ASSUME TypeOK, NEW p \in Procs, NEW label, Goto(p, label),
           UNCHANGED <<key, page, out>>,
           CallOf(label, key[p], page[p], out[p]) = CallOf(pc[p], key[p], page[p], out[p])
    PROVE  UNCHANGED calls
<1>1. calls' = [calls EXCEPT ![p] = calls[p]]
  BY CallOfOne
<1>2. calls = [q \in Procs |-> calls[q]]
  BY CallsAre
<1> QED
  BY <1>1, <1>2


-----------------------------------------------------------------------------
(* What the cache holds, as PageCache has it.                              *)

Overwrites(p, s, w) ==
    /\ pc[p] \in {"put_copy", "put_key"}
    /\ way[p] = w
    /\ set_of(p) = s

InWay(k, w) == locate(k)[1] \in ready /\ page_ids[locate(k)][w] = k

\* A key is held in one way, or not at all.
Held ==
    /\ held = [k \in Keys |-> held[k]]
    /\ \A k \in Keys :
          /\ (\A w \in Ways : ~InWay(k, w)) => held[k] = NoPage
          /\ \A w \in Ways : InWay(k, w) => held[k] = entry(locate(k), w)

LEMMA PlacedHeld == KeysPlaced => Held
<1> SUFFICES ASSUME KeysPlaced PROVE Held
  OBVIOUS
<1>1. held = [k \in Keys |-> held[k]]
  BY DEF held
<1>2. ASSUME NEW k \in Keys
      PROVE  /\ (\A w \in Ways : ~InWay(k, w)) => held[k] = NoPage
             /\ \A w \in Ways : InWay(k, w) => held[k] = entry(locate(k), w)
  <2> DEFINE s == locate(k)
             hits == IF s[1] \in ready THEN ways_of(s, k) ELSE {}
  <2>1. held[k] = IF hits = {} THEN NoPage ELSE entry(s, CHOOSE w \in first(hits) : TRUE)
    BY DEF held
  <2>2. \A w \in Ways : w \in hits <=> InWay(k, w)
    BY DEF ways_of, InWay
  <2>3. hits \subseteq Ways
    BY DEF ways_of
  <2>4. ASSUME NEW w \in Ways, InWay(k, w) PROVE first(hits) = {w}
    <3>1. s \in Sets /\ s[1] \in ready /\ k # EMPTY_KEY
      BY <2>4, LocateType, SharedCacheAssumption DEF InWay, EMPTY_KEY
    <3>2. \A v \in hits : v = w
      BY <2>3, <2>4, <3>1 DEF KeysPlaced, ways_of, InWay
    <3>3. w \in hits /\ w <= w
      BY <2>2, <2>4, SharedCacheAssumption DEF Ways
    <3> HIDE DEF hits
    <3> QED
      BY <3>2, <3>3 DEF first
  <2>5. ASSUME NEW w \in Ways, InWay(k, w) PROVE held[k] = entry(s, w)
    <3>1. hits # {} /\ (CHOOSE v \in first(hits) : TRUE) = w
      BY <2>2, <2>4, <2>5
    <3> QED
      BY <2>1, <3>1
  <2>6. ASSUME \A w \in Ways : ~InWay(k, w) PROVE held[k] = NoPage
    BY <2>1, <2>2, <2>3, <2>6
  <2> QED
    BY <2>5, <2>6
<1> QED
  BY <1>1, <1>2 DEF Held

LEMMA PlacedHeldNext == KeysPlaced' => Held'
  BY PlacedHeld, PTL

\* An entry stays as it is while nobody begins or ends to write its slot.
LEMMA EntryStays ==
    ASSUME NEW s, NEW w,
           \A q \in Procs : Overwrites(q, s, w)' <=> Overwrites(q, s, w),
           <<s, w>> \in spoiled' <=> <<s, w>> \in spoiled,
           (\E q \in Procs : Overwrites(q, s, w)) \/ data'[s][w] = data[s][w]
    PROVE  entry(s, w)' = entry(s, w)
<1>1. being_overwritten(s, w) <=> \E q \in Procs : Overwrites(q, s, w)
  BY DEF being_overwritten, Overwrites
<1>2. being_overwritten(s, w)' <=> \E q \in Procs : Overwrites(q, s, w)'
  BY DEF being_overwritten, Overwrites
<1>3. being_overwritten(s, w)' <=> being_overwritten(s, w)
  BY <1>1, <1>2
<1> QED
  BY <1>1, <1>3 DEF entry

\* A key is held as before if it is in the same way and the entry stays.
LEMMA KeyStays ==
    ASSUME Held, Held', NEW k \in Keys,
           \A w \in Ways : InWay(k, w)' <=> InWay(k, w),
           \A w \in Ways : InWay(k, w) => entry(locate(k), w)' = entry(locate(k), w)
    PROVE  held'[k] = held[k]
<1>1. /\ (\A w \in Ways : ~InWay(k, w)') => held'[k] = NoPage
      /\ \A w \in Ways : InWay(k, w)' => held'[k] = entry(locate(k), w)'
  BY DEF Held
<1> QED
  BY <1>1 DEF Held

LEMMA NothingForgotten ==
    ASSUME Held, Held', \A k \in Keys : held'[k] = held[k]
    PROVE  UNCHANGED held
<1>1. held = [k \in Keys |-> held[k]] /\ held' = [k \in Keys |-> held'[k]]
  BY DEF Held
<1> QED
  BY <1>1

\* Nothing is forgotten while files, keys and slots stay, and the same slots
\* are being written.
LEMMA QuietKeepsHeld ==
    ASSUME Held, Held', UNCHANGED <<ready, page_ids, data, spoiled>>,
           \A q \in Procs :
               \/ pc'[q] = pc[q] /\ key'[q] = key[q] /\ way'[q] = way[q]
               \/ /\ pc[q] \notin {"put_copy", "put_key"}
                  /\ pc'[q] \notin {"put_copy", "put_key"}
    PROVE  UNCHANGED held
<1>1. ASSUME NEW k \in Keys PROVE held'[k] = held[k]
  <2>1. \A w \in Ways : InWay(k, w)' <=> InWay(k, w)
    BY DEF InWay, locate
  <2>2. ASSUME NEW s, NEW w PROVE entry(s, w)' = entry(s, w)
    <3>1. \A q \in Procs : Overwrites(q, s, w)' <=> Overwrites(q, s, w)
      BY DEF Overwrites, set_of, locate
    <3> QED
      BY <3>1, EntryStays
  <2> QED
    BY <2>1, <2>2, KeyStays
<1> QED
  BY <1>1, NothingForgotten


\* A step of p outside the writing of a slot, that PageCache does not see.
LEMMA QuietStutters ==
    ASSUME TypeOK, Held, Held', NEW p \in Procs, NEW label, Goto(p, label),
           label \notin {"put_copy", "put_key"}, pc[p] \notin {"put_copy", "put_key"},
           UNCHANGED <<ready, page_ids, data, spoiled, key, page, way, out>>,
           CallOf(label, key[p], page[p], out[p]) = CallOf(pc[p], key[p], page[p], out[p])
    PROVE  UNCHANGED <<held, calls>>
<1>1. pc'[p] = label /\ \A q \in Procs : q # p => pc'[q] = pc[q]
  BY DEF Goto, TypeOK
<1>2. UNCHANGED held
  BY <1>1, QuietKeepsHeld
<1> QED
  BY <1>2, SameCall

\* A step that writes one slot at most leaves the other keys alone.
LEMMA OtherKeysStay ==
    ASSUME TypeOK, Held, Held', UNCHANGED ready, NEW s \in Sets, NEW w \in Ways,
           \A t \in Sets, v \in Ways : t # s \/ v # w =>
               /\ page_ids'[t][v] = page_ids[t][v]
               /\ data'[t][v] = data[t][v]
               /\ <<t, v>> \in spoiled' <=> <<t, v>> \in spoiled
               /\ \A q \in Procs : Overwrites(q, t, v)' <=> Overwrites(q, t, v),
           NEW k \in Keys, page_ids[s][w] # k, page_ids'[s][w] # k
    PROVE  held'[k] = held[k]
<1>1. locate(k) \in Sets
  BY LocateType
<1>2. ASSUME NEW v \in Ways PROVE InWay(k, v)' <=> InWay(k, v)
  BY <1>1 DEF InWay, locate
<1>3. ASSUME NEW v \in Ways, InWay(k, v) PROVE entry(locate(k), v)' = entry(locate(k), v)
  <2>1. locate(k) # s \/ v # w
    BY <1>3 DEF InWay
  <2> QED
    BY <1>1, <2>1, EntryStays
<1> QED
  BY <1>2, <1>3, KeyStays

\* The same for all keys, if only the entry of old changes.
LEMMA OneKeyChanges ==
    ASSUME Held, Held', NEW old \in Keys, NEW to, held'[old] = to,
           \A k \in Keys : k # old => held'[k] = held[k]
    PROVE  held' = [held EXCEPT ![old] = to]
<1>1. held = [k \in Keys |-> held[k]] /\ held' = [k \in Keys |-> held'[k]]
  BY DEF Held
<1> QED
  BY <1>1

\* What is held of a key that is in a way.
HeldInWay ==
    \A k \in Keys, w \in Ways : InWay(k, w) =>
        LET s == locate(k)
        IN  IF \E q \in Procs : Overwrites(q, s, w) THEN held[k] = NoPage
            ELSE IF <<s, w>> \in spoiled THEN held[k] = Torn
            ELSE held[k] = data[s][w]

LEMMA HeldBySlot == Held => HeldInWay
<1>1. ASSUME NEW s, NEW w
      PROVE  being_overwritten(s, w) <=> \E q \in Procs : Overwrites(q, s, w)
  BY DEF being_overwritten, Overwrites
<1> QED
  BY <1>1 DEF Held, HeldInWay, entry

LEMMA HeldBySlotNext == Held' => HeldInWay'
  BY HeldBySlot, PTL

\* Nobody else writes in the set of a process that is inside a call.
LEMMA WritesAlone ==
    ASSUME OwnsMutex, NEW p \in Procs, pc[p] \in Inside, NEW q \in Procs, NEW w,
           Overwrites(q, set_of(p), w)
    PROVE  q = p
  BY MutualExclusion DEF Overwrites, Inside

-----------------------------------------------------------------------------
(* The steps of the cache are steps of PageCache.                          *)

Promised == Promise!Next \/ UNCHANGED <<held, calls>>

LEMMA GetPromised ==
    ASSUME TypeOK, Held, Held', Carried, NEW p \in Procs, NEW k \in Keys, Get(p, k)
    PROVE  Promised
<1> USE DEF fileVars, setVars, initVars, histVars
<1>1. key'[p] = k /\ \A q \in Procs : q # p => key'[q] = key[q]
  BY DEF Get, TypeOK
<1>2. /\ calls[p] = [op |-> "none"]
      /\ calls' = [calls EXCEPT ![p] = [op |-> "get", key |-> k]]
  BY <1>1, CallOfOne, CallOfLabel DEF Get
<1>3. pc'[p] = "get_lock" /\ \A q \in Procs : q # p => pc'[q] = pc[q]
  BY DEF Get, Goto, TypeOK
<1>4. UNCHANGED held
  BY <1>1, <1>3, QuietKeepsHeld DEF Get
<1>5. Promise!Get(p)
  BY <1>2, <1>4 DEF Promise!Get, Promise!NoCall
<1> QED
  BY <1>5 DEF Promised, Promise!Next

LEMMA PutPromised ==
    ASSUME TypeOK, Held, Held', Carried,
           NEW p \in Procs, NEW k \in Keys, NEW image \in Images[k], Put(p, k, image)
    PROVE  Promised
<1> USE DEF fileVars, setVars, initVars, histVars
<1>1. /\ key'[p] = k /\ \A q \in Procs : q # p => key'[q] = key[q]
      /\ page'[p] = image /\ \A q \in Procs : q # p => page'[q] = page[q]
  BY DEF Put, TypeOK
<1>2. /\ calls[p] = [op |-> "none"]
      /\ calls' = [calls EXCEPT ![p] = [op |-> "put", key |-> k, page |-> image]]
  BY <1>1, CallOfOne, CallOfLabel DEF Put, Putting
<1>3. pc'[p] = "put_lock" /\ \A q \in Procs : q # p => pc'[q] = pc[q]
  BY DEF Put, Goto, TypeOK
<1>4. UNCHANGED held
  BY <1>1, <1>3, QuietKeepsHeld DEF Put
<1>5. image \in Contents
  BY SharedCacheAssumption
<1>6. Promise!Put(p)
  BY <1>2, <1>4, <1>5 DEF Promise!Put, Promise!NoCall
<1> QED
  BY <1>6 DEF Promised, Promise!Next


\* A hit answers what is held, or anything if the entry is damaged.
LEMMA HitPromised ==
    ASSUME TypeOK, Creation, Exclusive, Held, Held', Carried, NEW p \in Procs, GetHit(p)
    PROVE  Promised
<1> USE DEF fileVars, setVars, initVars, histVars
<1> DEFINE s == set_of(p)
<1>1. /\ pc[p] \in Inside /\ s = locate(key[p]) /\ s \in Sets /\ key[p] \in Keys
      /\ s[1] \in ready /\ page[p] = NoPage
  BY CallTyped, AttachedReady DEF GetHit, Inside, set_of, meta_of, Carried, Putting
<1>2. PICK w \in Ways : /\ page_ids[s][w] = key[p]
                        /\ way' = [way EXCEPT ![p] = w]
                        /\ out' = [out EXCEPT ![p] = data[s][w]]
  BY DEF GetHit, first, ways_of
<1>3. /\ out'[p] = data[s][w] /\ data[s][w] \in Contents \union {NoPage, Torn}
      /\ \A q \in Procs : q # p => out'[q] = out[q] /\ way'[q] = way[q]
  BY <1>1, <1>2 DEF TypeOK
<1>4. held[key[p]] \in {data[s][w], Torn}
  <2>1. InWay(key[p], w)
    BY <1>1, <1>2 DEF InWay
  <2>2. ASSUME NEW q \in Procs, Overwrites(q, s, w) PROVE FALSE
    <3>1. q = p
      BY <1>1, <2>2, WritesAlone DEF Exclusive
    <3> QED
      BY <2>2, <3>1 DEF Overwrites, GetHit
  <2>3. ASSUME NEW k \in Keys, k = key[p]
        PROVE  held[k] = IF <<locate(k), w>> \in spoiled THEN Torn ELSE data[locate(k)][w]
    <3>1. InWay(k, w) /\ \A q \in Procs : ~Overwrites(q, locate(k), w)
      BY <1>1, <2>1, <2>2, <2>3
    <3> QED
      BY <3>1, HeldBySlot DEF HeldInWay
  <2> QED
    BY <1>1, <2>3
<1>5. /\ calls[p] = [op |-> "get", key |-> key[p]]
      /\ calls' = [calls EXCEPT ![p] = [op |-> "answered", out |-> data[s][w]]]
  <2>1. /\ calls[p] = CallOf("get_find", key[p], page[p], out[p])
        /\ calls' = [calls EXCEPT ![p] = CallOf("decay", key[p], NoPage, data[s][w])]
    BY <1>1, <1>3, CallOfOne DEF GetHit
  <2>2. /\ CallOf("get_find", key[p], page[p], out[p]) = [op |-> "get", key |-> key[p]]
        /\ CallOf("decay", key[p], NoPage, data[s][w]) = [op |-> "answered", out |-> data[s][w]]
    BY CallOfLabel
  <2> QED
    BY <2>1, <2>2
<1>6. UNCHANGED held
  <2>1. pc'[p] = "decay" /\ \A q \in Procs : q # p => pc'[q] = pc[q]
    BY DEF GetHit, Goto, TypeOK
  <2> QED
    BY <1>3, <2>1, QuietKeepsHeld DEF GetHit
<1>7. calls[p].op = "get" /\ calls[p].key = key[p]
  BY <1>5
<1> HIDE DEF s
<1>8. Promise!Answer(p)
  BY <1>3, <1>4, <1>5, <1>6, <1>7 DEF Promise!Answer
<1> QED
  BY <1>8 DEF Promised, Promise!Next

\* A miss answers that the key is not held.
LEMMA MissPromised ==
    ASSUME TypeOK, Held, Held', Carried, NEW p \in Procs, GetMiss(p)
    PROVE  Promised
<1> USE DEF fileVars, setVars, callVars, initVars, histVars
<1>1. held[key[p]] = NoPage
  <2>1. \A w \in Ways : ~InWay(key[p], w)
    BY DEF GetMiss, ways_of, InWay, set_of
  <2> QED
    BY <2>1, CallTyped DEF Held
<1>2. page[p] = NoPage /\ out[p] = NoPage
  BY DEF GetMiss, Carried, Putting
<1>3. /\ calls[p] = [op |-> "get", key |-> key[p]]
      /\ calls' = [calls EXCEPT ![p] = [op |-> "answered", out |-> NoPage]]
  <2>1. /\ calls[p] = CallOf("get_find", key[p], page[p], out[p])
        /\ calls' = [calls EXCEPT ![p] = CallOf("unlock", key[p], NoPage, NoPage)]
    BY <1>2, CallOfOne DEF GetMiss
  <2>2. /\ CallOf("get_find", key[p], page[p], out[p]) = [op |-> "get", key |-> key[p]]
        /\ CallOf("unlock", key[p], NoPage, NoPage) = [op |-> "answered", out |-> NoPage]
    BY CallOfLabel
  <2> QED
    BY <2>1, <2>2
<1>4. UNCHANGED held
  <2>1. pc'[p] = "unlock" /\ \A q \in Procs : q # p => pc'[q] = pc[q]
    BY DEF GetMiss, Goto, TypeOK
  <2> QED
    BY <2>1, QuietKeepsHeld DEF GetMiss
<1>5. calls[p].op = "get" /\ calls[p].key = key[p]
  BY <1>3
<1>6. Promise!Answer(p)
  BY <1>1, <1>3, <1>4, <1>5 DEF Promise!Answer
<1> QED
  BY <1>6 DEF Promised, Promise!Next

\* The page that makes room is forgotten when its slot is about to be written.
LEMMA FindPromised ==
    ASSUME TypeOK, Creation, Exclusive, Held, Held', Carried, NEW p \in Procs, PutFind(p)
    PROVE  Promised
<1> USE DEF fileVars, initVars, histVars
<1> DEFINE s == set_of(p)
<1>1. /\ pc[p] \in Inside /\ s \in Sets /\ s[1] \in ready
      /\ pc[p] = "put_find" /\ pc'[p] = "put_copy" /\ \A q \in Procs : q # p => pc'[q] = pc[q]
  BY CallTyped, AttachedReady DEF PutFind, Inside, set_of, meta_of, Goto, TypeOK
<1>2. PICK w \in Ways : /\ way' = [way EXCEPT ![p] = w]
                        /\ \E image : write_slot(s, w, image)
  BY TargetType DEF PutFind
<1>3. /\ way'[p] = w /\ \A q \in Procs : q # p => way'[q] = way[q]
      /\ \A t \in Sets, v \in Ways : t # s \/ v # w => data'[t][v] = data[t][v]
  BY <1>1, <1>2 DEF write_slot, TypeOK
<1>4. UNCHANGED <<ready, page_ids, spoiled, key>> /\ \A q \in Procs : set_of(q)' = set_of(q)
  BY DEF PutFind, set_of, locate
<1>5. \A t \in Sets, v \in Ways : t # s \/ v # w =>
          \A q \in Procs : Overwrites(q, t, v)' <=> Overwrites(q, t, v)
  BY <1>1, <1>3, <1>4 DEF Overwrites
<1>6. ASSUME NEW t, t = s PROVE Overwrites(p, t, w)'
  BY <1>1, <1>3, <1>4, <1>6 DEF Overwrites
<1>7. /\ UNCHANGED calls
      /\ calls[p] = [op |-> "put", key |-> key[p], page |-> page[p]]
  <2>1. CallOf("put_copy", key[p], page[p], out[p]) = CallOf(pc[p], key[p], page[p], out[p])
    BY <1>1, CallOfLabel DEF Putting
  <2>2. UNCHANGED calls
    BY <2>1, SameCall DEF PutFind
  <2> QED
    BY <1>1, <2>2, CallsAre, CallOfLabel DEF Putting
<1> HIDE DEF s
<1>8. \A k \in Keys : page_ids[s][w] # k => held'[k] = held[k]
  BY <1>1, <1>3, <1>4, <1>5, OtherKeysStay
<1>9. CASE page_ids[s][w] \in Keys
  <2> DEFINE old == page_ids[s][w]
  <2>1. locate(old) = s
    BY <1>1, <1>9, SharedCacheAssumption DEF Exclusive, KeysPlaced, EMPTY_KEY
  <2>2. held'[old] = NoPage
    <3>1. ASSUME NEW k \in Keys, k = old PROVE held'[k] = NoPage
      <4>1. InWay(k, w)'
        BY <1>1, <1>4, <2>1, <3>1 DEF InWay, locate
      <4>2. Overwrites(p, locate(k), w)'
        BY <1>6, <2>1, <3>1
      <4> QED
        BY <4>1, <4>2, HeldBySlotNext DEF HeldInWay
    <3> QED
      BY <1>9, <3>1
  <2>3. held' = [held EXCEPT ![old] = NoPage]
    BY <1>8, <1>9, <2>2, OneKeyChanges
  <2>4. calls[p].op = "put"
    BY <1>7
  <2> HIDE DEF old
  <2>5. old \in Keys
    BY <1>9 DEF old
  <2>6. Promise!Forget(p)
    BY <1>7, <2>3, <2>4, <2>5 DEF Promise!Forget
  <2> QED
    BY <2>6 DEF Promised, Promise!Next
<1>10. CASE page_ids[s][w] \notin Keys
  <2>1. UNCHANGED held
    BY <1>8, <1>10, NothingForgotten
  <2> QED
    BY <1>7, <2>1 DEF Promised
<1> QED
  BY <1>9, <1>10


\* The slot that p writes, which no other process writes.
LEMMA WritesSlot ==
    ASSUME TypeOK, Creation, Exclusive, NEW p \in Procs, pc[p] \in {"put_copy", "put_key"}
    PROVE  /\ set_of(p) \in Sets /\ set_of(p)[1] \in ready /\ way[p] \in Ways
           /\ Overwrites(p, set_of(p), way[p])
           /\ \A q \in Procs, w \in Ways : Overwrites(q, set_of(p), w) => q = p /\ w = way[p]
<1>1. pc[p] \in Inside
  BY DEF Inside
<1>2. set_of(p) \in Sets /\ set_of(p)[1] \in ready /\ way[p] \in Ways
  BY <1>1, CallTyped, AttachedReady DEF set_of, meta_of
<1>3. \A q \in Procs, w \in Ways : Overwrites(q, set_of(p), w) => q = p
  BY <1>1, WritesAlone DEF Exclusive
<1> QED
  BY <1>2, <1>3 DEF Overwrites

\* While the page is copied nothing is held of the slot.
LEMMA CopiedPromised ==
    ASSUME TypeOK, Creation, Exclusive, Held, Held', Carried, NEW p \in Procs, PutCopied(p)
    PROVE  Promised
<1> USE DEF fileVars, callVars, initVars, histVars
<1>1. /\ set_of(p) \in Sets /\ way[p] \in Ways /\ Overwrites(p, set_of(p), way[p])
      /\ pc[p] = "put_copy" /\ pc'[p] = "put_key" /\ \A q \in Procs : q # p => pc'[q] = pc[q]
  BY WritesSlot DEF PutCopied, Goto, TypeOK
<1>2. \A t \in Sets, v \in Ways : t # set_of(p) \/ v # way[p] => data'[t][v] = data[t][v]
  BY <1>1 DEF PutCopied, write_slot, TypeOK
<1>3. UNCHANGED <<ready, page_ids, spoiled, key, way>> /\ \A q \in Procs : set_of(q)' = set_of(q)
  BY DEF PutCopied, set_of, locate
<1>4. ASSUME NEW t, NEW v, NEW q \in Procs PROVE Overwrites(q, t, v)' <=> Overwrites(q, t, v)
  BY <1>1, <1>3 DEF Overwrites
<1>5. ASSUME NEW k \in Keys PROVE held'[k] = held[k]
  <2>1. ASSUME NEW w \in Ways, InWay(k, w) PROVE entry(locate(k), w)' = entry(locate(k), w)
    <3>1. locate(k) \in Sets
      BY LocateType
    <3>2. (\E q \in Procs : Overwrites(q, locate(k), w)) \/ data'[locate(k)][w] = data[locate(k)][w]
      BY <1>1, <1>2, <3>1
    <3> QED
      BY <1>3, <1>4, <3>2, EntryStays
  <2>2. \A w \in Ways : InWay(k, w)' <=> InWay(k, w)
    BY <1>3 DEF InWay, locate
  <2> QED
    BY <2>1, <2>2, KeyStays
<1>6. UNCHANGED held
  BY <1>5, NothingForgotten
<1>7. CallOf("put_key", key[p], page[p], out[p]) = CallOf(pc[p], key[p], page[p], out[p])
  BY <1>1, CallOfLabel DEF Putting
<1>8. UNCHANGED calls
  BY <1>7, SameCall DEF PutCopied
<1> QED
  BY <1>6, <1>8 DEF Promised

\* With its key in the slot, the page is held.
LEMMA KeyPromised ==
    ASSUME TypeOK, Creation, Exclusive, Exclusive', Held, Held', Carried, NEW p \in Procs, PutKey(p)
    PROVE  Promised
<1> USE DEF fileVars, callVars, initVars, histVars
<1> DEFINE s == set_of(p)
           w == way[p]
<1>1. /\ s \in Sets /\ s[1] \in ready /\ w \in Ways /\ Overwrites(p, s, w)
      /\ s = locate(key[p]) /\ key[p] \in Keys /\ data[s][w] = page[p]
      /\ page[p] \in Contents /\ page[p] # NoPage
      /\ \A q \in Procs, v \in Ways : Overwrites(q, s, v) => q = p /\ v = w
      /\ pc[p] = "put_key" /\ pc'[p] = "decay" /\ \A q \in Procs : q # p => pc'[q] = pc[q]
  BY WritesSlot, CallTyped, SharedCacheAssumption
     DEF PutKey, Goto, TypeOK, Carried, Putting, set_of
<1>2. /\ page_ids'[s][w] = key[p]
      /\ \A t \in Sets, v \in Ways : t # s \/ v # w => page_ids'[t][v] = page_ids[t][v]
      /\ spoiled' = spoiled \ {<<s, w>>}
  BY <1>1 DEF PutKey, TypeOK
<1>3. UNCHANGED <<ready, data, key, way, page, out>> /\ \A q \in Procs : set_of(q)' = set_of(q)
  BY DEF PutKey, set_of, locate
<1>4. ASSUME NEW t, NEW v, NEW q \in Procs
      PROVE  Overwrites(q, t, v)' <=> Overwrites(q, t, v) /\ q # p
  BY <1>1, <1>3 DEF Overwrites
<1>5. \A t \in Sets, v \in Ways : t # s \/ v # w =>
          /\ <<t, v>> \in spoiled' <=> <<t, v>> \in spoiled
          /\ \A q \in Procs : Overwrites(q, t, v)' <=> Overwrites(q, t, v)
  BY <1>1, <1>2, <1>4 DEF Overwrites
<1>6. ASSUME NEW q \in Procs, NEW t, t = s, NEW v \in Ways, v = w PROVE ~Overwrites(q, t, v)'
  BY <1>1, <1>4, <1>6
<1> HIDE DEF s, w
<1>7. ASSUME NEW k \in Keys, k # key[p], k # page_ids[s][w] PROVE held'[k] = held[k]
  BY <1>1, <1>2, <1>3, <1>5, <1>7, OtherKeysStay
<1>8. ASSUME NEW k \in Keys, k # key[p], k = page_ids[s][w] PROVE held'[k] = held[k]
  <2>1. locate(k) = s /\ \A v \in Ways : page_ids[s][v] = k => v = w
    BY <1>1, <1>8, SharedCacheAssumption DEF Exclusive, KeysPlaced, EMPTY_KEY
  <2>2. held[k] = NoPage
    BY <1>1, <1>8, <2>1, HeldBySlot DEF HeldInWay, InWay
  <2>3. ASSUME NEW v \in Ways PROVE ~InWay(k, v)'
    <3>1. page_ids'[s][v] # k
      BY <1>1, <1>2, <1>8, <2>1
    <3>2. page_ids'[locate(k)][v] # k
      BY <2>1, <3>1
    <3> QED
      BY <3>2 DEF InWay, locate
  <2>4. held'[k] = NoPage
    BY <2>3 DEF Held
  <2> QED
    BY <2>2, <2>4
<1>9. ASSUME NEW k \in Keys, k = key[p] PROVE held'[k] = page[p]
  <2>1. PICK v \in Ways : v = w
    BY <1>1
  <2>2. locate(k) = s
    BY <1>1, <1>9
  <2>3. InWay(k, v)'
    BY <1>1, <1>2, <1>3, <1>9, <2>1, <2>2 DEF InWay, locate
  <2>4. \A q \in Procs : ~Overwrites(q, locate(k), v)'
    BY <1>6, <2>1, <2>2
  <2>5. <<locate(k), v>> \notin spoiled' /\ data'[locate(k)][v] = page[p]
    BY <1>1, <1>2, <1>3, <2>1, <2>2
  <2> QED
    BY <2>3, <2>4, <2>5, HeldBySlotNext DEF HeldInWay
<1>10. held' = [held EXCEPT ![key[p]] = page[p]]
  <2>1. \A k \in Keys : k # key[p] => held'[k] = held[k]
    BY <1>7, <1>8
  <2> QED
    BY <1>1, <1>9, <2>1, OneKeyChanges
<1>11. /\ calls[p] = [op |-> "put", key |-> key[p], page |-> page[p]]
       /\ calls' = [calls EXCEPT ![p] = [op |-> "stored"]]
  <2>1. /\ calls[p] = CallOf("put_key", key[p], page[p], out[p])
        /\ calls' = [calls EXCEPT ![p] = CallOf("decay", key[p], page[p], out[p])]
    BY <1>1, <1>3, CallOfOne DEF PutKey
  <2>2. /\ CallOf("put_key", key[p], page[p], out[p])
               = [op |-> "put", key |-> key[p], page |-> page[p]]
        /\ CallOf("decay", key[p], page[p], out[p]) = [op |-> "stored"]
    BY <1>1, CallOfLabel DEF Putting
  <2> QED
    BY <2>1, <2>2
<1>12. calls[p].op = "put" /\ calls[p].key = key[p] /\ calls[p].page = page[p]
  BY <1>11
<1>13. Promise!Store(p)
  BY <1>10, <1>11, <1>12 DEF Promise!Store
<1> QED
  BY <1>13 DEF Promised, Promise!Next


LEMMA UnlockPromised ==
    ASSUME TypeOK, Held, Held', Carried, NEW p \in Procs, Unlock(p)
    PROVE  Promised
<1> USE DEF fileVars, setVars, initVars, histVars
<1>1. \A q \in Procs : q # p => /\ key'[q] = key[q] /\ page'[q] = page[q]
                                /\ way'[q] = way[q] /\ out'[q] = out[q]
  BY DEF Unlock, EndCall, TypeOK
<1>2. pc'[p] = "idle" /\ \A q \in Procs : q # p => pc'[q] = pc[q]
  BY DEF Unlock, Goto, TypeOK
<1>3. UNCHANGED held
  BY <1>1, <1>2, QuietKeepsHeld DEF Unlock
<1>4. /\ calls[p] \in {[op |-> "stored"], [op |-> "answered", out |-> out[p]]}
      /\ calls' = [calls EXCEPT ![p] = [op |-> "none"]]
  <2>1. /\ calls[p] = CallOf("unlock", key[p], page[p], out[p])
        /\ calls' = [calls EXCEPT ![p] = CallOf("idle", key'[p], page'[p], out'[p])]
    BY <1>1, CallOfOne DEF Unlock
  <2>2. /\ CallOf("unlock", key[p], page[p], out[p])
               \in {[op |-> "stored"], [op |-> "answered", out |-> out[p]]}
        /\ CallOf("idle", key'[p], page'[p], out'[p]) = [op |-> "none"]
    BY CallOfLabel
  <2> QED
    BY <2>1, <2>2
<1>5. calls[p].op \in {"answered", "stored"}
  BY <1>4
<1>6. Promise!Return(p)
  BY <1>3, <1>4, <1>5 DEF Promise!Return, Promise!NoCall
<1> QED
  BY <1>6 DEF Promised, Promise!Next

\* A process that is killed in a put damages the entry of one key at most.
LEMMA KillPromised ==
    ASSUME TypeOK, Creation, Exclusive, Held, Held', Carried, NEW p \in Procs, Kill(p)
    PROVE  Promised
<1> USE DEF fileVars, setVars
<1>1. \A q \in Procs : q # p => /\ key'[q] = key[q] /\ page'[q] = page[q]
                                /\ way'[q] = way[q] /\ out'[q] = out[q]
  BY DEF Kill, EndCall, TypeOK
<1>2. pc'[p] = "off" /\ \A q \in Procs : q # p => pc'[q] = pc[q]
  BY DEF Kill, Goto, TypeOK
<1>3. calls[p] = CallOf(pc[p], key[p], page[p], out[p])
  BY CallsAre
<1>4. calls' = [calls EXCEPT ![p] = [op |-> "none"]]
  <2>1. calls' = [calls EXCEPT ![p] = CallOf("off", key'[p], page'[p], out'[p])]
    BY <1>1, CallOfOne DEF Kill
  <2>2. CallOf("off", key'[p], page'[p], out'[p]) = [op |-> "none"]
    BY CallOfLabel
  <2> QED
    BY <2>1, <2>2
<1>5. CASE pc[p] \notin {"put_copy", "put_key"}
  <2>1. UNCHANGED held
    BY <1>1, <1>2, <1>5, QuietKeepsHeld DEF Kill, unfinished
  <2>2. CASE calls[p] = [op |-> "none"]
    <3>1. calls = [q \in Procs |-> calls[q]]
      BY CallsAre
    <3>2. UNCHANGED calls
      BY <1>4, <2>2, <3>1
    <3> QED
      BY <2>1, <3>2 DEF Promised
  <2>3. CASE calls[p] # [op |-> "none"]
    <3>1. Promise!Die(p)
      BY <1>4, <2>1, <2>3 DEF Promise!Die, Promise!NoCall
    <3> QED
      BY <3>1 DEF Promised, Promise!Next
  <2> QED
    BY <2>2, <2>3
<1>6. CASE pc[p] \in {"put_copy", "put_key"}
  <2> DEFINE s == set_of(p)
             w == way[p]
  <2>1. /\ s \in Sets /\ s[1] \in ready /\ w \in Ways /\ Overwrites(p, s, w)
        /\ \A q \in Procs, v \in Ways : Overwrites(q, s, v) => q = p /\ v = w
    BY <1>6, WritesSlot
  <2>2. UNCHANGED <<ready, page_ids, data>> /\ spoiled' = spoiled \union {<<s, w>>}
    BY <1>6 DEF Kill, unfinished
  <2>3. ASSUME NEW t, NEW v, NEW q \in Procs
        PROVE  Overwrites(q, t, v)' <=> Overwrites(q, t, v) /\ q # p
    BY <1>1, <1>2 DEF Overwrites, set_of, locate
  <2>4. \A t \in Sets, v \in Ways : t # s \/ v # w =>
            /\ <<t, v>> \in spoiled' <=> <<t, v>> \in spoiled
            /\ \A q \in Procs : Overwrites(q, t, v)' <=> Overwrites(q, t, v)
    BY <2>1, <2>2, <2>3 DEF Overwrites
  <2>5. calls[p].op = "put" /\ calls[p] # [op |-> "none"]
    <3>1. calls[p] = [op |-> "put", key |-> key[p], page |-> page[p]]
      BY <1>3, <1>6, CallOfLabel DEF Putting
    <3> QED
      BY <3>1
  <2> HIDE DEF s, w
  <2>6. ASSUME NEW k \in Keys, k # page_ids[s][w] PROVE held'[k] = held[k]
    BY <2>1, <2>2, <2>4, <2>6, OtherKeysStay
  <2>7. CASE page_ids[s][w] \in Keys
    <3>1. ASSUME NEW k \in Keys, k = page_ids[s][w] PROVE held'[k] = Torn
      <4>1. PICK v \in Ways : v = w
        BY <2>1
      <4>2. locate(k) = s
        BY <2>1, <3>1, SharedCacheAssumption DEF Exclusive, KeysPlaced, EMPTY_KEY
      <4>3. InWay(k, v)'
        BY <2>1, <2>2, <3>1, <4>1, <4>2 DEF InWay, locate
      <4>4. \A q \in Procs : ~Overwrites(q, locate(k), v)'
        BY <2>1, <2>3, <4>1, <4>2
      <4>5. <<locate(k), v>> \in spoiled'
        BY <2>2, <4>1, <4>2
      <4> QED
        BY <4>3, <4>4, <4>5, HeldBySlotNext DEF HeldInWay
    <3>2. ASSUME NEW k \in Keys, k = page_ids[s][w] PROVE held' = [held EXCEPT ![k] = Torn]
      BY <2>6, <3>1, <3>2, OneKeyChanges
    <3>3. PICK k \in Keys : held' = [held EXCEPT ![k] = Torn]
      BY <2>7, <3>2
    <3>4. Promise!Die(p)
      BY <1>4, <2>5, <3>3 DEF Promise!Die, Promise!NoCall
    <3> QED
      BY <3>4 DEF Promised, Promise!Next
  <2>8. CASE page_ids[s][w] \notin Keys
    <3>1. UNCHANGED held
      BY <2>6, <2>8, NothingForgotten
    <3>2. Promise!Die(p)
      BY <1>4, <2>5, <3>1 DEF Promise!Die, Promise!NoCall
    <3> QED
      BY <3>2 DEF Promised, Promise!Next
  <2> QED
    BY <2>7, <2>8
<1> QED
  BY <1>5, <1>6

\* Nobody is in a call while the file is deleted or its metadata is zeroed.
LEMMA ClearPromised ==
    ASSUME Held, Held', UNCHANGED <<key, page, out>>, ready' = {},
           \A q \in Procs : /\ pc[q] \in {"off", "size", "zero", "init", "path", "idle"}
                            /\ pc'[q] \in {"off", "size", "zero", "init", "path", "idle"}
    PROVE  Promised
<1>1. calls = [q \in Procs |-> [op |-> "none"]] /\ calls' = calls
  <2>1. \A q \in Procs : /\ CallOf(pc[q], key[q], page[q], out[q]) = [op |-> "none"]
                         /\ CallOf(pc'[q], key'[q], page'[q], out'[q]) = [op |-> "none"]
    BY CallOfLabel
  <2> QED
    BY <2>1, CallsAre
<1>2. ASSUME NEW k \in Keys PROVE held'[k] = NoPage
  <2>1. \A w \in Ways : ~InWay(k, w)'
    BY DEF InWay
  <2> QED
    BY <2>1 DEF Held
<1>3. held' = [k \in Keys |-> NoPage]
  BY <1>2 DEF Held
<1>4. Promise!Clear
  BY <1>1, <1>3 DEF Promise!Clear, Promise!NoCall
<1> QED
  BY <1>4 DEF Promised, Promise!Next

\* A set that has just been initialised holds nothing, as before.
LEMMA InitMetaPromised ==
    ASSUME TypeOK, Creation, Held, Held', NEW p \in Procs, InitMeta(p)
    PROVE  Promised
<1> USE DEF fileVars, callVars, histVars
<1>1. /\ Attached = {} /\ ready = {m \in Metas : m < meta_idx[p]} /\ meta_idx[p] \in Nat
      /\ ready' = ready \union {meta_idx[p]}
  BY CallTyped, SharedCacheAssumption DEF InitMeta, Creation, CreatorAlone
<1>2. meta_idx[p] \notin ready
  BY <1>1
<1>3. ASSUME NEW k \in Keys PROVE held'[k] = held[k]
  <2>1. locate(k) \in Sets /\ k # EMPTY_KEY
    BY LocateType, SharedCacheAssumption DEF EMPTY_KEY
  <2>2. ASSUME NEW w \in Ways PROVE InWay(k, w)' <=> InWay(k, w)
    <3>1. CASE locate(k)[1] = meta_idx[p]
      <4>1. page_ids'[locate(k)][w] = EMPTY_KEY
        BY <2>1, <3>1 DEF InitMeta
      <4> QED
        BY <1>2, <2>1, <3>1, <4>1 DEF InWay, locate
    <3>2. CASE locate(k)[1] # meta_idx[p]
      <4>1. page_ids'[locate(k)] = page_ids[locate(k)]
        BY <2>1, <3>2 DEF InitMeta
      <4> QED
        BY <1>1, <3>2, <4>1 DEF InWay, locate
    <3> QED
      BY <3>1, <3>2
  <2>3. ASSUME NEW w \in Ways PROVE entry(locate(k), w)' = entry(locate(k), w)
    <3>1. ASSUME NEW t, NEW v, NEW q \in Procs PROVE Overwrites(q, t, v)' <=> Overwrites(q, t, v)
      BY DEF InitMeta, Overwrites, set_of, locate
    <3> QED
      BY <3>1, EntryStays DEF InitMeta
  <2> QED
    BY <2>2, <2>3, KeyStays
<1>4. UNCHANGED held
  BY <1>3, NothingForgotten
<1>5. UNCHANGED calls
  BY DEF InitMeta, calls
<1> QED
  BY <1>4, <1>5 DEF Promised


LEMMA InitPromised == Init => Promise!Init
<1> SUFFICES ASSUME Init PROVE Promise!Init
  OBVIOUS
<1>1. KeysPlaced
  BY DEF Init, KeysPlaced
<1>2. ASSUME NEW k \in Keys PROVE held[k] = NoPage
  <2>1. \A w \in Ways : ~InWay(k, w)
    BY DEF Init, InWay
  <2> QED
    BY <1>1, <2>1, PlacedHeld DEF Held
<1>3. held = [k \in Keys |-> NoPage]
  BY <1>1, <1>2, PlacedHeld DEF Held
<1>4. calls = [p \in Procs |-> [op |-> "none"]]
  <2>1. \A p \in Procs : CallOf(pc[p], key[p], page[p], out[p]) = [op |-> "none"]
    BY CallOfLabel DEF Init
  <2> QED
    BY <2>1, CallsAre
<1> QED
  BY <1>3, <1>4 DEF Promise!Init, Promise!NoCall

LEMMA StepPromised ==
    ASSUME TypeOK, Creation, Exclusive, Exclusive', Carried, [Next]_vars
    PROVE  Promised
<1> USE DEF fileVars, setVars, callVars, initVars, histVars
<1>1. Held /\ Held'
  BY PlacedHeld, PlacedHeldNext DEF Exclusive
<1>2. ASSUME NEW p \in Procs, NEW label, Goto(p, label),
             label \notin {"put_copy", "put_key"}, pc[p] \notin {"put_copy", "put_key"},
             UNCHANGED <<ready, page_ids, data, spoiled, key, page, way, out>>,
             CallOf(label, key[p], page[p], out[p]) = CallOf(pc[p], key[p], page[p], out[p])
      PROVE  Promised
  BY <1>1, <1>2, QuietStutters DEF Promised
<1>3. ASSUME NEW p \in Procs, NEW from, from = pc[p], NEW label, Goto(p, label),
             from \in {"off", "size", "zero", "init", "path", "idle"},
             label \in {"off", "size", "zero", "init", "path", "idle"},
             UNCHANGED <<ready, page_ids, data, spoiled, key, page, way, out>>
      PROVE  Promised
  <2>1. CallOf(label, key[p], page[p], out[p]) = CallOf(pc[p], key[p], page[p], out[p])
    BY <1>3, CallOfLabel
  <2> QED
    BY <1>2, <1>3, <2>1
<1>4. ASSUME NEW p \in Procs, NEW id \in Identities, Create(p, id) \/ Open(p, id) PROVE Promised
  BY <1>3, <1>4 DEF Create, Open
<1>5. ASSUME NEW p \in Procs, CreateNothing(p) \/ Ftruncate(p) PROVE Promised
  BY <1>3, <1>5 DEF CreateNothing, Created, Ftruncate
<1>6. ASSUME NEW p \in Procs, WriteMagic(p) \/ WritePath(p) \/ Drop(p) PROVE Promised
  BY <1>3, <1>6 DEF WriteMagic, WritePath, Created, Drop
<1>7. ASSUME NEW p \in Procs, ZeroMetadata(p) PROVE Promised
  <2>1. Attached = {}
    BY <1>7 DEF ZeroMetadata, Creation, CreatorAlone
  <2>2. \A q \in Procs : pc[q] \in {"off", "size", "zero", "init", "path"}
    BY <2>1 DEF Attached, Creating, Detached
  <2>3. pc'[p] = "init" /\ \A q \in Procs : q # p => pc'[q] = pc[q]
    BY <1>7 DEF ZeroMetadata, Goto, TypeOK
  <2>4. UNCHANGED <<key, page, out>> /\ ready' = {}
    BY <1>7 DEF ZeroMetadata
  <2> QED
    BY <1>1, <2>2, <2>3, <2>4, ClearPromised
<1>8. CASE Delete
  <2>1. \A q \in Procs : pc[q] = "off"
    BY <1>8 DEF Delete, Detached
  <2>2. UNCHANGED <<pc, key, page, out>> /\ ready' = {}
    BY <1>8 DEF Delete
  <2> QED
    BY <1>1, <2>1, <2>2, ClearPromised
<1>9. ASSUME NEW p \in Procs, Lock(p) PROVE Promised
  <2> DEFINE to == IF pc[p] = "get_lock" THEN "get_find" ELSE "put_find"
  <2>1. CallOf(to, key[p], page[p], out[p]) = CallOf(pc[p], key[p], page[p], out[p])
    <3>1. CASE pc[p] = "get_lock"
      BY <3>1, CallOfLabel
    <3>2. CASE pc[p] = "put_lock"
      BY <3>2, CallOfLabel DEF Putting
    <3> QED
      BY <1>9, <3>1, <3>2 DEF Lock
  <2>2. Goto(p, to) /\ to \notin {"put_copy", "put_key"}
    BY <1>9 DEF Lock
  <2> HIDE DEF to
  <2>3. Promised
    BY <1>9, <2>1, <2>2, <1>1, QuietStutters DEF Lock, Promised
  <2> QED
    BY <2>3
<1>10. ASSUME NEW p \in Procs, NEW from, NEW label, from = pc[p],
              from \in {"decay", "stamp", "unlock"}, label \in {"decay", "stamp", "unlock"},
              Goto(p, label),
              UNCHANGED <<ready, page_ids, data, spoiled, key, page, way, out>>
       PROVE  Promised
  <2>1. CallOf(label, key[p], page[p], out[p]) = CallOf(pc[p], key[p], page[p], out[p])
    BY <1>10, CallOfLabel
  <2> QED
    BY <1>2, <1>10, <2>1
<1>11. ASSUME NEW p \in Procs, Decay(p) \/ Stamp(p) PROVE Promised
  BY <1>10, <1>11 DEF Decay, Stamp
<1>12. ASSUME NEW p \in Procs, InitMeta(p) PROVE Promised
  BY <1>1, <1>12, InitMetaPromised
<1>13. ASSUME NEW p \in Procs, NEW k \in Keys, Get(p, k) PROVE Promised
  BY <1>1, <1>13, GetPromised
<1>14. ASSUME NEW p \in Procs, NEW k \in Keys, NEW image \in Images[k], Put(p, k, image)
       PROVE  Promised
  BY <1>1, <1>14, PutPromised
<1>15. ASSUME NEW p \in Procs, GetHit(p) \/ GetMiss(p) PROVE Promised
  BY <1>1, <1>15, HitPromised, MissPromised
<1>16. ASSUME NEW p \in Procs, PutFind(p) \/ PutCopied(p) \/ PutKey(p) PROVE Promised
  BY <1>1, <1>16, FindPromised, CopiedPromised, KeyPromised
<1>17. ASSUME NEW p \in Procs, Unlock(p) \/ Kill(p) PROVE Promised
  BY <1>1, <1>17, UnlockPromised, KillPromised
<1>18. CASE UNCHANGED vars
  <2>1. UNCHANGED calls
    BY <1>18 DEF vars, calls
  <2>2. UNCHANGED held
    BY <1>1, <1>18, QuietKeepsHeld DEF vars
  <2> QED
    BY <2>1, <2>2 DEF Promised
<1> QED
  BY <1>4, <1>5, <1>6, <1>7, <1>8, <1>9, <1>11, <1>12, <1>13, <1>14, <1>15, <1>16, <1>17, <1>18
     DEF Next, Call, Step

\* cache.rs, get and put: a get that hits answers the page that the last put of
\* the key has stored, whole, for any number of processes, sets, ways, keys and
\* kills; a process that is killed in a put damages the entry of one key at most.
THEOREM CacheKeepsItsPromise ==
    ASSUME MaxCreators <= 1
    PROVE  Spec => RefinesCache
<1> DEFINE Inv == TypeOK /\ Creation /\ Exclusive /\ Carried
<1>1. Init => Inv
  BY InitType, InitCreation, InitExclusive, InitCarried
<1>2. Inv /\ [Next]_vars => Inv'
  BY StepType, StepCreation, StepExclusive, StepCarried
<1>3. Inv /\ Inv' /\ [Next]_vars => [Promise!Next]_<<held, calls>>
  BY StepPromised DEF Promised
<1> QED
  BY <1>1, <1>2, <1>3, InitPromised, PTL DEF Spec, RefinesCache, Promise!Spec
=============================================================================
