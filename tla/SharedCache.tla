----------------------------- MODULE SharedCache -----------------------------
(***************************************************************************)
(* The page cache in shared memory (bxdb-core/src/cache.rs): a file that   *)
(* processes map, of sets of ways, with one robust mutex for the sets of a *)
(* metadata page.  Processes create and delete the file, attach to it, get *)
(* and put pages, and may be killed at every step.                         *)
(*                                                                         *)
(* BtreeDb is compiled without the cache (DISABLE_SHARED_CACHE); the bxdb  *)
(* command creates, opens and deletes it.                                  *)
(*                                                                         *)
(* A process is one thread here.  A page is copied in two steps, between   *)
(* which the slot holds Torn, part of the one page and part of the other.  *)
(* Sets are as init_metadata leaves them once their page is in ready.      *)
(***************************************************************************)
EXTENDS Integers, FiniteSets

CONSTANTS
    Procs,
    METADATA_PAGES,
    SETS_PER_META,
    WAYS_PER_SET,
    U8_MAX,             \* the greatest timestamp, 255 in the code
    Keys,               \* keys of pages, numbers; EMPTY_KEY is none of them
    Hash,               \* key.wrapping_mul(FIB_MUL), of every key
    Contents,           \* pages
    Images,             \* of every key, the pages that are put under it
    Identities,         \* the databases that share the path of the file
    NoPage, Torn,
    MaxCreators,        \* bound: processes that create the file at once
    MaxKills            \* bound: processes killed in a behaviour

EMPTY_KEY == -1
None      == "none"     \* no owner, no identity
Died      == "died"     \* the owner of the mutex has died

ASSUME SharedCacheAssumption ==
    /\ IsFiniteSet(Procs)
    /\ Procs \intersect {None, Died} = {}
    /\ METADATA_PAGES \in Nat \ {0}
    /\ SETS_PER_META \in Nat \ {0}
    /\ WAYS_PER_SET \in Nat \ {0}
    /\ U8_MAX \in Nat \ {0}
    /\ Keys \subseteq Nat
    /\ 0 \in Keys
    /\ Hash \in [Keys -> Nat]
    /\ Images \in [Keys -> SUBSET Contents]
    /\ NoPage \notin Contents
    /\ Torn \notin Contents
    /\ Torn # NoPage
    /\ None \notin Identities
    /\ MaxCreators \in Nat
    /\ MaxKills \in Nat

-----------------------------------------------------------------------------

VARIABLES
    \* the file
    file,           \* "none", "short" before ftruncate, "full"
    magic, path,    \* the identity region
    page_ids,       \* per set and way
    timestamps,
    data,
    owner,          \* per metadata page, the owner of its mutex
    ready,          \* the metadata pages that have been initialised
    \* the processes
    pc,
    key, page,      \* the arguments of the call
    way,            \* the way that it has found
    out,            \* what a get has copied
    ident,          \* the identity that a create writes
    meta_idx,       \* the metadata page that it initialises next
    \* history
    older,          \* per set, the pairs of ways of which the first was used
                    \* longer ago than the second
    spoiled,        \* the slots that an owner has died over
    kills

fileVars == <<file, magic, path, ready>>
setVars  == <<page_ids, timestamps, data>>
callVars == <<key, page, way, out>>
initVars == <<ident, meta_idx>>
histVars == <<older, spoiled>>
vars == <<fileVars, setVars, owner, pc, callVars, initVars, histVars, kills>>

-----------------------------------------------------------------------------

Metas == 0..(METADATA_PAGES - 1)
Sets  == Metas \X (0..(SETS_PER_META - 1))
Ways  == 0..(WAYS_PER_SET - 1)

locate(k) == <<(Hash[k] \div SETS_PER_META) % METADATA_PAGES, Hash[k] % SETS_PER_META>>

meta_of(p) == locate(key[p])[1]
set_of(p)  == locate(key[p])

Creating == {p \in Procs : pc[p] \in {"size", "zero", "init", "path"}}
Detached == {p \in Procs : pc[p] = "off"}
Attached == Procs \ (Creating \union Detached)

\* The pcs of a call that holds the mutex.
Inside == {"get_find", "put_find", "put_copy", "put_key", "decay", "stamp", "unlock"}

NoneOlder == [s \in Sets |-> {}]

Init ==
    /\ file = "none"
    /\ magic = FALSE
    /\ path = None
    /\ page_ids = [s \in Sets |-> [w \in Ways |-> 0]]
    /\ timestamps = [s \in Sets |-> [w \in Ways |-> 0]]
    /\ data = [s \in Sets |-> [w \in Ways |-> NoPage]]
    /\ owner = [m \in Metas |-> None]
    /\ ready = {}
    /\ pc = [p \in Procs |-> "off"]
    /\ key = [p \in Procs |-> 0]
    /\ page = [p \in Procs |-> NoPage]
    /\ way = [p \in Procs |-> 0]
    /\ out = [p \in Procs |-> NoPage]
    /\ ident = [p \in Procs |-> None]
    /\ meta_idx = [p \in Procs |-> 0]
    /\ older = NoneOlder
    /\ spoiled = {}
    /\ kills = 0

Goto(p, label) == pc' = [pc EXCEPT ![p] = label]

-----------------------------------------------------------------------------
(* create, open and delete                                                 *)

verify_identity(id) == magic /\ path = id

\* A file of size 0 is there from now on.  Whoever creates the cache anew has
\* made sure that nobody is attached.
Create(p, id) ==
    /\ pc[p] = "off"
    /\ Cardinality(Creating) < MaxCreators
    /\ Attached = {} \/ (file = "full" /\ verify_identity(id))
    /\ file' = IF file = "none" THEN "short" ELSE file
    /\ ident' = [ident EXCEPT ![p] = id]
    /\ Goto(p, "size")
    /\ UNCHANGED <<magic, path, ready, setVars, owner, callVars, meta_idx, histVars, kills>>

\* The end of a create.
Created(p) ==
    /\ Goto(p, "off")
    /\ ident' = [ident EXCEPT ![p] = None]
    /\ meta_idx' = [meta_idx EXCEPT ![p] = 0]

\* The cache is there and belongs to the database: nothing to do.
CreateNothing(p) ==
    /\ pc[p] = "size"
    /\ file = "full"
    /\ verify_identity(ident[p])
    /\ Created(p)
    /\ UNCHANGED <<fileVars, setVars, owner, callVars, histVars, kills>>

Ftruncate(p) ==
    /\ pc[p] = "size"
    /\ ~(file = "full" /\ verify_identity(ident[p]))
    /\ file' = "full"
    /\ Goto(p, "zero")
    /\ UNCHANGED <<magic, path, ready, setVars, owner, callVars, initVars, histVars, kills>>

\* init_metadata: all metadata is zeroed, the identity with it.  The mutexes
\* are none that survive the death of an owner, and 0 is the key of a page.
ZeroMetadata(p) ==
    /\ pc[p] = "zero"
    /\ magic' = FALSE
    /\ path' = None
    /\ ready' = {}
    /\ page_ids' = [s \in Sets |-> [w \in Ways |-> 0]]
    /\ timestamps' = [s \in Sets |-> [w \in Ways |-> 0]]
    /\ owner' = [m \in Metas |-> None]
    /\ older' = NoneOlder
    /\ spoiled' = {}
    /\ Goto(p, "init")
    /\ UNCHANGED <<file, data, callVars, initVars, kills>>

InitMeta(p) ==
    LET m == meta_idx[p]
    IN  /\ pc[p] = "init"
        /\ m < METADATA_PAGES
        /\ page_ids' = [s \in Sets |-> IF s[1] = m THEN [w \in Ways |-> EMPTY_KEY]
                                                  ELSE page_ids[s]]
        /\ timestamps' = [s \in Sets |-> IF s[1] = m THEN [w \in Ways |-> 0]
                                                    ELSE timestamps[s]]
        /\ owner' = [owner EXCEPT ![m] = None]
        /\ ready' = ready \union {m}
        /\ meta_idx' = [meta_idx EXCEPT ![p] = m + 1]
        /\ UNCHANGED <<file, magic, path, data, pc, callVars, ident, histVars, kills>>

\* Mutant: the identity is written before the metadata is complete.
WriteMagic_early(p) ==
    /\ pc[p] = "init"
    /\ magic' = TRUE
    /\ Goto(p, "path")
    /\ UNCHANGED <<file, path, ready, setVars, owner, callVars, initVars, histVars, kills>>

\* write_identity
WriteMagic(p) ==
    /\ pc[p] = "init"
    /\ meta_idx[p] = METADATA_PAGES
    /\ magic' = TRUE
    /\ Goto(p, "path")
    /\ UNCHANGED <<file, path, ready, setVars, owner, callVars, initVars, histVars, kills>>

WritePath(p) ==
    /\ pc[p] = "path"
    /\ path' = ident[p]
    /\ Created(p)
    /\ UNCHANGED <<file, magic, ready, setVars, owner, callVars, histVars, kills>>

\* open: fails unless the file is there, has its size and carries the identity.
\* No create is running: its caller has made sure.
Open(p, id) ==
    /\ pc[p] = "off"
    /\ Creating = {}
    /\ file = "full"
    /\ verify_identity(id)
    /\ Goto(p, "idle")
    /\ UNCHANGED <<fileVars, setVars, owner, callVars, initVars, histVars, kills>>

\* drop unmaps the file.
Drop(p) ==
    /\ pc[p] = "idle"
    /\ Goto(p, "off")
    /\ UNCHANGED <<fileVars, setVars, owner, callVars, initVars, histVars, kills>>

\* bxdb cache delete, while nobody uses the cache.
Delete ==
    /\ Detached = Procs
    /\ file # "none"
    /\ file' = "none"
    /\ magic' = FALSE
    /\ path' = None
    /\ ready' = {}
    /\ page_ids' = [s \in Sets |-> [w \in Ways |-> 0]]
    /\ timestamps' = [s \in Sets |-> [w \in Ways |-> 0]]
    /\ data' = [s \in Sets |-> [w \in Ways |-> NoPage]]
    /\ owner' = [m \in Metas |-> None]
    /\ older' = NoneOlder
    /\ spoiled' = {}
    /\ UNCHANGED <<pc, callVars, initVars, kills>>

-----------------------------------------------------------------------------
(* get and put                                                             *)

Get(p, k) ==
    /\ pc[p] = "idle"
    /\ key' = [key EXCEPT ![p] = k]
    /\ Goto(p, "get_lock")
    /\ UNCHANGED <<fileVars, setVars, owner, page, way, out, initVars, histVars, kills>>

Put(p, k, image) ==
    /\ pc[p] = "idle"
    /\ key' = [key EXCEPT ![p] = k]
    /\ page' = [page EXCEPT ![p] = image]
    /\ Goto(p, "put_lock")
    /\ UNCHANGED <<fileVars, setVars, owner, way, out, initVars, histVars, kills>>

\* Mutant: no mutual exclusion.
lockable_always(m) == TRUE

\* EOWNERDEAD: the mutex is made consistent, and the sets are left as they are.
lockable(m) == owner[m] \in {None, Died}

\* Mutant: EOWNERDEAD is answered by another attempt.
Lock_retrying(p) ==
    /\ pc[p] \in {"get_lock", "put_lock"}
    /\ lockable(meta_of(p))
    /\ IF owner[meta_of(p)] = Died THEN UNCHANGED vars
       ELSE /\ owner' = [owner EXCEPT ![meta_of(p)] = p]
            /\ Goto(p, IF pc[p] = "get_lock" THEN "get_find" ELSE "put_find")
            /\ UNCHANGED <<fileVars, setVars, callVars, initVars, histVars, kills>>

Lock(p) ==
    /\ pc[p] \in {"get_lock", "put_lock"}
    /\ lockable(meta_of(p))
    /\ owner' = [owner EXCEPT ![meta_of(p)] = p]
    /\ Goto(p, IF pc[p] = "get_lock" THEN "get_find" ELSE "put_find")
    /\ UNCHANGED <<fileVars, setVars, callVars, initVars, histVars, kills>>

ways_of(s, k) == {w \in Ways : page_ids[s][w] = k}

\* The first of some ways, as a set.
first(ways) == {w \in ways : \A v \in ways : w <= v}

\* find_way and, on a hit, the copy of the page.
GetHit(p) ==
    /\ pc[p] = "get_find"
    /\ \E w \in first(ways_of(set_of(p), key[p])) :
          /\ way' = [way EXCEPT ![p] = w]
          /\ out' = [out EXCEPT ![p] = data[set_of(p)][w]]
    /\ Goto(p, "decay")
    /\ UNCHANGED <<fileVars, setVars, owner, key, page, initVars, histVars, kills>>

GetMiss(p) ==
    /\ pc[p] = "get_find"
    /\ ways_of(set_of(p), key[p]) = {}
    /\ Goto(p, "unlock")
    /\ UNCHANGED <<fileVars, setVars, owner, callVars, initVars, histVars, kills>>

\* The ways with the least timestamp, if that is below the greatest there is.
oldest(s) ==
    {w \in Ways : /\ timestamps[s][w] < U8_MAX
                  /\ \A v \in Ways : timestamps[s][w] <= timestamps[s][v]}

\* Mutants: the key is not looked for; the way last used makes room.
target_blind(s, k) ==
    IF ways_of(s, EMPTY_KEY) # {} THEN first(ways_of(s, EMPTY_KEY))
    ELSE IF oldest(s) # {} THEN first(oldest(s)) ELSE {0}
target_newest(s, k) ==
    IF ways_of(s, k) # {} THEN first(ways_of(s, k))
    ELSE IF ways_of(s, EMPTY_KEY) # {} THEN first(ways_of(s, EMPTY_KEY))
    ELSE first({w \in Ways : \A v \in Ways : timestamps[s][v] <= timestamps[s][w]})

\* The way that holds the key, or else an empty one, or else the oldest, or
\* else way 0.
target(s, k) ==
    IF ways_of(s, k) # {} THEN first(ways_of(s, k))
    ELSE IF ways_of(s, EMPTY_KEY) # {} THEN first(ways_of(s, EMPTY_KEY))
    ELSE IF oldest(s) # {} THEN first(oldest(s)) ELSE {0}

write_slot(s, w, image) == data' = [data EXCEPT ![s][w] = image]

PutFind(p) ==
    /\ pc[p] = "put_find"
    /\ \E w \in target(set_of(p), key[p]) :
          /\ way' = [way EXCEPT ![p] = w]
          /\ write_slot(set_of(p), w, IF data[set_of(p)][w] = page[p] THEN page[p] ELSE Torn)
    /\ Goto(p, "put_copy")
    /\ UNCHANGED <<fileVars, page_ids, timestamps, owner, key, page, out, initVars,
                   histVars, kills>>

PutCopied(p) ==
    /\ pc[p] = "put_copy"
    /\ write_slot(set_of(p), way[p], page[p])
    /\ Goto(p, "put_key")
    /\ UNCHANGED <<fileVars, page_ids, timestamps, owner, callVars, initVars, histVars, kills>>

PutKey(p) ==
    /\ pc[p] = "put_key"
    /\ page_ids' = [page_ids EXCEPT ![set_of(p)][way[p]] = key[p]]
    /\ spoiled' = spoiled \ {<<set_of(p), way[p]>>}
    /\ Goto(p, "decay")
    /\ UNCHANGED <<fileVars, timestamps, data, owner, callVars, initVars, older, kills>>

\* Mutant: timestamps do not stop at 0.
Decay_unsaturated(p) ==
    /\ pc[p] = "decay"
    /\ timestamps' = [timestamps EXCEPT ![set_of(p)] =
                          [w \in Ways |-> @[w] - 1]]
    /\ Goto(p, "stamp")
    /\ UNCHANGED <<fileVars, page_ids, data, owner, callVars, initVars, histVars, kills>>

\* update_lru: all timestamps of the set go down by one, saturating at 0, ...
Decay(p) ==
    /\ pc[p] = "decay"
    /\ timestamps' = [timestamps EXCEPT ![set_of(p)] =
                          [w \in Ways |-> IF @[w] = 0 THEN 0 ELSE @[w] - 1]]
    /\ Goto(p, "stamp")
    /\ UNCHANGED <<fileVars, page_ids, data, owner, callVars, initVars, histVars, kills>>

\* ... and that of the way goes to the greatest.
Stamp(p) ==
    /\ pc[p] = "stamp"
    /\ timestamps' = [timestamps EXCEPT ![set_of(p)][way[p]] = U8_MAX]
    /\ older' = [older EXCEPT ![set_of(p)] = {pair \in @ : pair[1] # way[p]}
                                             \union ((Ways \ {way[p]}) \X {way[p]})]
    /\ Goto(p, "unlock")
    /\ UNCHANGED <<fileVars, page_ids, data, owner, callVars, initVars, spoiled, kills>>

\* The variables of the call go out of scope.
EndCall(p) ==
    /\ key' = [key EXCEPT ![p] = 0]
    /\ page' = [page EXCEPT ![p] = NoPage]
    /\ way' = [way EXCEPT ![p] = 0]
    /\ out' = [out EXCEPT ![p] = NoPage]

Unlock(p) ==
    /\ pc[p] = "unlock"
    /\ owner' = [owner EXCEPT ![meta_of(p)] = None]
    /\ Goto(p, "idle")
    /\ EndCall(p)
    /\ UNCHANGED <<fileVars, setVars, initVars, histVars, kills>>

-----------------------------------------------------------------------------

\* The slot that p is writing, if it belongs to another key or is half written.
unfinished(p) ==
    IF pc[p] \in {"put_copy", "put_key"} THEN {<<set_of(p), way[p]>>} ELSE {}

\* A process is killed.  The kernel marks the mutex that it owns.
Kill(p) ==
    /\ pc[p] # "off"
    /\ kills < MaxKills
    /\ kills' = kills + 1
    /\ Goto(p, "off")
    /\ owner' = IF pc[p] \in Inside THEN [owner EXCEPT ![meta_of(p)] = Died] ELSE owner
    /\ spoiled' = spoiled \union unfinished(p)
    /\ EndCall(p)
    /\ ident' = [ident EXCEPT ![p] = None]
    /\ meta_idx' = [meta_idx EXCEPT ![p] = 0]
    /\ UNCHANGED <<fileVars, setVars, older>>

\* What a process does next within a call.
Step(p) ==
    \/ CreateNothing(p) \/ Ftruncate(p) \/ ZeroMetadata(p) \/ InitMeta(p)
    \/ WriteMagic(p) \/ WritePath(p)
    \/ Lock(p) \/ GetHit(p) \/ GetMiss(p) \/ PutFind(p) \/ PutCopied(p) \/ PutKey(p)
    \/ Decay(p) \/ Stamp(p) \/ Unlock(p)

Call(p) ==
    \/ \E id \in Identities : Create(p, id) \/ Open(p, id)
    \/ Drop(p)
    \/ \E k \in Keys : Get(p, k) \/ \E image \in Images[k] : Put(p, k, image)

Next ==
    \/ \E p \in Procs : Call(p) \/ Step(p) \/ Kill(p)
    \/ Delete

Spec == Init /\ [][Next]_vars

\* A process that is in a call is run, unless it is killed.  Which of several
\* that wait gets the mutex is left open.
FairSpec == Spec /\ \A p \in Procs : WF_vars(Step(p))

-----------------------------------------------------------------------------
(* Properties.                                                             *)

Pcs == {"off", "size", "zero", "init", "path", "idle", "get_lock", "put_lock"} \union Inside

\* Every variable has its type.
TypeOK ==
    /\ file \in {"none", "short", "full"}
    /\ magic \in BOOLEAN
    /\ path \in Identities \union {None}
    /\ ready \subseteq Metas
    /\ page_ids \in [Sets -> [Ways -> Keys \union {EMPTY_KEY}]]
    /\ timestamps \in [Sets -> [Ways -> 0..U8_MAX]]
    /\ data \in [Sets -> [Ways -> Contents \union {NoPage, Torn}]]
    /\ owner \in [Metas -> Procs \union {None, Died}]
    /\ pc \in [Procs -> Pcs]
    /\ key \in [Procs -> Keys]
    /\ page \in [Procs -> Contents \union {NoPage}]
    /\ way \in [Procs -> Ways]
    /\ out \in [Procs -> Contents \union {NoPage, Torn}]
    /\ ident \in [Procs -> Identities \union {None}]
    /\ meta_idx \in [Procs -> 0..METADATA_PAGES]
    /\ older \in [Sets -> SUBSET (Ways \X Ways)]
    /\ spoiled \subseteq (Sets \X Ways)
    /\ kills \in Nat

\* A key is in one way of its set at most, and in no other set: lookups that
\* follow find what the put has stored.  Puts of one key that race, evictions
\* and owners that die in a put included.
KeysPlaced ==
    \A s \in Sets : s[1] \in ready =>
        \A w \in Ways : page_ids[s][w] # EMPTY_KEY =>
            /\ locate(page_ids[s][w]) = s
            /\ \A v \in Ways : page_ids[s][v] = page_ids[s][w] => v = w

\* cache.rs, open: returns an error if the file does not exist, has not been
\* fully initialised, or carries a different identity.  Whoever is attached
\* works on mutexes and sets that init_metadata has been through.
OpenedIsInitialised == Attached # {} => file = "full" /\ ready = Metas

-----------------------------------------------------------------------------
(* The cache implements PageCache.  An entry is there from the write of    *)
(* its key until a put begins to overwrite its slot.                       *)

being_overwritten(s, w) ==
    \E p \in Procs : /\ pc[p] \in {"put_copy", "put_key"}
                     /\ way[p] = w
                     /\ set_of(p) = s

entry(s, w) ==
    IF being_overwritten(s, w) THEN NoPage
    ELSE IF <<s, w>> \in spoiled THEN Torn
    ELSE data[s][w]

held ==
    [k \in Keys |->
        LET s    == locate(k)
            hits == IF s[1] \in ready THEN ways_of(s, k) ELSE {}
        IN  IF hits = {} THEN NoPage ELSE entry(s, CHOOSE w \in first(hits) : TRUE)]

calls ==
    [p \in Procs |->
        CASE pc[p] \in {"get_lock", "get_find"} -> [op |-> "get", key |-> key[p]]
          [] pc[p] \in {"put_lock", "put_find", "put_copy", "put_key"} ->
                [op |-> "put", key |-> key[p], page |-> page[p]]
          [] pc[p] \in {"decay", "stamp", "unlock"} ->
                IF page[p] # NoPage THEN [op |-> "stored"]
                                    ELSE [op |-> "answered", out |-> out[p]]
          [] OTHER -> [op |-> "none"]]

Promise == INSTANCE PageCache WITH Damaged <- Torn

\* A get that hits answers the page that the last put of the key has stored,
\* whole, whichever processes get, put and are killed meanwhile; a process
\* that is killed in a put damages the entry of one key at most.
RefinesCache == Promise!Spec

-----------------------------------------------------------------------------

\* The page that makes room is the one that has gone unused longest, as long
\* as its timestamp has not run down to 0.
OldestMakesRoom ==
    [][\A s \in Sets, w \in Ways :
          ( /\ s[1] \in ready'
            /\ page_ids[s][w] \in Keys
            /\ page_ids'[s][w] # page_ids[s][w] ) =>
                \/ timestamps[s][w] = 0
                \/ \A v \in Ways : <<v, w>> \notin older[s]]_vars

Waits(m) == \E p \in Procs : pc[p] \in {"get_lock", "put_lock"} /\ meta_of(p) = m

\* No mutex is lost: while processes wait for it, it is released again and
\* again, although its owners may be killed.
MutexReleased ==
    \A m \in Metas :
        []<>~Waits(m) \/ []<><<\E p \in Procs : Unlock(p) /\ meta_of(p) = m>>_vars
=============================================================================
