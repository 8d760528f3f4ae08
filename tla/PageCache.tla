------------------------------ MODULE PageCache ------------------------------
(***************************************************************************)
(* What the shared page cache promises to the processes that use it: a get *)
(* that hits answers what the last put of the key has stored.  The cache   *)
(* may forget a page whenever it makes room for another.  A process that   *)
(* dies in a put may damage the entry of one key, and no get of any other  *)
(* key is the worse for it.                                                *)
(***************************************************************************)
EXTENDS Integers

CONSTANTS
    Procs,          \* the processes
    Keys,           \* the keys of pages
    Contents,       \* the pages
    NoPage,         \* a key that is not in the cache, and the answer of a miss
    Damaged         \* the entry of a key that may answer anything

VARIABLES held, calls

NoCall == [op |-> "none"]

Init ==
    /\ held = [k \in Keys |-> NoPage]
    /\ calls = [p \in Procs |-> NoCall]

Get(p) ==
    /\ calls[p] = NoCall
    /\ \E k \in Keys : calls' = [calls EXCEPT ![p] = [op |-> "get", key |-> k]]
    /\ UNCHANGED held

Put(p) ==
    /\ calls[p] = NoCall
    /\ \E k \in Keys, page \in Contents :
          calls' = [calls EXCEPT ![p] = [op |-> "put", key |-> k, page |-> page]]
    /\ UNCHANGED held

\* A get is answered.  A damaged entry answers anything, once.
Answer(p) ==
    /\ calls[p].op = "get"
    /\ \E out \in Contents \union {NoPage, Damaged} :
          /\ held[calls[p].key] \in {out, Damaged}
          /\ calls' = [calls EXCEPT ![p] = [op |-> "answered", out |-> out]]
    /\ UNCHANGED held

Store(p) ==
    /\ calls[p].op = "put"
    /\ calls' = [calls EXCEPT ![p] = [op |-> "stored"]]
    /\ held' = [held EXCEPT ![calls[p].key] = calls[p].page]

Return(p) ==
    /\ calls[p].op \in {"answered", "stored"}
    /\ calls' = [calls EXCEPT ![p] = NoCall]
    /\ UNCHANGED held

\* One page makes room for the page that is put.
Forget(p) ==
    /\ calls[p].op = "put"
    /\ UNCHANGED calls
    /\ \E k \in Keys : held' = [held EXCEPT ![k] = NoPage]

Die(p) ==
    /\ calls[p] # NoCall
    /\ calls' = [calls EXCEPT ![p] = NoCall]
    /\ \/ UNCHANGED held
       \/ /\ calls[p].op = "put"
          /\ \E k \in Keys : held' = [held EXCEPT ![k] = Damaged]

\* The cache is created anew while nobody uses it.
Clear ==
    /\ calls = [p \in Procs |-> NoCall]
    /\ UNCHANGED calls
    /\ held' = [k \in Keys |-> NoPage]

Next ==
    \/ \E p \in Procs : Get(p) \/ Put(p) \/ Answer(p) \/ Store(p) \/ Return(p)
                           \/ Forget(p) \/ Die(p)
    \/ Clear

Spec == Init /\ [][Next]_<<held, calls>>
=============================================================================
