--------------------------- MODULE VersionedStore ---------------------------
(***************************************************************************)
(* What a bxdb database promises: a store of page versions.  content       *)
(* answers every query (page, snapshot), and one save at a time is         *)
(* pending.  A save of the dirty pages of snapshot s takes effect at once  *)
(* and as a whole: it answers the queries of those pages from s on and     *)
(* leaves all others, the whole past included, as they are.                *)
(***************************************************************************)
EXTENDS Integers

CONSTANTS
    Pas,            \* page addresses
    Queries,        \* the snapshot ids that are asked for
    Snapshots,      \* the snapshot ids that are saved
    Contents,       \* page contents
    Answer(_),      \* the answer of a query that finds a page
    NoAnswer        \* the answer of a query that finds none

VARIABLES content, pending

NoSave == [snapshot |-> -1, memory |-> <<>>]

Init ==
    /\ content = [pa \in Pas |-> [q \in Queries |-> NoAnswer]]
    /\ pending = NoSave

Begin ==
    /\ pending = NoSave
    /\ pending' # NoSave
    /\ \E s \in Snapshots, dirty \in SUBSET Pas :
          \E mem \in [dirty -> Contents] : pending' = [snapshot |-> s, memory |-> mem]
    /\ UNCHANGED content

Commit ==
    /\ pending # NoSave
    /\ pending' = NoSave
    /\ \E before \in {content} :
          content' = [pa \in Pas |-> [q \in Queries |->
                         IF pa \in DOMAIN pending.memory /\ q >= pending.snapshot
                         THEN Answer(pending.memory[pa])
                         ELSE before[pa][q]]]

Next == Begin \/ Commit

Safety == Init /\ [][Next]_<<content, pending>>

\* A save that has begun takes effect.
Spec == Safety /\ WF_<<content, pending>>(Commit)
=============================================================================
