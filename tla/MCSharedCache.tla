--------------------------- MODULE MCSharedCache ---------------------------
(* Instances of SharedCache for TLC.                                       *)
EXTENDS SharedCache

CONSTANTS A, B     \* two pages

\* All keys in one set; a key in each of two sets.
OneSet  == [k \in Keys |-> 0]

\* Two pages are put under one of the keys, one under each of the others.
FewImages == [k \in Keys |-> CASE k = 0 -> {A, B} \intersect Contents [] k = 1 -> {A} [] OTHER -> {B}]
TwoSets == [k \in Keys |-> k % 2]
=============================================================================
