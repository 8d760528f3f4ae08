------------------------------- MODULE MCBxDb -------------------------------
(* Instances of BxDb for TLC.                                              *)
EXTENDS BxDb

CONSTANTS w1, w2, b     \* two words of one bit

Zero == [i \in {w1, w2} |-> {}]
A    == [Zero EXCEPT ![w1] = {b}]
B    == [Zero EXCEPT ![w1] = {b}, ![w2] = {b}]
C    == [Zero EXCEPT ![w2] = {b}]

\* A and C differ in two words, B differs from either in one.
AllContents   == {Zero, A, B, C}
DeltaContents == {Zero, A, B}
FullContents  == {A, C}
TwoContents   == {A, B}
=============================================================================
