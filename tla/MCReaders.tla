------------------------------ MODULE MCReaders ------------------------------
(* Instances of Readers for TLC.                                           *)
EXTENDS Readers

CONSTANTS w1, w2, b     \* two words of one bit

Zero == [i \in {w1, w2} |-> {}]
A    == [Zero EXCEPT ![w1] = {b}]
B    == [Zero EXCEPT ![w1] = {b}, ![w2] = {b}]

DeltaContents == {Zero, A, B}
TwoContents   == {A, B}
=============================================================================
