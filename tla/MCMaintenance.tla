--------------------------- MODULE MCMaintenance ---------------------------
(* Instances of Maintenance for TLC.                                       *)
EXTENDS Maintenance

CONSTANTS w1, w2, b     \* two words of one bit

Zero == [i \in {w1, w2} |-> {}]
A    == [Zero EXCEPT ![w1] = {b}]
B    == [Zero EXCEPT ![w1] = {b}, ![w2] = {b}]

AllContents == {Zero, A, B}
TwoContents == {A, B}

\* A bound on the guest: nothing but A is ever written to the second page.
SecondPageHoldsA == 1 \in DOMAIN memory => memory[1] = A
=============================================================================
