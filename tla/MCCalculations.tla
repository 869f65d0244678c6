--------------------------- MODULE MCCalculations ---------------------------
(* Small instances of Calculations for TLC.  No bound is needed on the      *)
(* revisions: a series holds one calculation per identity.                  *)
EXTENDS Calculations, TLC

CONSTANTS whole, split

\* One specification with a single key and one with two.
KeysOf == [a \in Allocations |-> IF a = split THEN {1, 2} ELSE {1}]

Ask(input, allocation, at) == [input |-> input, allocation |-> allocation, at |-> at]

CONSTANTS u1, u2

\* Two corrections of one allocation, and another allocation of the first
\* input: identities that meet at a revision with and without shared keys.
ThreeRequests == {Ask(u1, split, 1), Ask(u2, split, 1), Ask(u1, whole, 1)}

Correction == {Ask(u1, split, 1), Ask(u2, split, 1)}

\* One identity asked for with two values of occurred_at, and a correction.
TwoInstants == {Ask(u1, split, 1), Ask(u1, split, 2), Ask(u2, split, 1)}

Symmetry == Permutations(Clients)

\* The two inputs of Correction are interchangeable.
CorrectionSymmetry == Permutations(Clients) \cup Permutations(Inputs)
=============================================================================
