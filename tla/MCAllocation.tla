----------------------------- MODULE MCAllocation -----------------------------
(* Small instances of Allocation for TLC. *)
EXTENDS Allocation

\* Amounts of both signs, below and above the number of parties, and two that
\* take more digits than the sum of the shares keeps: -11 is always rounded, 20
\* is not, but the sum of its shares may be.
SignedTotals == -4 .. 7 \cup {20, -11}
=============================================================================
