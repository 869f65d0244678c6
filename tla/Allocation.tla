------------------------------ MODULE Allocation ------------------------------
(***************************************************************************)
(* A caller lists weights, AllocationSpecV1 checks and orders them, and     *)
(* allocate_amount divides amounts under the specification.                *)
(***************************************************************************)
EXTENDS LargestRemainder

CONSTANTS
    Keys,     \* allocation keys, in the order of their fingerprints
    Weights,  \* weights, over their common denominator
    Totals,   \* amounts to allocate, in quanta
    Parties   \* the most entries a caller lists

ASSUME AllocationAssumption ==
    Keys \subseteq Int /\ Weights \subseteq Nat /\ Totals \subseteq Int /\ Parties \in Nat

Entry == [key : Keys, weight : Weights]
Offers == UNION {[1 .. n -> Entry] : n \in 1 .. Parties}

VARIABLES
    offered,  \* the weights as the caller lists them
    spec,     \* the specification built from them
    total,    \* the amount last allocated under it
    shares,   \* what each entry of spec got of it
    status

vars == <<offered, spec, total, shares, status>>

-----------------------------------------------------------------------------
Init ==
    /\ offered \in Offers
    /\ spec = <<>> /\ total = 0 /\ shares = <<>> /\ status = "offered"

Specify ==
    /\ status = "offered"
    /\ IF Accepted(offered) THEN spec' = Sorted(offered) /\ status' = "specified"
       ELSE status' = "invalid" /\ UNCHANGED spec
    /\ UNCHANGED <<offered, total, shares>>

\* The calculator allocates several amounts under one specification.  Shares
\* whose sum the default context does not give as the amount are not returned.
Allocate(amount) ==
    /\ status \in {"specified", "allocated", "undivided"}
    /\ total' = amount
    /\ IF AddsUp(amount, spec) THEN shares' = Allocated(amount, spec) /\ status' = "allocated"
       ELSE shares' = <<>> /\ status' = "undivided"
    /\ UNCHANGED <<offered, spec>>

Next == Specify \/ \E amount \in Totals : Allocate(amount)

Spec == Init /\ [][Next]_vars
-----------------------------------------------------------------------------
TypeOK ==
    /\ offered \in Offers
    /\ spec \in Offers \cup {<<>>}
    /\ status \in {"specified", "allocated", "undivided"} =>
           /\ DOMAIN spec = DOMAIN offered /\ Range(spec) = Range(offered)
           /\ \A i, j \in DOMAIN spec : i < j => spec[i].key < spec[j].key
    /\ total \in Totals \cup {0}
    /\ status \in {"offered", "invalid", "specified", "allocated", "undivided"}
    /\ IF status = "allocated" THEN shares \in [DOMAIN spec -> Int] ELSE shares = <<>>

\* Nothing is lost or invented: returned shares sum to the amount, whatever its
\* sign and the weights; and the AssertionError that returns none is met only by
\* amounts that take more digits, at their scale, than the default context has
\* (allocation.py:180-181), though calculation.md:36 excepts none.
SharesAddUp ==
    /\ status = "allocated" => Total(shares) = total
    /\ status = "undivided" => ~Fits(total)

\* How far a division is from the exact shares.
Deviation(f) ==
    Total([i \in DOMAIN spec |-> Abs(f[i] * WeightTotal(spec) - total * spec[i].weight)])

\* No other division of the amount into whole quanta is closer to the exact
\* shares than largest remainder: every share is within a quantum of its own,
\* and credits divide as fairly as charges (calculation.md:33-36).
Fairest ==
    status = "allocated" =>
        \A f \in [DOMAIN spec -> IF total < 0 THEN total .. 0 ELSE 0 .. total] :
            Total(f) = total => Deviation(shares) =< Deviation(f)

\* The order in which a caller lists the weights never changes what a key
\* gets, also when remainders tie (calculation.md:34-35).
CallerOrderIrrelevant ==
    status = "allocated" =>
        \A p \in [DOMAIN offered -> DOMAIN offered] :
            LET relisted == [i \in DOMAIN offered |-> offered[p[i]]]
                again == Sorted(relisted)
            IN  Accepted(relisted) /\ Range(relisted) = Range(offered) =>
                    \A i, j \in DOMAIN spec :
                        spec[i] = again[j] => shares[i] = Allocated(total, again)[j]
=============================================================================
