----------------------------- MODULE MCCostSystem -----------------------------
(* Small instances of CostSystem for TLC. *)
EXTENDS CostSystem

CONSTANTS card, low, high, late, disk, net, whole

KeysOf == [a \in Allocations |-> {1}]

\* disk is closed from its first revision on, net from its second on.
ClosedFrom == [a \in Aggregates |-> IF a = disk THEN 1 ELSE 2]

\* low prices disk only; late starts after the window.
MatchingOf == [p \in Pricings |-> IF p = low THEN {disk} ELSE Aggregates]
CoveringOnes == Pricings \ {late}

EveryPricing ==
    {[card |-> card, pricing |-> p, allocation |-> whole, at |-> 1] : p \in Pricings}
=============================================================================
