------------------------------ MODULE MCCostRecords ------------------------------
(* A small instance of CostRecords for TLC: prices in hundredths of the currency *)
(* quantum, rounded to tenths of it in between.                             *)
EXTENDS CostRecords

Tier(start, end, unitPrice) == [start |-> start, end |-> end, price |-> unitPrice]

\* One, two and three tiers, falling and rising; then none, a late start, a
\* gap, an overlap, an empty tier, and an end.
TierLists == {
    <<Tier(0, Unbounded, 35)>>,
    <<Tier(0, 4, 35), Tier(4, Unbounded, 15)>>,
    <<Tier(0, 3, 45), Tier(3, 7, 25), Tier(7, Unbounded, 5)>>,
    <<Tier(0, 1, 5), Tier(1, 2, 12), Tier(2, Unbounded, 29)>>,
    <<>>,
    <<Tier(2, Unbounded, 35)>>,
    <<Tier(0, 4, 35), Tier(5, Unbounded, 15)>>,
    <<Tier(0, 4, 35), Tier(3, Unbounded, 15)>>,
    <<Tier(0, 4, 35), Tier(4, 4, 20), Tier(4, Unbounded, 15)>>,
    <<Tier(0, 4, 35), Tier(4, 9, 15)>>}

Terms(model, unitPrice, amount, tiers) ==
    {[model |-> model, price |-> unitPrice, amount |-> amount, tiers |-> tiers,
      intermediate |-> i, final |-> f] : i \in Modes, f \in Modes}

Prices == {0, 7, 25, 85}
Amounts == {0, 45, 155, 1100, 12345}

CardsOfEachModel ==
    UNION ({Terms("flat_unit", p, 0, <<>>) : p \in Prices}
      \cup {Terms(m, p, a, <<>>) :
                m \in {"minimum_charge", "commitment_credit"}, p \in Prices, a \in Amounts}
      \cup {Terms(m, 0, 0, t) : m \in {"volume_tier", "graduated_tier"}, t \in TierLists})

\* The last makes more quanta than the sum of the shares has digits for.
FewQuantities == 0 .. 12 \cup {24}

Weighted(weights) == [i \in DOMAIN weights |-> [key |-> i, weight |-> weights[i]]]

\* One key; five equal keys; a key without weight; weights under which a key can
\* lose a quantum when the amount grows by one; remainders that tie after
\* integers of different lengths.
FewSpecs == {Weighted(<<1>>), Weighted(<<1, 1, 1, 1, 1>>), Weighted(<<3, 0, 2>>),
             Weighted(<<3, 3, 1>>), Weighted(<<4, 1, 4>>)}
=============================================================================
