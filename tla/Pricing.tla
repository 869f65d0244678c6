------------------------------- MODULE Pricing -------------------------------
(***************************************************************************)
(* calculate_price and RoundingPolicy: the five pricing models of a rate    *)
(* card.  Quantities and prices are integers over fixed denominators, so    *)
(* money is an integer count of the smallest product, and the two rounding  *)
(* stages round to multiples of Intermediate and of Final of it.            *)
(***************************************************************************)
EXTENDS Integers, Sequences, FiniteSets, Functions

CONSTANTS
    Quantities,    \* quantities to price
    Cards,         \* rate cards as their authors write them
    Intermediate,  \* quantum of intermediate rounding
    Final,         \* quantum of the currency, a multiple of it
    Unbounded      \* the end of the last tier

ASSUME QuantityAssumption == Quantities \subseteq Nat
ASSUME QuantumAssumption ==
    Intermediate \in Nat \ {0} /\ Final \in Nat \ {0} /\ Final % Intermediate = 0

Modes == {"half_even", "half_up", "down", "up"}
Models == {"flat_unit", "volume_tier", "graduated_tier", "minimum_charge", "commitment_credit"}
Flat == {"flat_unit", "minimum_charge", "commitment_credit"}

\* price is the unit price, amount the minimum charge or commitment credit.
Card == [model : Models, price : Nat, amount : Nat,
         tiers : Seq([start : Nat, end : Nat \cup {Unbounded}, price : Nat]),
         intermediate : Modes, final : Modes]

ASSUME CardAssumption == Cards \subseteq Card /\ Unbounded \notin Nat

VARIABLES card, quantity, price, status

vars == <<card, quantity, price, status>>

-----------------------------------------------------------------------------
(* Amounts are never negative where they are rounded.                      *)

Quantize(n, quantum, mode) ==
    LET down == (n \div quantum) * quantum
        rest == n - down
        up == IF rest = 0 THEN down ELSE down + quantum
    IN  CASE mode = "down" -> down
          [] mode = "up" -> up
          [] mode = "half_up" -> IF 2 * rest < quantum THEN down ELSE up
          [] mode = "half_even" ->
                IF 2 * rest < quantum \/ (2 * rest = quantum /\ (down \div quantum) % 2 = 0)
                THEN down ELSE up

IntermediateOf(k, n) == Quantize(n, Intermediate, k.intermediate)
FinalOf(k, n) == Quantize(n, Final, k.final)

-----------------------------------------------------------------------------
(* Tiers: [start, end) intervals.                                          *)

Within(n, end) == end = Unbounded \/ n < end

\* What PricingTier and _validate_tiers accept.
ValidTiersUnanchored(tiers) ==
    /\ tiers # <<>>
    /\ \A i \in DOMAIN tiers : Within(tiers[i].start, tiers[i].end)
    /\ \A i \in 1 .. Len(tiers) - 1 : tiers[i].end = tiers[i + 1].start
    /\ tiers[Len(tiers)].end = Unbounded
ValidTiers(tiers) ==
    /\ tiers # <<>> /\ tiers[1].start = 0
    /\ \A i \in DOMAIN tiers : Within(tiers[i].start, tiers[i].end)
    /\ \A i \in 1 .. Len(tiers) - 1 : tiers[i].end = tiers[i + 1].start
    /\ tiers[Len(tiers)].end = Unbounded

ContainsEnd(tier, n) == tier.start =< n /\ (tier.end = Unbounded \/ n =< tier.end)
Contains(tier, n) == tier.start =< n /\ Within(n, tier.end)

\* The amounts of the components, by tier.
Volume(k, n) ==
    LET matching == {i \in DOMAIN k.tiers : Contains(k.tiers[i], n)}
    IN  [i \in {i \in matching : \A j \in matching : i =< j} |->
            IntermediateOf(k, n * k.tiers[i].price)]

Slice(tier, n) == (IF Within(n, tier.end) THEN n ELSE tier.end) - tier.start
Graduated(k, n) ==
    [i \in {i \in DOMAIN k.tiers : k.tiers[i].start < n} |->
        IntermediateOf(k, Slice(k.tiers[i], n) * k.tiers[i].price)]

Components(k, n) ==
    CASE k.model \in Flat -> [i \in {1} |-> IntermediateOf(k, n * k.price)]
      [] k.model = "volume_tier" -> Volume(k, n)
      [] k.model = "graduated_tier" -> Graduated(k, n)

\* InvalidTier: no component for a quantity that must have one.
Uncovered(k, n) == DOMAIN Components(k, n) = {} /\ (n > 0 \/ k.model = "volume_tier")

-----------------------------------------------------------------------------
Max(a, b) == IF a < b THEN b ELSE a

MinimumAdded(k, intermediate) == FinalOf(k, intermediate) + FinalOf(k, k.amount)
Minimum(k, intermediate) == Max(FinalOf(k, intermediate), FinalOf(k, k.amount))
Credited(k, intermediate) == FinalOf(k, Max(intermediate - k.amount, 0))

\* The price result: the charge before adjustment and the amount due.
Priced(k, n) ==
    LET components == Components(k, n)
        intermediate == FoldFunction(LAMBDA a, b : a + b, 0, components)
    IN  [components |-> components,
         before |-> FinalOf(k, intermediate),
         due |-> CASE k.model = "minimum_charge" -> Minimum(k, intermediate)
                   [] k.model = "commitment_credit" -> Credited(k, intermediate)
                   [] OTHER -> FinalOf(k, intermediate)]

ValidCard(k) == k.model \in {"volume_tier", "graduated_tier"} => ValidTiers(k.tiers)

-----------------------------------------------------------------------------
Init ==
    /\ card \in Cards
    /\ quantity = 0 /\ price = Unbounded /\ status = "offered"

\* RateCardV1 checks the shape of what it charges.
Accept ==
    /\ status = "offered"
    /\ status' = IF ValidCard(card) THEN "accepted" ELSE "refused"
    /\ UNCHANGED <<card, quantity, price>>

\* calculate_price, again and again under one card.
CalculatePrice(n) ==
    /\ status \in {"accepted", "priced", "uncovered"}
    /\ quantity' = n
    /\ IF Uncovered(card, n) THEN status' = "uncovered" /\ price' = Unbounded
       ELSE status' = "priced" /\ price' = Priced(card, n)
    /\ UNCHANGED card

Next == Accept \/ \E n \in Quantities : CalculatePrice(n)

Spec == Init /\ [][Next]_vars
-----------------------------------------------------------------------------
\* A card that was accepted has a price for every quantity: the InvalidTier
\* branches of the pricing functions never run (rate-cards.md:36-37).
AcceptedCardsPriceAll == status # "uncovered"

\* The price of the unit that follows the first n ones.
TierPrice(k, n) ==
    (CHOOSE t \in Range(k.tiers) :
        t.start =< n /\ \A u \in Range(k.tiers) : u.start =< n => u.start =< t.start).price

\* The charge without any rounding: unit by unit for graduated tiers.
Exact(k, n) ==
    CASE k.model \in Flat -> n * k.price
      [] k.model = "volume_tier" -> n * TierPrice(k, n)
      [] k.model = "graduated_tier" ->
            FoldFunction(LAMBDA a, b : a + b, 0, [x \in 0 .. n - 1 |-> TierPrice(k, x)])

\* Twice the most by which one rounding may be off.
Doubt(quantum, mode) == IF mode \in {"half_even", "half_up"} THEN quantum ELSE 2 * (quantum - 1)

\* What is charged before adjustment differs from the exact charge by no more
\* than one intermediate rounding of each component and one final rounding.
WithinRounding ==
    status = "priced" =>
        LET off == price.before - Exact(card, quantity)
        IN  2 * (IF off < 0 THEN -off ELSE off) =<
                Cardinality(DOMAIN price.components) * Doubt(Intermediate, card.intermediate)
                + Doubt(Final, card.final)

\* Whoever uses more never pays less, except under volume tiers, whose lower
\* rate applies to the whole quantity: slices round separately, then meet.
MoreNeverCheaper ==
    status = "priced" /\ card.model # "volume_tier" =>
        \A n \in Quantities : quantity =< n => price.due =< Priced(card, n).due

\* A minimum only tops up, to itself.  A credit never makes the amount due
\* negative and takes its own worth, to within the final rounding.
AdjustmentsBounded ==
    status = "priced" =>
        CASE card.model = "minimum_charge" ->
               /\ price.before =< price.due
               /\ price.before < price.due => price.due - card.amount \in -Final .. Final
          [] card.model = "commitment_credit" ->
               /\ 0 =< price.due /\ price.due =< price.before
               /\ price.before - price.due =< card.amount + Final
               /\ 0 < price.due => card.amount - Final =< price.before - price.due
          [] OTHER -> price.due = price.before
=============================================================================
