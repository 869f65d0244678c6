----------------------------- MODULE CostRecords -----------------------------
(***************************************************************************)
(* CostCalculator._records: what a price makes of its quantity, its charge *)
(* before adjustment and its amount due, divided among the keys of an      *)
(* allocation into the records of the calculation.  Pricing and            *)
(* LargestRemainder composed, with the checks of CostRecordV1.             *)
(***************************************************************************)
EXTENDS Pricing, LargestRemainder

CONSTANTS
    Specs,    \* allocation specifications, as AllocationSpecV1 orders them
    PerUnit   \* quanta of the quantity scale in a unit of quantity

ASSUME SpecAssumption ==
    /\ PerUnit \in Nat \ {0}
    /\ Specs \subseteq Seq([key : Int, weight : Nat])
    /\ \A s \in Specs : s = Sorted(s) /\ Accepted(s)

VARIABLES spec, records

recordVars == <<vars, spec, records>>

-----------------------------------------------------------------------------
\* The currency quanta of an amount that was rounded to them.
Quanta(amount) == amount \div Final

\* A single record takes the adjustments of the price, and of several each
\* takes the difference of its two shares, both in the default context.
Adjustments(s, before, due, i) ==
    InContext(IF DOMAIN s = {1} THEN Quanta(price.due) - Quanta(price.before)
              ELSE due[i] - before[i])

QuantityUndivided(s) == [i \in DOMAIN s |-> quantity * PerUnit]
QuantityShares(s) == Allocated(quantity * PerUnit, s)

RecordsOf(s) ==
    LET due == Allocated(Quanta(price.due), s)
        before == Allocated(Quanta(price.before), s)
        used == QuantityShares(s)
    IN  [i \in DOMAIN s |->
            [key |-> s[i].key, quantity |-> used[i], before |-> before[i],
             adjustments |-> Adjustments(s, before, due, i), due |-> due[i]]]

\* CostRecordV1: the default context gives the total, and neither quantity nor
\* amount due is negative.
AcceptsRecord(r) ==
    r.quantity >= 0 /\ InContext(r.before + r.adjustments) = r.due /\ r.due >= 0

\* What is divided, and whether allocate_amount returns the shares of all three.
Divisions == {Quanta(price.due), Quanta(price.before), quantity * PerUnit}
Divisible(s) == \A amount \in Divisions : AddsUp(amount, s)

-----------------------------------------------------------------------------
RecordsInit == Init /\ spec = <<>> /\ records = <<>>

Price == Next /\ UNCHANGED <<spec, records>>

Record(s) ==
    LET made == RecordsOf(s)
    IN  /\ status = "priced"
        /\ spec' = s
        /\ IF ~Divisible(s) THEN status' = "undivided" /\ UNCHANGED records
           ELSE IF \A i \in DOMAIN s : AcceptsRecord(made[i])
           THEN status' = "recorded" /\ records' = made
           ELSE status' = "unrecorded" /\ UNCHANGED records
        /\ UNCHANGED <<card, quantity, price>>

RecordsNext == Price \/ \E s \in Specs : Record(s)

RecordsSpec == RecordsInit /\ [][RecordsNext]_recordVars
-----------------------------------------------------------------------------
MoneyFits == Fits(Quanta(price.due)) /\ Fits(Quanta(price.before))

\* A price fails to have records only if its quantity or one of its amounts,
\* at its scale, takes more digits than the default context has: no shorter
\* ones make allocate_amount raise its AssertionError, or make shares, divided
\* each on its own, of which CostRecordV1 refuses a record.  Records that there
\* are add up to the price and to the quantity (calculation.md:28-29), and, of
\* amounts that short, to the adjustment.
RecordsAddUp ==
    /\ status \in {"undivided", "unrecorded"} => ~MoneyFits \/ ~Fits(quantity * PerUnit)
    /\ status = "recorded" =>
         /\ Total([i \in DOMAIN records |-> records[i].due]) * Final = price.due
         /\ Total([i \in DOMAIN records |-> records[i].before]) * Final = price.before
         /\ Total([i \in DOMAIN records |-> records[i].quantity]) = quantity * PerUnit
         /\ MoneyFits =>
              Total([i \in DOMAIN records |-> records[i].adjustments]) * Final
                = price.due - price.before

\* The adjustment of a record is within two quanta of its exact share of the
\* adjustment of the price, and a key of weight zero has none, if both
\* amounts fit the default context.  Its sign is not promised: a key may lose a
\* quantum of a charge that a minimum raised.
AdjustmentsNearExact ==
    status = "recorded" /\ MoneyFits =>
        \A i \in DOMAIN spec :
            LET exact == Quanta(price.due - price.before) * spec[i].weight
                off == Abs(records[i].adjustments * WeightTotal(spec) - exact)
            IN  /\ off < 2 * WeightTotal(spec)
                /\ spec[i].weight = 0 => records[i].due = 0 /\ records[i].adjustments = 0
=============================================================================
