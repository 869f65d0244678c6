--------------------------- MODULE LargestRemainder ---------------------------
(***************************************************************************)
(* AllocationSpecV1 and allocate_amount as operators: an amount is divided *)
(* among weighted keys by largest remainder.  Amounts are counted in       *)
(* quanta of the requested scale, weights over a common denominator, and   *)
(* keys are numbered by their fingerprints.  A specification is a sequence *)
(* of entries [key, weight].                                               *)
(***************************************************************************)
EXTENDS Integers, FiniteSets, Functions

CONSTANTS
    Digits,     \* significant digits of a division; the code sets 100
    SumDigits   \* those of the default context, in which shares are added: 28

ASSUME DigitsAssumption ==
    Digits \in Nat \ {0} /\ SumDigits \in Nat \ {0} /\ SumDigits =< Digits

Total(f) == FoldFunction(LAMBDA a, b : a + b, 0, f)
WeightTotal(s) == Total([i \in DOMAIN s |-> s[i].weight])
Abs(n) == IF n < 0 THEN -n ELSE n

AcceptedWithRepeats(s) == WeightTotal(s) > 0
Accepted(s) == /\ \A i, j \in DOMAIN s : s[i].key = s[j].key => i = j
               /\ WeightTotal(s) > 0

\* Python sorts are stable: equal keys keep the order of their positions.
KeyOrder(s, j, i) == s[j].key < s[i].key \/ (s[j].key = s[i].key /\ j < i)

\* The entries of s in the order of their keys.
AsListed(s) == s
Sorted(s) ==
    LET before(i) == {j \in DOMAIN s : KeyOrder(s, j, i)}
    IN  [n \in DOMAIN s |-> s[CHOOSE i \in DOMAIN s : Cardinality(before(i)) = n - 1]]

\* A quotient has at most Digits + 2 places after the point; one below a
\* hundredth, which the weights of the runs do not make, would have more.
Tens[p \in 0 .. Digits + 2] == IF p = 0 THEN 1 ELSE 10 * Tens[p - 1]
Places == {Tens[p] : p \in 0 .. Digits + 2}
One == Tens[Digits + 2]
Limit == Tens[Digits]

HalfEven(n, w) ==
    LET down == n \div w
        twice == 2 * (n % w)
    IN  IF twice > w \/ (twice = w /\ down % 2 = 1) THEN down + 1 ELSE down

\* n / w rounded half to even to Digits digits, as a count of 1 / One.
Quotient(n, w) ==
    LET fits(places) == (n * places) \div w < Limit
        places == CHOOSE p \in Places : fits(p) /\ (p = One \/ ~fits(10 * p))
    IN  HalfEven(n * places, w) * (One \div places)

\* The shares before they are rounded, as such counts.  Equal remainders that
\* follow integers of different lengths are rounded at different places, and
\* then are not equal.
Raw(units, s) ==
    LET all == WeightTotal(s)
    IN  [i \in DOMAIN s |-> Quotient(units * s[i].weight, all)]
Base(raw) == [i \in DOMAIN raw |-> raw[i] \div One]
Remainder(raw, i) == raw[i] % One

\* The entries served before i when the units left over are handed out.
AheadByKey(s, raw, i) == {j \in DOMAIN s : KeyOrder(s, j, i)}
Ahead(s, raw, i) ==
    {j \in DOMAIN s :
        \/ Remainder(raw, j) > Remainder(raw, i)
        \/ Remainder(raw, j) = Remainder(raw, i) /\ KeyOrder(s, j, i)}

RoundedUp(units, s) ==
    LET raw == Raw(units, s)
    IN  [i \in DOMAIN s |-> Base(raw)[i] + (IF Remainder(raw, i) > 0 THEN 1 ELSE 0)]
LeftOverToFirst(units, s) ==
    LET base == Base(Raw(units, s))
    IN  [i \in DOMAIN s |-> base[i] + (IF i = 1 THEN units - Total(base) ELSE 0)]
Signless(units, s) ==
    LET raw == Raw(units, s)
        base == Base(raw)
        leftOver == units - Total(base)
    IN  [i \in DOMAIN s |->
            base[i] + (IF Cardinality(Ahead(s, raw, i)) < leftOver THEN 1 ELSE 0)]

Allocated(amount, s) ==
    LET signless == Signless(Abs(amount), s)
    IN  [i \in DOMAIN s |-> IF amount < 0 THEN -signless[i] ELSE signless[i]]

\* What the default context makes of a sum or a difference: it keeps SumDigits
\* digits, rounded half to even.  An amount fits if the quanta of its scale are
\* a number of no more digits, zeros at the end counted.
Fits(n) == Abs(n) < Tens[SumDigits]
InContext(n) ==
    LET holds(place) == Abs(n) \div place < Tens[SumDigits]
        place == CHOOSE p \in Places : holds(p) /\ \A q \in Places : holds(q) => p =< q
        kept == HalfEven(Abs(n), place) * place
    IN  IF Fits(n) THEN n ELSE IF n < 0 THEN -kept ELSE kept

\* The sum of the shares, in their order and in that context, must be the
\* amount: the assertion that ends allocate_amount.
Summed(shares) ==
    LET n == Cardinality(DOMAIN shares)
        sum[k \in 0 .. n] == IF k = 0 THEN 0 ELSE InContext(sum[k - 1] + shares[k])
    IN  sum[n]
AddsUp(amount, s) == Summed(Allocated(amount, s)) = amount
=============================================================================
