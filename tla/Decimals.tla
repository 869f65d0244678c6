------------------------------- MODULE Decimals -------------------------------
(***************************************************************************)
(* The decimals Cost computes with: fit_decimal, the bound every amount and *)
(* quantity passes, the price product, and the sum of the closed aggregates *)
(* of a usage input; the charges of a price and the shares of an amount are *)
(* added like these.  Python rounds results, and what normalize() returns,  *)
(* to the digits of the current context: 28 by default, 100 in _multiply.   *)
(***************************************************************************)
EXTENDS Integers

CONSTANTS
    Precision,       \* digits of the default context, 28
    WidePrecision,   \* digits of the context of _multiply, 100
    FractionDigits,  \* digits after the point, 18
    IntegerDigits,   \* digits before it, 58
    Inputs,          \* decimals that callers hand in
    Totals,          \* totals of aggregates that Usage hands in
    Prices,          \* unit prices
    MaxAggregates

Decimal == [coefficient : Nat, exponent : Int]

\* The context of _multiply holds every integer digit that is allowed beside
\* the fraction digits of two factors.
ASSUME DigitsAssumption ==
    /\ FractionDigits \in Nat /\ IntegerDigits \in Nat \ {0} /\ Precision \in Nat \ {0}
    /\ WidePrecision \in Nat /\ Precision =< WidePrecision
    /\ IntegerDigits + 2 * FractionDigits =< WidePrecision
ASSUME InputAssumption == Inputs \cup Totals \cup Prices \subseteq Decimal
ASSUME CountAssumption == MaxAggregates \in Nat

VARIABLES
    sum,      \* of the aggregates so far, as Python adds them
    exact,    \* history: their exact sum
    count,
    judged,   \* the exact value of what was last handed to fit_decimal
    accepted, \* whether it returned
    source    \* what that was: an input, the quantity, or a product

vars == <<sum, exact, count, judged, accepted, source>>

-----------------------------------------------------------------------------
Zero == [coefficient |-> 0, exponent |-> 0]
Max(a, b) == IF a < b THEN b ELSE a
Min(a, b) == IF a < b THEN a ELSE b

Tens[p \in Nat] == IF p = 0 THEN 1 ELSE 10 * Tens[p - 1]

DigitCount(n) == CHOOSE d \in 1 .. n + 1 : n < Tens[d] /\ (d = 1 \/ Tens[d - 1] =< n)
Stripped(d) ==
    LET zeros == CHOOSE k \in 0 .. d.coefficient :
                    d.coefficient % Tens[k] = 0 /\ d.coefficient % Tens[k + 1] # 0
    IN  [coefficient |-> d.coefficient \div Tens[zeros], exponent |-> d.exponent + zeros]

\* The value has a numeral within the bound, whatever its trailing zeros.
WithinBound(d) ==
    d.coefficient # 0 =>
        LET s == Stripped(d)
        IN  /\ -s.exponent =< FractionDigits
            /\ s.exponent + DigitCount(s.coefficient) =< IntegerDigits

HalfEven(n, step) ==
    LET down == n \div step
        twice == 2 * (n % step)
    IN  IF twice < step \/ (twice = step /\ down % 2 = 0) THEN down ELSE down + 1

\* A result of the context: rounded half to even to its digits, one digit less
\* after a carry through all of them.
RoundedTo(d, precision) ==
    LET spare == DigitCount(d.coefficient) - precision
        rounded == HalfEven(d.coefficient, Tens[spare])
    IN  IF spare =< 0 THEN d
        ELSE IF rounded < Tens[precision]
        THEN [coefficient |-> rounded, exponent |-> d.exponent + spare]
        ELSE [coefficient |-> Tens[precision - 1], exponent |-> d.exponent + spare + 1]

At(d, exponent) == d.coefficient * Tens[d.exponent - exponent]
Plus(a, b) ==
    LET e == Min(a.exponent, b.exponent)
    IN  [coefficient |-> At(a, e) + At(b, e), exponent |-> e]
Times(a, b) == [coefficient |-> a.coefficient * b.coefficient,
                exponent |-> a.exponent + b.exponent]
SameValue(a, b) ==
    LET e == Min(a.exponent, b.exponent) IN At(a, e) = At(b, e)

\* Python's sum: each addition rounds to the context.
AddedShort(a, b) == RoundedTo(Plus(a, b), Precision - 1)
Added(a, b) == RoundedTo(Plus(a, b), Precision)

\* fit_decimal normalizes a copy, looks at its digits, and returns the value.
Normalized(d, precision) ==
    IF d.coefficient = 0 THEN d ELSE Stripped(RoundedTo(d, precision))

FitDecimal(d, precision) ==
    LET n == Normalized(d, precision)
        integerDigits == IF n.coefficient = 0 THEN 1
                         ELSE Max(1, n.exponent + DigitCount(n.coefficient))
    IN  Max(0, -n.exponent) =< FractionDigits /\ integerDigits =< IntegerDigits

-----------------------------------------------------------------------------
Init ==
    /\ sum = Zero /\ exact = Zero /\ count = 0
    /\ judged = Zero /\ accepted = TRUE /\ source = "input"

\* d is computed and judged in a context of so many digits.
Judge(d, precision, from) ==
    /\ judged' = d
    /\ accepted' = FitDecimal(RoundedTo(d, precision), precision)
    /\ source' = from

\* decimal_value of a caller's value, which no context has rounded; what was
\* added before belongs to another call.
Input(d) ==
    /\ judged' = d /\ accepted' = FitDecimal(d, Precision) /\ source' = "input"
    /\ sum' = Zero /\ exact' = Zero /\ count' = 0

\* UsageInputV1.quantity of one more closed aggregate.  Usage stores totals
\* within the same bound.
Quantity(d) ==
    /\ count < MaxAggregates /\ WithinBound(d)
    /\ count' = count + 1
    /\ sum' = Added(sum, d)
    /\ exact' = Plus(exact, d)
    /\ Judge(sum', Precision, "quantity")

\* _multiply of an accepted quantity and an accepted price.
MultiplyShort(price) ==
    /\ count > 0 /\ FitDecimal(sum, Precision) /\ FitDecimal(price, Precision)
    /\ Judge(Times(sum, price), Precision, "product")
    /\ UNCHANGED <<sum, exact, count>>
Multiply(price) ==
    /\ count > 0 /\ FitDecimal(sum, Precision) /\ FitDecimal(price, Precision)
    /\ Judge(Times(sum, price), WidePrecision, "product")
    /\ UNCHANGED <<sum, exact, count>>

Next ==
    \/ \E d \in Inputs : Input(d)
    \/ \E d \in Totals : Quantity(d)
    \/ \E price \in Prices : Multiply(price)

Spec == Init /\ [][Next]_vars
-----------------------------------------------------------------------------
TypeOK ==
    /\ sum \in Decimal /\ exact \in Decimal /\ count \in 0 .. MaxAggregates
    /\ judged \in Decimal /\ accepted \in BOOLEAN
    /\ source \in {"input", "quantity", "product"}
    /\ DigitCount(sum.coefficient) =< Precision

Short(d) == DigitCount(d.coefficient) =< Precision

\* A product of factors with no more fraction digits than the bound allows.
Released(d) == source = "product" /\ -Stripped(d).exponent =< 2 * FractionDigits

\* The exact product of a quantity and a price, and every value the context can
\* hold, is accepted exactly if it is within the bound, however many zeros it
\* ends with: neither _multiply nor normalize() loses a digit that matters.
ShortValuesJudged ==
    judged.coefficient # 0 /\ (Short(Stripped(judged)) \/ Released(judged)) =>
        (accepted <=> WithinBound(judged))

\* A total whose exact numeral, written at the least exponent of the aggregates
\* and so with its trailing zeros, is no longer than the context is the exact
\* sum of them, in whatever order they were added: no partial sum loses a digit.
\* Zeros count: in three digits 12.05 and 0.45 make 12.4, though 12.5 is short.
ShortSumsExact == Short(exact) => SameValue(sum, exact)
=============================================================================
