------------------------------ MODULE MCDecimals ------------------------------
(* Small instances of Decimals for TLC: three digits of context, eight in     *)
(* _multiply, two after the point and four before it stand for 28, 100, 18    *)
(* and 58.                                                                    *)
EXTENDS Decimals

Coefficients == {0, 1, 5, 10, 45, 120, 999, 1000, 1205, 9996, 12345}

AnyDecimals == [coefficient : Coefficients, exponent : -3 .. 1]
UsageTotals == [coefficient : {0, 5, 45, 999, 1205, 9996}, exponent : -2 .. 0]

\* The last but one makes products of nine digits, which the wide context
\* rounds; the last is within the bound only after it is rounded.
UnitPrices ==
    {[coefficient |-> p[1], exponent |-> p[2]] :
        p \in {<<0, -1>>, <<1, 0>>, <<5, -2>>, <<12, -1>>, <<999999, -2>>, <<10001, -3>>}}
=============================================================================
