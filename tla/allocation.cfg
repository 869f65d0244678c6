SPECIFICATION Spec
CONSTANTS
    Keys = {1, 2, 3}
    Weights = {0, 1, 2, 5}
    Totals <- SignedTotals
    Parties = 3
    Digits = 3
    SumDigits = 1
INVARIANTS
    TypeOK
    SharesAddUp
    Fairest
    CallerOrderIrrelevant
CHECK_DEADLOCK FALSE
