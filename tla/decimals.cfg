SPECIFICATION Spec
CONSTANTS
    Precision = 3
    FractionDigits = 2
    IntegerDigits = 4
    WidePrecision = 8
    MaxAggregates = 2
    Inputs <- AnyDecimals
    Totals <- UsageTotals
    Prices <- UnitPrices
INVARIANTS
    TypeOK
    ShortValuesJudged
    ShortSumsExact
