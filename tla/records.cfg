SPECIFICATION RecordsSpec
CONSTANTS
    Unbounded = Unbounded
    Quantities <- FewQuantities
    Cards <- CardsOfEachModel
    Intermediate = 10
    Final = 100
    Specs <- FewSpecs
    PerUnit = 10
    Digits = 4
    SumDigits = 2
INVARIANTS
    AcceptedCardsPriceAll
    WithinRounding
    MoreNeverCheaper
    AdjustmentsBounded
    RecordsAddUp
    AdjustmentsNearExact
CHECK_DEADLOCK FALSE
