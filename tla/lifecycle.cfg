SPECIFICATION Spec
CONSTANTS
    None = None
    MaxExpected = 3
    Clients = {c1, c2}
    Cards = {card}
    Pricings <- RepricedTerms
    Times = {1}
    Requests <- LifecycleRequests
    StaleReads = TRUE
INVARIANTS
    TypeOK
    LifecycleChain
    OneSnapshotPerRevision
    PricingFrozen
    ReturnedAsAsked
    RefusedNotStored
    ExpectedRevisionExclusive
SYMMETRY Symmetry
PROPERTY RegisterSpec
