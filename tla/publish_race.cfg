SPECIFICATION Spec
CONSTANTS
    None = None
    MaxExpected = 3
    Clients = {c1, c2}
    Cards = {cardA, cardB}
    Pricings <- OverlappingIntervals
    Times = {1}
    Requests <- PublicationRequests
    StaleReads = FALSE
INVARIANTS
    StaleMeansProgress
    SettledPublicationsRespected
SYMMETRY Symmetry
