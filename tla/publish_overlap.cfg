SPECIFICATION Spec
CONSTANTS
    None = None
    MaxExpected = 3
    Clients = {c1, c2}
    Cards = {cardA, cardB}
    Pricings <- OneInterval
    Times = {1}
    Requests <- PublicationRequests
    StaleReads = FALSE
INVARIANTS
    NoPublishedOverlap
SYMMETRY Symmetry
