SPECIFICATION Spec
CONSTANTS
    None = None
    Cards = {cardA, cardB, cardC}
    Pricings <- Terms
    Times = {1}
    Resolvers = {r1}
    Queries <- Windows
    MaxDraftRevision = 1
PROPERTIES
    ResolvedWasPublished
    SettledCardsResolved
