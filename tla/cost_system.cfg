SPECIFICATION FairSpec
CONSTANTS
    None = None
    card = card
    low = low
    high = high
    late = late
    disk = disk
    net = net
    whole = whole
    Clients = {c1}
    Cards = {card}
    Pricings = {low, high, late}
    Times = {1}
    Allocations = {whole}
    Keys <- KeysOf
    Instants = {1}
    Boundary = "repository"
    Aggregates = {disk, net}
    Closed <- ClosedFrom
    Matching <- MatchingOf
    Covering <- CoveringOnes
    Asks <- EveryPricing
    MaxDraftRevision = 2
    MaxUsageRevision = 2
    MaxFaults = 2
INVARIANTS
    PricedAsPublished
    RetiredCardsPriceNothing
    UsageNotOlderThanAsked
PROPERTY CurrentUsageSettles
