SPECIFICATION FairSpec
CONSTANTS
    None = None
    whole = whole
    split = split
    u1 = u1
    u2 = u2
    Clients = {c1, c2}
    Inputs = {u1, u2}
    Allocations = {whole, split}
    Keys <- KeysOf
    Instants = {1, 2}
    Requests <- TwoInstants
    Boundary = "host"
    StaleReads = FALSE
INVARIANTS
    EvidenceAtomic
PROPERTY CallsFinish
