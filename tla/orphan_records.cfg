SPECIFICATION Spec
CONSTANTS
    None = None
    whole = whole
    split = split
    u1 = u1
    u2 = u2
    Clients = {c1}
    Inputs = {u1, u2}
    Allocations = {whole, split}
    Keys <- KeysOf
    Instants = {1, 2}
    Requests <- ThreeRequests
    Boundary = "none"
    StaleReads = FALSE
INVARIANTS
    ReplayNotRefused
