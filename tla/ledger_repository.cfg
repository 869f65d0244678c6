SPECIFICATION Spec
CONSTANTS
    None = None
    whole = whole
    split = split
    u1 = u1
    u2 = u2
    Clients = {c1, c2}
    Inputs = {u1, u2}
    Allocations = {whole, split}
    Keys <- KeysOf
    Instants = {1, 2}
    Requests <- ThreeRequests
    Boundary = "repository"
    StaleReads = FALSE
INVARIANTS
    TypeOK
    RecordsMatchParents
    RecordsSupersede
    RepeatReplays
    ConflictMeansProgress
SYMMETRY Symmetry
PROPERTY LedgerSpec
