SPECIFICATION Spec
CONSTANTS
    RootOf <- MCRootOf
    FrontierRootOf <- MCFrontierRootOf
    PathOf <- MCPathOf
    RootFromPath <- MCRootFromPath
    None = None
    MaxReceipts = 4
    MaxSeals = 2
    MaxKeys = 2
INVARIANTS
    ExportsVerify
    PreviousDecides
    SealedReceiptsStand
    ProvenTimesAreTrue
CHECK_DEADLOCK FALSE
