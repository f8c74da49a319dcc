SPECIFICATION Spec
CONSTANTS
    RootOf <- MCRootOf
    FrontierRootOf <- MCFrontierRootOf
    PathOf <- MCPathOf
    RootFromPath <- MCRootFromPath
    None = None
    MaxReceipts = 2
    MaxSeals = 2
    MaxKeys = 1
INVARIANT
    AttestedTimesGoForward
CHECK_DEADLOCK FALSE
