SPECIFICATION MCSpec
CONSTANTS
    s1 = s1
    s2 = s2
    s3 = s3
    g = g
    a = a
    Systems <- MCSystems
    Bodies <- MCBodies
    Genesis <- g
    Torn = Torn
    Adopted <- MCAdopted
    Tolerance = 0
    MaxSeq = 1
    MaxTime = 1
    MaxCrashes = 2
    x = x
    y = y
    z = z
    first = first
    second = second
    Foreign = Foreign
    Down = Down
    Nothing = Nothing
    Calls = {x, y, z}
    SignerKeys = {first, second}
    MaxConnections = 2
INVARIANTS
    NoFork
    JournalGivesTheChain
    RepliesAreTheirs
PROPERTIES
    ImplementsLog
    EveryCallSettles
CHECK_DEADLOCK FALSE
