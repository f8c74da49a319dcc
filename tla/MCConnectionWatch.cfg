SPECIFICATION FairSpec
CONSTANTS
    c1 = c1
    c2 = c2
    h1 = h1
    h2 = h2
    monday = monday
    tuesday = tuesday
    Sessions <- MCOne
    Hashes <- MCHashes
    NoHash = NoHash
    BootOf <- MCBootOf
    NoBoot = NoBoot
    Nothing = Nothing
    LOST_AFTER = 1
    MAX_NEW_SESSIONS = 1
    MAX_GAPS = 1
    MaxBeats = 2
    MaxFaults = 2
INVARIANTS
    OneReceiptPerChange
PROPERTIES
    LostAfterTheAllowance
    SilenceIsRecorded
CHECK_DEADLOCK FALSE
