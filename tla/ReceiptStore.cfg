SPECIFICATION FairSpec
CONSTANTS
    Spans = {span1}
    Others = {other1}
    Genesis = Genesis
    Nobody = Nobody
    Customer = Customer
    Owners = {Nobody, Customer}
    JournalStart = 1
    RECOVERY_PAGE = 1
    MaxSigned = 3
    MaxFaults = 3
INVARIANTS
    AnsweredKept
    SealsCoverTheChain
    AlarmsHaveACause
PROPERTIES
    ImplementsLog
    ChainCatchesUp
CHECK_DEADLOCK FALSE
