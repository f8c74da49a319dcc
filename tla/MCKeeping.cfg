SPECIFICATION Spec
CONSTANTS
    hiring = hiring
    chat = chat
    north = north
    south = south
    acme = acme
    Operator = Operator
    ann = ann
    bob = bob
    None = None
    AllSystems = {hiring, chat}
    AllOrganizations = {acme}
    Persons = {ann, bob}
    Holders = {north, south}
    Keep = 2
    RemoteKeep = 1
    Overlap = 2
    MaxRuns = 4
    KEEP_DAYS = 0
    MaxDay = 2
    MaxDaily = 2
    MaxTransfers = 1
    MaxDataKeys = 2
    MaxFiles = 2
    MaxChanges = 3
    SessionLength = 1
    TicketLength = 1
    MaxTime = 2
    MaxStarts = 2
    MaxCookies = 3
    MaxTickets = 1
SYMMETRY Symmetric
INVARIANTS
    HoldsItsDay
    KeysOpenInTheirVault
    SessionsExact
PROPERTY
    LastGoodCopyStays
CHECK_DEADLOCK FALSE
