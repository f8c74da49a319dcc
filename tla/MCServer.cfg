SPECIFICATION MCSpec
CONSTANTS
    k1 = k1
    k2 = k2
    bot = bot
    acme = acme
    c1 = c1
    c2 = c2
    here = here
    there = there
    away = away
    Keys <- MCOneKey
    SystemOf <- MCSystemOf
    Accounts <- MCAccounts
    OperatorAccount = OperatorAccount
    Calls <- MCCalls
    Server = Server
    NoKey = NoKey
    VaultEnabled = TRUE
    OpenToAll = TRUE
    Limit = 2
    MaxEvents = 2
    Clients = {here, there, away}
    MaxFailures = 2
    Window = 2
    Lockout = 1
    MaxLockout = 2
    ForgetAfter = 1
    MaxEntries = 2
    MaxDelay = 1
    MaxTime = 2
    MaxWaiting = 2
    globex = globex
    u1 = u1
    u2 = u2
    l1 = l1
    l2 = l2
    Orgs <- MCOrgs
    Users <- MCUsers
    Systems <- MCSystems
    Links <- MCLinks
    Operator = Operator
    Under <- MCUnder
    OrganizationMaxSystems = 1
    Unborn = Unborn
    Deleted = Deleted
    None = None
    MaxQueue = 2
SYMMETRY Alike
INVARIANTS
    NoOrphans
    RevokedStaysOut
    AnswerAfterReceipt
    EveryCallAccountedFor
PROPERTIES
    KeptUnlessErased
    ImplementsCustody
    LockoutsAreKept
CHECK_DEADLOCK FALSE
