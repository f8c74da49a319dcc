\* The guard's times are the default ones, in periods of five seconds: a ping a
\* minute, two minutes' cut, ten seconds for an answer.
SPECIFICATION SideSpec
CONSTANTS
    Spans = {1, 2, 3}
    Actions = {1, 3}
    MaxBatch = 2
    MaxFlushes = 1
    MaxFaults = 2
    None = None
    STRICT_MISSED_BEATS = 3
    MaxUpsets = 2
    BeatEvery = 12
    OFFLINE_MIN_SECONDS = 24
    Timeout = 2
    SleepLength = 8
    MaxTime = 40
    MaxSleeps = 1
INVARIANTS
    TakenIsRecorded
    OrderKept
    EndIsTold
PROPERTIES
    SpansAreSettled
    LongCutsAreTold
CHECK_DEADLOCK FALSE
