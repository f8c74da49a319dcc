SPECIFICATION MCSpec
CONSTANTS
    s1 = s1
    s2 = s2
    Nothing = Nothing
    Systems = {s1, s2}
    NoToken = NoToken
    MaxReceipts = 1
    MaxJobs = 2
    MaxExits = 1
INVARIANTS
    RequestsAreCovered
PROPERTIES
    EveryCheckpointAnchored
    DamageShows
    FollowsMain
CHECK_DEADLOCK FALSE
