\* Two users, one session each, two records, leases of three ticks; or one job
\* with the schedules of two tenants, two toggles in progress, one crash, and then
\* one firing, after which no toggle follows: the instance ends.
SPECIFICATION MCSpec
CONSTANTS
    u1 = u1
    u2 = u2
    t1 = t1
    t2 = t2
    Users = {u1, u2}
    Sessions = {t1, t2}
    Resources = {r1, r2}
    NoUser = NoUser
    NoResource = NoResource
    UserOf <- OneTabEach
    Ttl = 3
    night = night
    demo = demo
    live = live
    Jobs = {night}
    Schedules = {demo, live}
    JobOf <- JobOfEach
    BaseHour <- Hour
    BaseMinute <- Minute
    Offset <- Stagger
    Requests = {s1, s2}
    Boot = Boot
    None = None
    MaxCrashes = 1
    Firings = {f1}
    Workers = {w1, w2}
    Rows = {1, 2}
INVARIANTS
    LeaseHonoured
    LoneSyncSettles
    PatternsStagger
    DoneIsRecorded
PROPERTIES
    LeaseLockSpec
    AbandonedLockLapses
    EveryFiringEnds
CHECK_DEADLOCK FALSE
