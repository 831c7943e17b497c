\* A range of personal days that ends before it starts.
SPECIFICATION MCSpec
CONSTANTS
    SyncUsers = {u1, u2}
    Savers = {s1, s2}
    SyncWorkers = {w1, w2}
    MaxSaves = 2
    Free = Free
    TimeRecords = {1, 2, 3}
    LastDay = 2
    FirstWeekday = 6
    PunchHours <- HoursOfPunches
    WorkdayHours = 1
    OvertimeThreshold = 2
    Groups = {g1, g2}
    Profiles = {p1, p2}
    Holidays = {h1}
    People = {m1, m2}
    Permissions = {x1, x2}
    Callers = {c1, c2}
    Missing = Missing
    Touched = {g1, p1}
    qa = qa
    wbc = wbc
    Tenants = {qa, wbc}
    TypeOf <- TypeOfEach
    Skeleton = Skeleton
    Requests = {r1, r2}
    None = None
    MaxRelease = 2
    SeedGroups = {b1, b2}
    Bagged = b2
    SeedPunches = {k1}
    LastSeedDay = 1
    NoRun = NoRun
CONSTRAINT Small
INVARIANTS
    RangesAreInOrder
CHECK_DEADLOCK FALSE
