\* Two users, two calls in progress, two records, two days of one time each, or
\* one with two managers; three tenants to sweep.
SPECIFICATION MCSpec
CONSTANTS
    worker = worker
    manager = manager
    Users = {worker, manager}
    Managers = {worker, manager}
    NoUser = NoUser
    Requests = {s1, s2}
    Resources = {p1, p2}
    MaxTime = 1
    DayOf <- ADayEach
    None = None
    SweptTenants = {t1, t2, t3}
INVARIANTS
    StatusAgrees
    DisciplinedOneOpenPunch
    OverridesExclude
PROPERTIES
    StaleOpenPunchIsFlagged
    StaleIsSwept
