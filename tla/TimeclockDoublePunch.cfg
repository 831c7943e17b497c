\* Two calls of one user overlap.
SPECIFICATION MCSpec
CONSTANTS
    worker = worker
    manager = manager
    Users = {worker, manager}
    Managers = {manager}
    NoUser = NoUser
    Requests = {s1, s2}
    Resources = {p1, p2}
    MaxTime = 1
    DayOf <- ADayEach
    None = None
    SweptTenants = {t1, t2, t3}
INVARIANTS
    OneOpenPunch
