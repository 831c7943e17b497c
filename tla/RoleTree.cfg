\* Four roles, two calls in progress.
SPECIFICATION RTSpec
CONSTANTS
    Roles = {r1, r2, r3, r4}
    Requests = {s1, s2}
    NoRole = NoRole
    MaxDepth = 3
SYMMETRY RoleAndRequestSymmetry
CONSTRAINT SomethingToCheck
INVARIANTS
    UndisturbedIsAcyclic
    SettledDepthIsNesting
