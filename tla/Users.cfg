\* Three users and two roles, two calls in progress.
SPECIFICATION UsersSpec
CONSTANTS
    ann = ann
    bob = bob
    Users = {ann, bob, cid}
    Founders = {ann, bob}
    Admin = Admin
    Roles = {Admin, staff}
    Requests = {s1, s2}
    None = None
SYMMETRY UserSymmetry
CONSTRAINT SomethingToCheck
INVARIANTS
    AnAdminRemains
    PointersAreLiving
CHECK_DEADLOCK FALSE
