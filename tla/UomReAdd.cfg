\* A factor is removed and given again, one call at a time.
SPECIFICATION MCSpec
CONSTANTS
    each = each
    box = box
    picker = picker
    Types = {each, box}
    Roles = {picker}
    Rates = {2, 3}
    None = None
    NotSent = NotSent
    GroupWrites <- Writes
    Requests = {s1}
    MaxDay = 0
    ScreenRoles = {r1, r2, r3}
    ScreenUsers = {u1, u2}
    ScreenGroups = {g1, g2}
    SeededRoles = {r1, r2}
    SeededGroups = {g1}
    Missing = Missing
    Gone = Gone
    TopLevel = TopLevel
    TheRows = TheRows
    PageSize = 1
    MaxSaves = 1
INVARIANTS
    ValidatedSaveIsAccepted
CHECK_DEADLOCK FALSE
