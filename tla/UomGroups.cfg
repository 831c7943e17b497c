\* Two calls in progress, two days; in a tab two users on pages of one row, two
\* seeded roles and a third, two groups.
SPECIFICATION MCSpec
CONSTANTS
    each = each
    box = box
    picker = picker
    Types = {each, box}
    Roles = {picker}
    Rates = {2, 3}
    None = None
    NotSent = NotSent
    GroupWrites <- Writes
    Requests = {s1, s2}
    MaxDay = 1
    ScreenRoles = {r1, r2, r3}
    ScreenUsers = {u1, u2}
    ScreenGroups = {g1, g2}
    SeededRoles = {r1, r2}
    SeededGroups = {g1}
    Missing = Missing
    Gone = Gone
    TopLevel = TopLevel
    TheRows = TheRows
    PageSize = 1
    MaxSaves = 1
SYMMETRY MCSymmetry
CONSTRAINT SomethingToCheck
INVARIANTS
    HistoryIsSound
    SerialGroupIsUsable
    RowsAreShown
    RowsAgree
    GroupsAndScreensTypeOK
CHECK_DEADLOCK FALSE
