\* Two Categories, a Functional Role, a Type and a Group, two calls; a page of two
\* rows with two calls; a form with two Types and two roles; two texts to import.
SPECIFICATION MCSpec
CONSTANTS
    Categories = {c1, c2}
    FunctionalRoles = {f1}
    UomTypes = {t1}
    UomSets = {g1}
    Slots = {s1, s2}
    NoCategory = NoCategory
    Unsent = Unsent
    ListRows = {x1, x2}
    PageCalls = {p1, p2}
    MaxVersion = 2
    Gone = Gone
    FormTypes = {y1, y2}
    FormRoles = {r1, r2}
    Blank = Blank
    Untouched = Untouched
    MaxFactor = 1
    GroupNames = {N1, N2}
    N1 = N1
    N2 = N2
    NoName = NoName
    Texts <- SomeTexts
    MaxExports = 1
INVARIANTS
    SentIsShown
    DialogKeepsToItsText
    UomScreensTypeOK
    RemovedIsUnused
    ShownIsStored
PROPERTIES
    SaveClosesItsDialog
SYMMETRY Symmetric
CHECK_DEADLOCK FALSE
