\* Two pages, two accounts, two wrong tries of either kind before the limit, two codes.
SPECIFICATION LoginSpec
CONSTANTS
    ann = ann
    bob = bob
    p1 = p1
    p2 = p2
    Accounts = {ann, bob}
    Pages = {p1, p2}
    Requests <- FormSlots
    MaxFailedAttempts = 2
    MaxVerifyAttempts = 2
    MaxFailures = 3
    MaxCodes = 2
    None = None
    NoToken = NoToken
CONSTRAINT SmallEnough
INVARIANTS
    LimitLocks
    CodeIsGoodOnce
PROPERTIES
    LockoutLasts
    SessionIsOfLastLogin
    OneTimeCodeSpec
