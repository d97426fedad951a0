SPECIFICATION FairSpec
CONSTANTS
    Weeks = {w1}
    Workers = {p1, p2}
    Schedule = {"monday", "thursday"}
    MaxAttempts = 2
    LockMayDrop = TRUE
    ProviderMayMisreport = TRUE
INVARIANTS PublicIsPress NoRunMailedTwice
PROPERTIES JobsEnd
