SPECIFICATION Spec
CONSTANTS
    Weeks = {w1}
    Workers = {p1, p2}
    Schedule = {"sunday", "monday", "thursday"}
    MaxAttempts = 2
    LockMayDrop = FALSE
    ProviderMayMisreport = FALSE
SYMMETRY WorkerSymmetry
PROPERTIES UncertaintyBlocks KeepsPromise
