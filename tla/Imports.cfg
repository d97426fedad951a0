SPECIFICATION MCSpec
CONSTANTS
    m = m
    p = p
    q = q
    a = a
    b = b
    c = c
    None = None
    Members = {m}
    Profiles = {p, q}
    Standings = {a, b, c}
    Shows <- MCShows
    Lists <- MCLists
    MaxDay = 2
    MaxLists = 2
    MaxFaults = 1
    Kinds = {"members", "results"}
    Categories = {"men"}
    First = "men"
    Batches <- MCBatches
    Attempts = 2
    MaxStalled = 1
    MaxPauses = 1
    MaxNights = 2
    MaxFailures = 2
INVARIANTS Current OneImport DuplicatesHaveACause
PROPERTIES Announced CatchesUp JobsEnd
