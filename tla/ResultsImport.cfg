SPECIFICATION FairSpec
CONSTANTS
    r1 = r1
    r2 = r2
    r3 = r3
    a = a
    b = b
    x = x
    y = y
    tournament = tournament
    championship = championship
    Rows = {r1, r2, r3}
    Values = {a, b}
    Absent = absent
    Competitions = {x, y}
    CompetitionOf <- Of
    Types = {tournament, championship}
    Versions <- Nights
    Chunk = 2
    Batch = 1
    Attempts = 2
    MaxFaults = 2
INVARIANTS Current StaleCachesHaveACause
PROPERTIES CatchesUp
