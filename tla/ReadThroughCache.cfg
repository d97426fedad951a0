SPECIFICATION MCSpec
CONSTANTS
    c1 = c1
    c2 = c2
    None = None
    Calls = {c1, c2}
    Home <- MCHome
    Requests <- MCRequests
    Inner <- MCInner
    Ranked = {"matches"}
    Patterns = {"latest", "matches", "ranking", "weekly", "points"}
    MaxVersion = 1
INVARIANTS OneGetter StaleHasACause
PROPERTIES KeepsPromise CallsEnd
