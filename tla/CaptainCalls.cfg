SPECIFICATION MCSpec
CONSTANTS
    r1 = r1
    r2 = r2
    r3 = r3
    p1 = p1
    p2 = p2
    None = None
    Requests = {r1, r2, r3}
    Players = {p1, p2}
    Statuses = {"yes"}
    Notes = {"late"}
    MaxSends = 2
    MaxDecisions = 3
SYMMETRY MCSymmetry
CHECK_DEADLOCK FALSE
INVARIANTS Asked LastDecisionStands
PROPERTIES PollStands
