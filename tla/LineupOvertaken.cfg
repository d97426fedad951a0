SPECIFICATION Spec
CONSTANTS
  p1 = p1
  p2 = p2
  p3 = p3
  p4 = p4
  p5 = p5
  away = away
  mA = mA
  mB = mB
  Matches = {mA, mB}
  Week <- MCWeek
  Division <- MCDivision
  Teams <- MCTeams
  ForceList <- MCForceList
  Drafts <- MCDrafts
  Asks <- MCAsks
  Requests = {r1, r2}
SYMMETRY MCSymmetry
INVARIANTS ErrorsNeverValidated
