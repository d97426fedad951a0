SPECIFICATION Spec
CONSTANTS
  Configs = {good, better, bad}
  Valid = {good, better}
  Importers = {i1, i2}
  Activators = {a1}
  Workers = {sunday, monday}
  MaxWeek = 3
SYMMETRY MCSymmetry
CHECK_DEADLOCK FALSE
INVARIANT RunsUntouched
