SPECIFICATION Spec
CONSTANTS
  a1 = a1
  a2 = a2
  a3 = a3
  NULL = NULL
  Animation <- MCAnimation
  Durations <- MCDurations
  Times <- MCFirstUpdate
  Restarts = FALSE
  TimeRange = 16
  MaxLag = 1
  MaxCalls = 2
SYMMETRY Symmetry
INVARIANTS
  UpdatesAgree
PROPERTIES
  CompletesAfterLast
