SPECIFICATION FairSpec
CONSTANTS
  a1 = a1
  a2 = a2
  a3 = a3
  NULL = NULL
  Animation <- MCTwoAnimations
  Durations <- MCDurations
  Times <- MCFirstUpdate
  Restarts = TRUE
  TimeRange = 16
  MaxLag = 1
  MaxCalls = 1
PROPERTIES
  EventuallyStopped
