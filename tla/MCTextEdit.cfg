SPECIFICATION Spec
CONSTANTS
  Texts <- MCTexts
  Keys <- MCKeys
  Breaks <- MCBreaks
  Modes <- MCModes
  Points <- MCPoints
  Widths = {2, 3}
  LayoutHeight = 1
  MaxSteps = 4
INVARIANTS
  LayoutAgrees
  SelectionPainted
  UndosReplayOneLine
CHECK_DEADLOCK FALSE
