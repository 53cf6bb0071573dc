SPECIFICATION Spec
CONSTANTS
  NULL = NULL
  root = root
  panel = panel
  button = button
  check = check
  over = over
  outside = outside
  Element = {root, panel, button, check}
  Root = root
  Tree <- MCTree
  Focusable = {button, check}
  LongClickable = {button}
  ClickByKey = {check}
  AutoRepeat = {button}
  Scrollable = {panel}
  Position = {over, outside}
  Covers <- MCCovers
  Calls = 1
CHECK_DEADLOCK FALSE
INVARIANTS
  CallsReachElements
  TimersFollowCapture
  FocusToldAgrees
PROPERTIES
  ClickFollowsPress
