CONSTANTS
  radio1 = radio1
  radio2 = radio2
  slider = slider
  none = none
  Widget = {radio1, radio2, slider}
  Ranged = {slider}
  Limits <- MCLimits
  Group <- MCGroup
  Connectable = {radio1, slider}
  NewValue = {0, 1, 2}
  MaxCalls = 2
  no_element = no_element
  MaxPages = 3
  Lengths = {0, 3, 5}
  Splitter = 2
  Minima = {0, 1}
  Places <- MCPlaces
  SpinLimits <- MCSpinLimits
  Typed <- MCTyped
  Callbacks = 2
  Rects <- MCRects
  Padding = 0
  BarWidth = 4
  Wide = 15
  FontHeight = 10
  Pointers <- MCPointers
  MaxLines = 3
  Set = {0, 3}
  TakesFocus = TRUE
  inner = inner
  outer = outer
  root = root
  child = child
  weak = weak
  listener = listener
  handler = handler
  event = event
  nullptr = nullptr
  Element = {root, child}
  Parent <- MCParent
  Id <- MCId
  Weak = {weak}
  Listener = {listener}
  Handler = {handler}
  Event = {event}
  MaxFunctions = 1
  MaxNesting = 2
  Box = {list, menu}
  Menu = menu
  Text = {1, 2}
  Separators = {1}
  Passing = {2}
  Nodes <- MCNodes
  MaxItems = 3
  Image = {image1, image2, image3}
  Returned = returned
  Rep = {rep1, rep2, rep3}
  Requested = {"photo", "icon", "sign"}
  Hash <- MCHash
  Dst <- MCDst
  MaxSteps = 5
  MaxValueSteps = 3
  MaxTextSteps = 7
SPECIFICATION Spec
INVARIANTS
  ListsAgree ValuesAgree ScrollsFollow PanelsFollow InflatedAsWritten ValuesOwned TextBoxAgrees ListenersAgree ImagesAgree
CHECK_DEADLOCK FALSE
