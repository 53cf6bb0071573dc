SPECIFICATION Spec
CONSTANTS
  NULL = NULL
  button = button
  field = field
  menu = menu
  submenu = submenu
  message = message
  tip1 = tip1
  list = list
  sublist = sublist
  ok = ok
  text1 = text1
  Element = {field, button, list, sublist, ok, text1}
  Window = {menu, submenu, message, tip1}
  Parent <- MCParent
  Tooltip = {tip1}
  Popup = {menu, submenu, tip1}
  Dimmed = {message}
  Target <- MCTarget
  Contents <- MCContents
  Tipped = {button}
  Hover = {NULL, button}
  DropDown = button
  DropMenu = menu
  main = main
  Main = main
  Fields <- MCFields
CHECK_DEADLOCK FALSE
INVARIANTS
  OpenOnTarget
  NothingLeftBehind
