SPECIFICATION MCSpec
CONSTANTS
  f1 = f1
  f2 = f2
  f3 = f3
  x1 = x1
  x2 = x2
  x3 = x3
  x4 = x4
  NULL = NULL
  N = 5
  no_element = no_element
  Unfocused = FALSE
  Form <- MCForm
  Field <- MCField
  Fields <- MCFields
  CanActivate <- MCCanActivate
  Modal <- MCNoModal
INVARIANTS
  FormsAgree
PROPERTIES
  FocusFollows
  TraversalAgrees
