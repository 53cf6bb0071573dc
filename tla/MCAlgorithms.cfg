CONSTANTS
  box1 = box1
  box2 = box2
  leaf1 = leaf1
  leaf2 = leaf2
  leaf3 = leaf3
  form = form
  child = child
  leaf = leaf
  none = none
SPECIFICATION Spec
INVARIANTS
  LaidOut DocumentAsWritten SkinsAgree RectsExact PictureAgrees
  TextsAgree
CHECK_DEADLOCK FALSE
