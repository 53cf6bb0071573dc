\* Two lists let entries and iterators change lists; two iterators make a chain on which one hides
\* behind the other; three entries give a middle one, with neighbours on both sides.
SPECIFICATION Spec
CONSTANTS
  NULL = NULL
  Entry = {e1, e2, e3}
  List = {l1, l2}
  Iter = {i1, i2}
INVARIANTS
  PointersAgree
PROPERTIES
  NoSkipNoRevisit
  RefinesIterableList
