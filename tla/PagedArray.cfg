SPECIFICATION Spec
CONSTANTS
  p1 = p1
  p2 = p2
  b1 = b1
  b2 = b2
  b3 = b3
  Arrays = {p1, p2}
  Buffers = {b1, b2, b3}
  Parent <- MCParent
  Values = {v1, v2}
  Unset = Unset
  PageSize = 4
  MaxSize = 7
  Shrinking = FALSE
INVARIANT PagesExact
PROPERTY FullPagesStay
SYMMETRY Symmetry
