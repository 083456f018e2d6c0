SPECIFICATION Spec
CONSTANTS
  Producers = {p1, p2, p3}
  Items = {a, b}
  Cells = {c1, c2, c3, c4, c5}
  Nil = Nil
SYMMETRY Symmetry
INVARIANTS WellLinked MemorySafe
PROPERTY ImplementsMpsc
\* the destroyed queue has no step left
CHECK_DEADLOCK FALSE
