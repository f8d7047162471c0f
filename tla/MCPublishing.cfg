SPECIFICATION Narrow
CONSTANTS
  Publishes = {p1, p2, p3}
  Deletes = {d1, d2}
  None = None
SYMMETRY Symmetry
CHECK_DEADLOCK FALSE
INVARIANTS RowsSound Accounted
PROPERTIES KeepsServing
