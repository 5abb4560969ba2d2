\* Two ranges and two loops, on one range or on both; an answer of no rows, of
\* part of a batch, of one batch and of one row more.
CONSTANTS
  Ranges = {r1, r2}
  Loops = {l1, l2}
  None = None
  BatchSize = 2
  MaxRows = 3
  Marks = {m1}
  Backends = {"sqlite", "postgres", "mysql", "duckdb"}
SPECIFICATION Spec
SYMMETRY MCSymmetry
INVARIANTS
  TypeOK
  InOrder
  Complete
  SharedCursor
  OnlyCommitted
  CleanWhenReleased
  NoEndlessErrors
