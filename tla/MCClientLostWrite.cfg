\* write() whose rows are refused when the DuckDB appender is flushed.
CONSTANTS
  Rows = {r1}
  Objects = {t1}
  BatchSize = 1
  Backends = {"duckdb"}
  Trusted = {"duckdb"}
  Disciplined = TRUE
  Writes = "outside"
  OverwritesOpen = FALSE
SPECIFICATION Spec
SYMMETRY MCSymmetry
INVARIANTS
  NothingLost
