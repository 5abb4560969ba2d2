\* Two users in turn, with two ranges of an answer of no row or of one, and two
\* transactions or two rows in one.
CONSTANTS
  Users = {u1, u2}
  Nobody = Nobody
  Ranges = {r1, r2}
  Loops = {l1}
  None = None
  BatchSize = 1
  MaxRows = 1
  Marks = {m1, m2}
  Backends = {"sqlite", "postgres", "mysql", "duckdb"}
  CallsAlone = {"postgres", "mysql"}
  ReadsOutside = {"postgres"}
  ReturnsEmpty = {"postgres", "mysql"}
SPECIFICATION SessionsSpec
SYMMETRY MCSymmetry
INVARIANTS
  ReturnedClean
PROPERTIES
  ImplementsTurns
