\* Transactions, writes in two batches and inserts; every step may fail.
CONSTANTS
  Rows = {r1, r2, r3}
  Objects = {t1, t2}
  BatchSize = 2
  Backends = {"sqlite", "postgres", "mysql", "duckdb"}
  Trusted = {"sqlite", "postgres", "mysql"}
  Disciplined = TRUE
  Writes = "outside"
  OverwritesOpen = FALSE
SPECIFICATION Spec
SYMMETRY MCSymmetry
INVARIANTS
  TypeOK
  NothingLost
  NothingUninvited
  SeesOwnWork
  Reusable
