\* COMMIT after a statement of the transaction has failed.
CONSTANTS
  Rows = {r1, r2}
  Objects = {t1}
  BatchSize = 1
  Backends = {"postgres"}
  Trusted = {"sqlite", "postgres", "mysql"}
  Disciplined = FALSE
  Writes = "outside"
  OverwritesOpen = FALSE
SPECIFICATION Spec
SYMMETRY MCSymmetry
INVARIANTS
  NothingLost
