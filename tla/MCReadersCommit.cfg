\* A range of PostgreSQL within a Transaction.
CONSTANTS
  Ranges = {r1}
  Loops = {l1}
  None = None
  BatchSize = 2
  MaxRows = 1
  Marks = {m1}
  Backends = {"postgres"}
SPECIFICATION Spec
INVARIANTS
  RolledBackUnlessCommitted
