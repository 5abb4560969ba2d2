\* Every use of sessions the type allows, overwriting assignments included, with
\* what acquire() and available() return against what happened meanwhile.
CONSTANTS
  Threads = {t1, t2}
  Slots = {s1, s2, s3}
  Config <- MCConfig
  DefaultConfig <- MCDefaultConfig
  Absent = Absent
  MovedFrom = MovedFrom
SPECIFICATION ObsSpec
SYMMETRY MCSymmetry
INVARIANTS
  TypeOK
  ExclusiveLease
  AvailableIsPlausible
PROPERTIES
  OnlyOverwriteLeaks
  GivesUpOnlyWhenBusy
