\* The documented promise, for every use of sessions the type allows.
CONSTANTS
  Threads = {t1}
  Slots = {s1, s2}
  Config <- MCConfig
  DefaultConfig <- MCDefaultConfig
  Absent = Absent
  MovedFrom = MovedFrom
SPECIFICATION Spec
INVARIANTS
  NoLeak
