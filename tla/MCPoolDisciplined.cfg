\* Programs that never assign over a Session that holds a connection.
CONSTANTS
  Threads = {t1, t2}
  Slots = {s1, s2, s3}
  Config <- MCConfig
  DefaultConfig <- MCDefaultConfig
  Absent = Absent
  MovedFrom = MovedFrom
SPECIFICATION FairDisciplinedSpec
INVARIANTS
  NoLeak
PROPERTIES
  ImplementsPromise
  AcquireReturns
  ConnectionComesBack
