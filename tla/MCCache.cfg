\* Two threads fetch two texts through a cache of one, three times; queries may
\* fail, and the database changes once.  No symmetry: there is a liveness
\* property.
CONSTANTS
  Threads = {t1, t2}
  Keys = {k1, k2}
  max_size_ = 1
  MayFail = TRUE
  Null = Null
  MaxCalls = 3
  MaxVersion = 1
SPECIFICATION FairObsSpec
INVARIANTS
  TypeOK
  SizeBounded
  FutureMatchesKey
  NoBlockingErase
  FreshOnMiss
PROPERTIES
  
  JustPlacedStays
  NoStampede
  FetchReturns
