----------------------------- MODULE CacheProofs -----------------------------
(***************************************************************************)
(* What Cache promises for any number of threads, texts, calls and changes *)
(* of the database, and for every capacity.                                *)
(***************************************************************************)
EXTENDS CacheObserver, FiniteSetTheorems, TLAPS

Writing == {"locked", "stored"}
Holding == {"found", "store", "locked", "stored", "own"}

\* The discipline of mtx_: who is inside which critical section.
LockInv ==
  /\ \A t \in Threads : writer = t <=> pc[t] \in Writing
  /\ \A t \in Threads : t \in readers <=> pc[t] = "lookup"
  /\ writer # Null => readers = {}

\* Futures are only ever named after they were started, and for their text.
FutureInv ==
  /\ \A t \in Threads : hand[t] \in 0 .. Len(futures)
  /\ \A t \in Threads : pc[t] \in Holding => hand[t] # 0
  /\ \A t \in Threads : pc[t] \notin {"idle", "size"} => key[t] \in Keys
  /\ \A k \in Cached : cache_[k].future \in 1 .. Len(futures)
  /\ FutureMatchesKey

Inv == TypeOK /\ LockInv /\ FutureInv

LEMMA ResultFacts ==
  /\ Running \in Results
  /\ Failed \in Results
  /\ \A v \in 0 .. MaxVersion : Value(v) \in Results
BY DEF Results

LEMMA FutureType ==
  ASSUME TypeOK
  PROVE  /\ Len(futures) \in Nat
         /\ \A i \in 1 .. Len(futures) :
              futures[i].key \in Keys /\ futures[i].result \in Results
<1> DEFINE S == [key : Keys, result : Results]
<1>1. futures \in Seq(S)
  BY DEF TypeOK
<1> HIDE DEF S
<1>2. \A i \in 1 .. Len(futures) : futures[i] \in S
  BY <1>1
<1> QED
  BY <1>1, <1>2 DEF S

LEMMA InitInv == Init => Inv
<1> SUFFICES ASSUME Init PROVE Inv
  OBVIOUS
<1> USE NullAssumption, CacheAssumption DEF Init
<1>1. TypeOK
  <2>1. <<>> \in Seq([key : Keys, result : Results])
    OBVIOUS
  <2> QED
    BY <2>1, ResultFacts DEF TypeOK, Phases
<1>2. LockInv
  BY DEF LockInv, Writing
<1>3. FutureInv
  BY DEF FutureInv, FutureMatchesKey, Cached, Holding
<1> QED
  BY <1>1, <1>2, <1>3 DEF Inv

\* Steps that only move a thread on, or take and release the shared lock.
LEMMA CallStep ==
  ASSUME Inv, NEW t \in Threads, NEW k \in Keys, Call(t, k)
  PROVE  Inv'
<1> USE CacheAssumption, NullAssumption, ResultFacts
    DEF Call, Goto, lockVars, storeVars, Inv
<1>1. TypeOK'
  BY DEF TypeOK, Phases
<1>2. LockInv'
  BY DEF LockInv, Writing, TypeOK
<1>3. FutureInv'
  BY DEF FutureInv, FutureMatchesKey, Cached, Holding, TypeOK
<1> QED
  BY <1>1, <1>2, <1>3

LEMMA LockSharedStep ==
  ASSUME Inv, NEW t \in Threads, LockShared(t)
  PROVE  Inv'
<1> USE NullAssumption
    DEF LockShared, Goto, lockVars, storeVars, callVars, Inv
<1>1. TypeOK'
  BY DEF TypeOK, Phases
<1>2. LockInv'
  BY DEF LockInv, Writing, TypeOK
<1>3. FutureInv'
  BY DEF FutureInv, FutureMatchesKey, Cached, Holding, TypeOK
<1> QED
  BY <1>1, <1>2, <1>3

LEMMA LookupStep ==
  ASSUME Inv, NEW t \in Threads, Lookup(t)
  PROVE  Inv'
<1> USE NullAssumption
    DEF Lookup, Goto, lockVars, storeVars, callVars, Inv
<1>0. key[t] \in Cached => cache_[key[t]].future \in Nat \ {0}
  BY DEF Cached, TypeOK, Entries
<1>1. TypeOK'
  BY <1>0 DEF TypeOK, Phases
<1>2. LockInv'
  BY DEF LockInv, Writing, TypeOK
<1>3. CASE key[t] \in Cached
  <2>1. /\ hand' = [hand EXCEPT ![t] = cache_[key[t]].future]
        /\ pc' = [pc EXCEPT ![t] = "found"]
    BY <1>3
  <2>2. /\ hand'[t] \in 1 .. Len(futures)
        /\ futures[hand'[t]].key = key[t]
    BY <1>3, <2>1 DEF FutureInv, FutureMatchesKey, TypeOK
  <2>3. FutureInv'
    BY <2>1, <2>2, FutureType
    DEF FutureInv, FutureMatchesKey, Cached, Holding, TypeOK
  <2> QED
    BY <1>1, <1>2, <2>3
<1>4. CASE key[t] \notin Cached
  <2>1. hand' = hand /\ pc' = [pc EXCEPT ![t] = "launch"]
    BY <1>4
  <2>2. FutureInv'
    BY <2>1 DEF FutureInv, FutureMatchesKey, Cached, Holding, TypeOK
  <2> QED
    BY <1>1, <1>2, <2>2
<1> QED
  BY <1>3, <1>4

LEMMA GetStep ==
  ASSUME Inv, NEW t \in Threads, GetFound(t) \/ GetOwn(t)
  PROVE  Inv'
<1> USE NullAssumption
    DEF GetFound, GetOwn, Goto, lockVars, storeVars, callVars, Inv
<1>0. futures[hand[t]].result \in Results
  BY FutureType DEF FutureInv, Holding
<1>1. TypeOK'
  BY <1>0 DEF TypeOK, Phases
<1>2. LockInv'
  BY DEF LockInv, Writing, TypeOK
<1>3. FutureInv'
  BY DEF FutureInv, FutureMatchesKey, Cached, Holding, TypeOK
<1> QED
  BY <1>1, <1>2, <1>3

LEMMA SizeStep ==
  ASSUME Inv, NEW t \in Threads, BeginSize(t) \/ EndSize(t)
  PROVE  Inv'
<1> USE NullAssumption
    DEF BeginSize, EndSize, Goto, lockVars, storeVars, callVars, Inv
<1>1. TypeOK'
  BY DEF TypeOK, Phases
<1>2. LockInv'
  BY DEF LockInv, Writing, TypeOK
<1>3. FutureInv'
  <2>1. /\ hand' = hand /\ key' = key /\ futures' = futures /\ cache_' = cache_
        /\ pc' = [pc EXCEPT ![t] = "idle"] \/ pc' = [pc EXCEPT ![t] = "size"]
    OBVIOUS
  <2>2. Cached' = Cached
    BY <2>1 DEF Cached
  <2>3. \A u \in Threads :
          pc'[u] = pc[u] \/ (pc'[u] \in {"idle", "size"} /\ pc[u] \in {"idle", "size"})
    BY <2>1 DEF TypeOK
  <2>. QED BY <2>1, <2>2, <2>3 DEF FutureInv, FutureMatchesKey, Holding
<1> QED
  BY <1>1, <1>2, <1>3

LEMMA WriteStep == ASSUME Inv, Write PROVE Inv'
<1> USE NullAssumption, CacheAssumption
    DEF Write, lockVars, storeVars, callVars, Inv
<1>1. TypeOK'
  BY DEF TypeOK
<1>2. LockInv'
  BY DEF LockInv
<1>3. FutureInv'
  BY DEF FutureInv, FutureMatchesKey, Cached
<1> QED
  BY <1>1, <1>2, <1>3

\* A new future gets the next index; the old ones keep theirs.
LEMMA LaunchStep ==
  ASSUME Inv, NEW t \in Threads, Launch(t)
  PROVE  Inv'
<1> DEFINE f == [key |-> key[t], result |-> Running]
           S == [key : Keys, result : Results]
<1>1. /\ pc[t] = "launch"
      /\ futures' = Append(futures, f)
      /\ hand' = [hand EXCEPT ![t] = Len(futures) + 1]
      /\ pc' = [pc EXCEPT ![t] = "store"]
      /\ cache_' = cache_ /\ counter_' = counter_
      /\ readers' = readers /\ writer' = writer
      /\ key' = key
      /\ UNCHANGED <<returned, version, began, calls>>
  BY DEF Launch, Goto, lockVars, storeVars, callVars
<1>2. key[t] \in Keys /\ f \in S
  BY <1>1, ResultFacts DEF Inv, FutureInv
<1>3. /\ futures' \in Seq(S)
      /\ Len(futures) \in Nat
      /\ Len(futures') = Len(futures) + 1
      /\ futures'[Len(futures) + 1] = f
      /\ \A i \in 1 .. Len(futures) : futures'[i] = futures[i]
  <2>1. futures \in Seq(S)
    BY DEF Inv, TypeOK
  <2> HIDE DEF f, S
  <2> QED
    BY <1>1, <1>2, <2>1
<1>4. TypeOK'
  BY <1>1, <1>3 DEF Inv, TypeOK, Phases
<1>5. LockInv'
  BY <1>1 DEF Inv, LockInv, Writing, TypeOK
<1>6. FutureInv'
  <2>1. \A u \in Threads : hand'[u] \in 0 .. Len(futures')
    BY <1>1, <1>3 DEF Inv, FutureInv, TypeOK
  <2>2. \A u \in Threads : pc'[u] \in Holding => hand'[u] # 0
    BY <1>1, <1>3 DEF Inv, FutureInv, TypeOK
  <2>3. \A u \in Threads : pc'[u] \notin {"idle", "size"} => key'[u] \in Keys
    BY <1>1 DEF Inv, FutureInv, TypeOK
  <2>4. \A k \in Cached' : cache_'[k].future \in 1 .. Len(futures')
    BY <1>1, <1>3 DEF Inv, FutureInv, Cached
  <2>5. \A k \in Cached' : futures'[cache_'[k].future].key = k
    BY <1>1, <1>3 DEF Inv, FutureInv, FutureMatchesKey, Cached
  <2>6. ASSUME NEW u \in Threads, hand'[u] # 0
        PROVE  futures'[hand'[u]].key = key'[u]
    BY <1>1, <1>3, <2>6 DEF Inv, FutureInv, FutureMatchesKey, TypeOK
  <2> QED
    BY <2>1, <2>2, <2>3, <2>4, <2>5, <2>6 DEF FutureInv, FutureMatchesKey
<1> QED
  BY <1>4, <1>5, <1>6 DEF Inv

\* The end of a query changes its result, and nothing else of its future.
LEMMA FinishStep ==
  ASSUME Inv, NEW i \in DOMAIN futures, Finish(i)
  PROVE  Inv'
<1> DEFINE S == [key : Keys, result : Results]
<1>1. PICK r \in {Value(version)} \cup (IF MayFail THEN {Failed} ELSE {}) :
        futures' = [futures EXCEPT ![i] = [key |-> futures[i].key, result |-> r]]
  BY DEF Finish
<1>2. r \in Results
  BY ResultFacts DEF Inv, TypeOK
<1>3. /\ futures' \in Seq(S)
      /\ Len(futures') = Len(futures)
      /\ \A j \in 1 .. Len(futures) : futures'[j].key = futures[j].key
  <2> DEFINE f == [key |-> futures[i].key, result |-> r]
  <2>1. futures \in Seq(S) /\ i \in 1 .. Len(futures)
    BY DEF Inv, TypeOK
  <2>2. f \in S /\ f.key = futures[i].key
    BY <1>2, <2>1, FutureType DEF Inv
  <2> HIDE DEF S, f
  <2>3. futures' = [futures EXCEPT ![i] = f]
    BY <1>1 DEF f
  <2> QED
    BY <2>1, <2>2, <2>3
<1>4. UNCHANGED <<cache_, counter_, readers, writer, pc, hand, key, began,
                  returned, version, calls>>
  BY DEF Finish, lockVars, storeVars, callVars
<1>5. TypeOK'
  BY <1>3, <1>4 DEF Inv, TypeOK
<1>6. LockInv'
  BY <1>4 DEF Inv, LockInv
<1>7. FutureInv'
  <2>1. \A k \in Cached' : /\ cache_'[k].future \in 1 .. Len(futures)
                           /\ futures'[cache_'[k].future].key = k
    BY <1>3, <1>4 DEF Inv, FutureInv, FutureMatchesKey, Cached
  <2>2. ASSUME NEW t \in Threads, hand'[t] # 0
        PROVE  futures'[hand'[t]].key = key'[t]
    <3>1. hand[t] \in 1 .. Len(futures)
      BY <1>4, <2>2, FutureType DEF Inv, FutureInv
    <3> QED
      BY <1>3, <1>4, <2>2, <3>1 DEF Inv, FutureInv, FutureMatchesKey
  <2> QED
    BY <1>3, <1>4, <2>1, <2>2 DEF Inv, FutureInv, FutureMatchesKey
<1> QED
  BY <1>5, <1>6, <1>7 DEF Inv

LEMMA LockUniqueStep ==
  ASSUME Inv, NEW t \in Threads, LockUnique(t)
  PROVE  Inv'
<1> USE NullAssumption
    DEF LockUnique, Goto, lockVars, storeVars, callVars, Inv
<1>1. TypeOK'
  BY DEF TypeOK, Phases
<1>2. LockInv'
  BY DEF LockInv, Writing, TypeOK
<1>3. FutureInv'
  BY DEF FutureInv, FutureMatchesKey, Cached, Holding, TypeOK
<1> QED
  BY <1>1, <1>2, <1>3

LEMMA StoreStep ==
  ASSUME Inv, NEW t \in Threads, Store(t)
  PROVE  Inv' /\ Cached' = Cached \cup {key[t]}
<1> DEFINE e == [future |-> hand[t], counter |-> counter_]
<1>1. /\ pc[t] = "locked"
      /\ cache_' = [cache_ EXCEPT ![key[t]] = e]
      /\ counter_' = counter_ + 1
      /\ pc' = [pc EXCEPT ![t] = "stored"]
      /\ futures' = futures /\ hand' = hand /\ key' = key
      /\ readers' = readers /\ writer' = writer
      /\ UNCHANGED <<returned, version, began, calls>>
  BY DEF Store, Goto, lockVars, callVars
<1>2. key[t] \in Keys /\ hand[t] \in 1 .. Len(futures)
  BY <1>1, FutureType DEF Inv, FutureInv, Holding
<1>3. e \in Entries /\ e # Null
  BY <1>2, FutureType, NullAssumption DEF Entries, Inv, TypeOK
<1>4. TypeOK'
  BY <1>1, <1>2, <1>3 DEF Inv, TypeOK, Phases
<1>5. LockInv'
  BY <1>1 DEF Inv, LockInv, Writing, TypeOK
<1>6. Cached' = Cached \cup {key[t]}
  BY <1>1, <1>2, <1>3 DEF Cached, Inv, TypeOK
<1>7. FutureInv'
  <2>1. \A k \in Cached' : /\ cache_'[k].future \in 1 .. Len(futures)
                           /\ futures[cache_'[k].future].key = k
    <3>1. ASSUME NEW k \in Cached', k = key[t]
          PROVE  cache_'[k] = e
      BY <1>1, <1>2, <3>1 DEF Inv, TypeOK
    <3>2. ASSUME NEW k \in Cached', k # key[t]
          PROVE  k \in Cached /\ cache_'[k] = cache_[k]
      BY <1>1, <1>6, <3>2 DEF Inv, TypeOK, Cached
    <3> QED
      BY <1>2, <3>1, <3>2 DEF Inv, FutureInv, FutureMatchesKey
  <2> QED
    BY <1>1, <2>1 DEF Inv, FutureInv, FutureMatchesKey, Holding, TypeOK
<1> QED
  BY <1>4, <1>5, <1>6, <1>7 DEF Inv

LEMMA EvictStep ==
  ASSUME Inv, NEW t \in Threads, Evict(t)
  PROVE  /\ Inv'
         /\ \/ /\ Cardinality(Cached) > max_size_
               /\ \E k \in Cached : Cached' = Cached \ {k}
            \/ Cardinality(Cached) <= max_size_ /\ Cached' = Cached
<1>1. /\ pc[t] = "stored"
      /\ pc' = [pc EXCEPT ![t] = "own"]
      /\ counter_' = counter_ /\ futures' = futures
      /\ hand' = hand /\ key' = key
      /\ readers' = readers /\ writer' = Null
      /\ UNCHANGED <<returned, version, began, calls>>
  BY DEF Evict, Goto, callVars
<1>2. LockInv'
  BY <1>1, NullAssumption DEF Inv, LockInv, Writing, TypeOK
<1>3. CASE /\ Cardinality(Cached) > max_size_
           /\ \E k \in Cached : cache_' = [cache_ EXCEPT ![k] = Null]
  <2>1. PICK k \in Cached : cache_' = [cache_ EXCEPT ![k] = Null]
    BY <1>3
  <2>2. Cached' = Cached \ {k}
    BY <2>1 DEF Cached, Inv, TypeOK
  <2>3. TypeOK'
    BY <1>1, <2>1 DEF Inv, TypeOK, Phases, Cached
  <2>4. FutureInv'
    <3>1. \A j \in Cached' : cache_'[j] = cache_[j] /\ j \in Cached
      BY <2>1, <2>2 DEF Inv, TypeOK, Cached
    <3> QED
      BY <1>1, <3>1 DEF Inv, FutureInv, FutureMatchesKey, Holding, TypeOK
  <2> QED
    BY <1>2, <1>3, <2>2, <2>3, <2>4 DEF Inv
<1>4. CASE Cardinality(Cached) <= max_size_ /\ cache_' = cache_
  <2>1. TypeOK'
    BY <1>1, <1>4 DEF Inv, TypeOK, Phases
  <2>2. FutureInv'
    BY <1>1, <1>4 DEF Inv, FutureInv, FutureMatchesKey, Cached, Holding, TypeOK
  <2> QED
    BY <1>2, <1>4, <2>1, <2>2 DEF Inv, Cached
<1> QED
  BY <1>3, <1>4 DEF Evict

LEMMA StutterStep == ASSUME Inv, UNCHANGED vars PROVE Inv'
BY DEF vars, storeVars, lockVars, callVars, Inv, TypeOK, LockInv, FutureInv,
       FutureMatchesKey, Cached

LEMMA InvStep == Inv /\ [Next]_vars => Inv'
BY CallStep, LockSharedStep, LookupStep, GetStep, LaunchStep, FinishStep,
   LockUniqueStep, StoreStep, EvictStep, SizeStep, WriteStep, StutterStep
DEF Next, FetchStep

LEMMA Invariance == Spec => []Inv
BY InitInv, InvStep, PTL DEF Spec

\* The state keeps its types, whatever the threads do.
THEOREM TypeCorrect == Spec => []TypeOK
<1>1. Inv => TypeOK
  BY DEF Inv
<1> QED
  BY <1>1, Invariance, PTL

\* A text never leads to the result of another text.
THEOREM TextsAreNotMixedUp == Spec => []FutureMatchesKey
<1>1. Inv => FutureMatchesKey
  BY DEF Inv, FutureInv
<1> QED
  BY <1>1, Invariance, PTL

-----------------------------------------------------------------------------
(* The capacity.                                                           *)

\* One entry too many is tolerated between the insertion and the eviction,
\* and only there.
CapacityInv ==
  /\ IsFiniteSet(Cached)
  /\ \/ Cardinality(Cached) <= max_size_
     \/ /\ Cardinality(Cached) = max_size_ + 1
        /\ \E t \in Threads : pc[t] = "stored"

LEMMA OneWriter ==
  ASSUME Inv, NEW t \in Threads, NEW u \in Threads,
         pc[t] \in Writing, pc[u] \in Writing
  PROVE  t = u
BY DEF Inv, LockInv

LEMMA CapacityStep ==
  ASSUME Inv, CapacityInv, [Next]_vars
  PROVE  CapacityInv'
<1> Cardinality(Cached) \in Nat
  BY FS_CardinalityType DEF CapacityInv
<1>1. ASSUME NEW t \in Threads, Store(t) PROVE CapacityInv'
  <2>1. pc[t] = "locked" /\ pc' = [pc EXCEPT ![t] = "stored"]
    BY <1>1 DEF Store, Goto
  <2>2. Cardinality(Cached) <= max_size_
    <3>1. ASSUME NEW u \in Threads, pc[u] = "stored" PROVE FALSE
      BY <2>1, <3>1, OneWriter DEF Writing
    <3> QED
      BY <3>1 DEF CapacityInv
  <2>3. Cached' = Cached \cup {key[t]}
    BY <1>1, StoreStep
  <2>4. /\ IsFiniteSet(Cached')
        /\ \/ Cardinality(Cached') = Cardinality(Cached)
           \/ Cardinality(Cached') = Cardinality(Cached) + 1
    BY <2>3, FS_AddElement DEF CapacityInv
  <2>5. pc'[t] = "stored"
    BY <2>1 DEF Inv, TypeOK
  <2> QED
    BY <2>2, <2>4, <2>5, CacheAssumption DEF CapacityInv
<1>2. ASSUME NEW t \in Threads, Evict(t) PROVE CapacityInv'
  <2>1. CASE Cardinality(Cached) <= max_size_ /\ Cached' = Cached
    BY <2>1 DEF CapacityInv
  <2>2. CASE /\ Cardinality(Cached) > max_size_
             /\ \E k \in Cached : Cached' = Cached \ {k}
    <3>1. /\ IsFiniteSet(Cached')
          /\ Cardinality(Cached') = Cardinality(Cached) - 1
      BY <2>2, FS_RemoveElement DEF CapacityInv
    <3> QED
      BY <2>2, <3>1, CacheAssumption DEF CapacityInv
  <2> QED
    BY <1>2, <2>1, <2>2, EvictStep
<1>3. CASE /\ cache_' = cache_
           /\ \A t \in Threads : pc[t] = "stored" => pc'[t] = "stored"
  BY <1>3 DEF CapacityInv, Cached
<1>4. ASSUME NEW t \in Threads, NEW p \in Phases,
             cache_' = cache_, pc[t] # "stored", pc' = [pc EXCEPT ![t] = p]
      PROVE  CapacityInv'
  BY <1>3, <1>4 DEF Inv, TypeOK
<1>5. ASSUME NEW t \in Threads,
             \/ \E k \in Keys : Call(t, k)
             \/ LockShared(t) \/ Lookup(t) \/ GetFound(t) \/ Launch(t)
             \/ LockUnique(t) \/ GetOwn(t) \/ BeginSize(t) \/ EndSize(t)
      PROVE  CapacityInv'
  BY <1>4, <1>5
  DEF Call, LockShared, Lookup, GetFound, Launch, LockUnique, GetOwn,
      BeginSize, EndSize, Goto, storeVars, Phases
<1>6. CASE Write \/ (\E i \in DOMAIN futures : Finish(i)) \/ UNCHANGED vars
  BY <1>3, <1>6 DEF Write, Finish, storeVars, vars
<1> QED
  BY <1>1, <1>2, <1>5, <1>6 DEF Next, FetchStep

\* However many threads store at once, the map is within its capacity
\* whenever the unique lock is free.
THEOREM SizeIsBounded == Spec => []SizeBounded
<1>1. Init => CapacityInv
  <2> SUFFICES ASSUME Init PROVE CapacityInv
    OBVIOUS
  <2>1. Cached = {}
    BY DEF Init, Cached
  <2> QED
    BY <2>1, FS_EmptySet, CacheAssumption DEF CapacityInv
<1>2. Inv /\ CapacityInv => SizeBounded
  BY NullAssumption DEF Inv, LockInv, Writing, CapacityInv, SizeBounded
<1> QED
  BY <1>1, <1>2, CapacityStep, Invariance, PTL DEF Spec

-----------------------------------------------------------------------------
(* The order of eviction.                                                  *)

OrderInv ==
  /\ \A k \in Cached : cache_[k].counter < counter_
  /\ \A j, k \in Cached : cache_[j].counter = cache_[k].counter => j = k

LEMMA OrderStep ==
  ASSUME Inv, OrderInv, [Next]_vars
  PROVE  OrderInv'
<1> \A k \in Cached : cache_[k].counter \in Nat
  BY DEF Inv, TypeOK, Cached, Entries
<1>1. ASSUME NEW t \in Threads, Store(t) PROVE OrderInv'
  <2>1. /\ cache_' = [cache_ EXCEPT ![key[t]] =
                        [future |-> hand[t], counter |-> counter_]]
        /\ counter_' = counter_ + 1
        /\ Cached' = Cached \cup {key[t]}
    BY <1>1, StoreStep DEF Store
  <2>2. key[t] \in Keys /\ counter_ \in Nat
    BY <1>1 DEF Store, Inv, FutureInv, TypeOK
  <2>3. cache_'[key[t]].counter = counter_
    BY <2>1, <2>2 DEF Inv, TypeOK
  <2>4. \A k \in Cached' :
          k # key[t] => k \in Cached /\ cache_'[k] = cache_[k]
    BY <2>1 DEF Inv, TypeOK, Cached
  <2> QED
    BY <2>1, <2>2, <2>3, <2>4 DEF OrderInv
<1>2. ASSUME NEW t \in Threads, Evict(t) PROVE OrderInv'
  <2>1. \A k \in Cached' : k \in Cached /\ cache_'[k] = cache_[k]
    BY <1>2 DEF Evict, Inv, TypeOK, Cached
  <2>2. counter_' = counter_
    BY <1>2 DEF Evict
  <2> QED
    BY <2>1, <2>2 DEF OrderInv
<1>3. CASE UNCHANGED storeVars
  BY <1>3 DEF storeVars, OrderInv, Cached
<1> QED
  BY <1>1, <1>2, <1>3
  DEF Next, FetchStep, Call, LockShared, Lookup, GetFound, Launch, LockUnique,
      GetOwn, BeginSize, EndSize, Write, Finish, vars, storeVars

LEMMA OrderInvariance == Spec => []OrderInv
<1>1. Init => OrderInv
  BY DEF Init, OrderInv, Cached
<1> QED
  BY <1>1, OrderStep, Invariance, PTL DEF Spec

\* First in, first out: what leaves the map was placed before all that stays.
THEOREM EvictionIsFifo == Spec => FifoEviction
<1>1. Inv /\ OrderInv /\ [Next]_vars =>
        [\A j, k \in Cached :
           j # k /\ cache_'[j] = Null =>
             cache_[j].counter < cache_[k].counter]_vars
  <2> SUFFICES ASSUME Inv, OrderInv, Next, NEW j \in Cached, NEW k \in Cached,
                      j # k, cache_'[j] = Null
               PROVE  cache_[j].counter < cache_[k].counter
    OBVIOUS
  <2>1. j \in Keys /\ k \in Keys /\ cache_[j] # Null
    BY DEF Cached
  <2>2. ASSUME NEW t \in Threads, Store(t) PROVE FALSE
    <3>1. Cached' = Cached \cup {key[t]}
      BY <2>2, StoreStep
    <3> QED
      BY <3>1, <2>1 DEF Cached
  <2>3. ASSUME NEW t \in Threads, Evict(t)
        PROVE  cache_[j].counter <= cache_[k].counter
    <3>1. PICK i \in Cached :
            /\ \A m \in Cached : cache_[i].counter <= cache_[m].counter
            /\ cache_' = [cache_ EXCEPT ![i] = Null]
      BY <2>1, <2>3 DEF Evict
    <3>2. i = j
      BY <2>1, <3>1 DEF Inv, TypeOK
    <3> QED
      BY <3>1, <3>2
  <2>4. \E t \in Threads : Store(t) \/ Evict(t)
    BY <2>1
    DEF Next, FetchStep, Call, LockShared, Lookup, GetFound, Launch,
        LockUnique, GetOwn, BeginSize, EndSize, Write, Finish, storeVars
  <2>5. cache_[j].counter <= cache_[k].counter
    BY <2>2, <2>3, <2>4
  <2>6. cache_[j].counter # cache_[k].counter
    BY DEF OrderInv
  <2>7. cache_[j].counter \in Nat /\ cache_[k].counter \in Nat
    BY DEF Inv, TypeOK, Cached, Entries
  <2> QED
    BY <2>5, <2>6, <2>7
<1> QED
  BY <1>1, OrderInvariance, Invariance, PTL DEF Spec, FifoEviction

-----------------------------------------------------------------------------
(* No query is waited for under the unique lock.                           *)

HeldBy(k) == \E t \in Threads :
               hand[t] = cache_[k].future /\ pc[t] \in {"stored", "own"}

LEMMA EraseStep ==
  ASSUME Inv, NoBlockingErase, [Next]_vars
  PROVE  NoBlockingErase'
<1> SUFFICES ASSUME NEW k \in Cached',
                    futures'[cache_'[k].future].result = Running
             PROVE  HeldBy(k)'
  BY DEF NoBlockingErase, HeldBy
<1> USE DEF HeldBy
<1>1. ASSUME NEW t \in Threads, Store(t) PROVE HeldBy(k)'
  <2>1. /\ cache_' = [cache_ EXCEPT ![key[t]] =
                        [future |-> hand[t], counter |-> counter_]]
        /\ Cached' = Cached \cup {key[t]}
        /\ futures' = futures /\ hand' = hand
        /\ pc[t] = "locked" /\ pc' = [pc EXCEPT ![t] = "stored"]
    BY <1>1, StoreStep DEF Store, Goto
  <2>2. CASE k = key[t]
    <3>1. cache_'[k].future = hand[t] /\ pc'[t] = "stored"
      BY <2>1, <2>2 DEF Inv, TypeOK, Cached
    <3> QED
      BY <2>1, <3>1
  <2>3. CASE k # key[t]
    <3>1. k \in Cached /\ cache_'[k] = cache_[k]
      BY <2>1, <2>3 DEF Inv, TypeOK, Cached
    <3> QED
      BY <2>1, <3>1 DEF NoBlockingErase, Inv, TypeOK
  <2> QED
    BY <2>2, <2>3
<1>2. ASSUME NEW t \in Threads, Evict(t) PROVE HeldBy(k)'
  <2>1. k \in Cached /\ cache_'[k] = cache_[k]
    BY <1>2 DEF Evict, Inv, TypeOK, Cached
  <2> QED
    BY <1>2, <2>1 DEF Evict, Goto, NoBlockingErase, Inv, TypeOK
<1>3. ASSUME NEW t \in Threads, GetOwn(t) PROVE HeldBy(k)'
  <2>1. /\ k \in Cached /\ cache_' = cache_ /\ futures' = futures
        /\ hand' = hand /\ pc' = [pc EXCEPT ![t] = "idle"]
        /\ futures[hand[t]].result # Running
    BY <1>3 DEF GetOwn, Goto, Cached, storeVars
  <2>2. PICK u \in Threads :
          hand[u] = cache_[k].future /\ pc[u] \in {"stored", "own"}
    BY <2>1 DEF NoBlockingErase
  <2>3. u # t
    BY <2>1, <2>2
  <2> QED
    BY <2>1, <2>2, <2>3 DEF Inv, TypeOK
<1>4. ASSUME cache_' = cache_, k \in Cached,
             futures[cache_[k].future].result = Running,
             \A u \in Threads : pc[u] \in {"stored", "own"} =>
               pc'[u] = pc[u] /\ hand'[u] = hand[u]
      PROVE  HeldBy(k)'
  BY <1>4 DEF NoBlockingErase
<1>5. ASSUME NEW t \in Threads, Launch(t) PROVE HeldBy(k)'
  <2>1. k \in Cached /\ cache_' = cache_
    BY <1>5 DEF Launch, storeVars, Cached
  <2>2. cache_[k].future \in 1 .. Len(futures) /\ Len(futures) \in Nat
    BY <2>1, FutureType DEF Inv, FutureInv
  <2>3. futures'[cache_[k].future] = futures[cache_[k].future]
    <3>1. futures \in Seq([key : Keys, result : Results])
      BY DEF Inv, TypeOK
    <3> DEFINE f == [key |-> key[t], result |-> Running]
    <3>2. futures' = Append(futures, f)
      BY <1>5 DEF Launch
    <3> HIDE DEF f
    <3> QED
      BY <2>2, <3>1, <3>2
  <2>4. \A u \in Threads : pc[u] \in {"stored", "own"} =>
          pc'[u] = pc[u] /\ hand'[u] = hand[u]
    BY <1>5 DEF Launch, Goto, Inv, TypeOK
  <2> QED
    BY <1>4, <2>1, <2>3, <2>4
<1>6. ASSUME NEW i \in DOMAIN futures, Finish(i) PROVE HeldBy(k)'
  <2>1. /\ k \in Cached /\ cache_' = cache_
        /\ pc' = pc /\ hand' = hand
    BY <1>6 DEF Finish, storeVars, Cached
  <2>2. cache_[k].future \in DOMAIN futures
    BY <2>1 DEF Inv, FutureInv, TypeOK
  <2>3. futures[cache_[k].future].result = Running
    <3>1. CASE cache_[k].future = i
      BY <1>6, <3>1 DEF Finish
    <3>2. CASE cache_[k].future # i
      BY <1>6, <2>1, <2>2, <3>2 DEF Finish
    <3> QED
      BY <3>1, <3>2
  <2> QED
    BY <1>4, <2>1, <2>3
<1>7. ASSUME NEW t \in Threads,
             \/ \E j \in Keys : Call(t, j)
             \/ LockShared(t) \/ Lookup(t) \/ GetFound(t) \/ LockUnique(t)
             \/ BeginSize(t) \/ EndSize(t)
      PROVE  HeldBy(k)'
  <2>1. /\ k \in Cached /\ cache_' = cache_ /\ futures' = futures
    BY <1>7 DEF Call, LockShared, Lookup, GetFound, LockUnique, BeginSize,
                EndSize, storeVars, Cached
  <2>2. \A u \in Threads : pc[u] \in {"stored", "own"} =>
          pc'[u] = pc[u] /\ hand'[u] = hand[u]
    BY <1>7 DEF Call, LockShared, Lookup, GetFound, LockUnique, BeginSize,
                EndSize, Goto, Inv, TypeOK
  <2> QED
    BY <1>4, <2>1, <2>2
<1>8. CASE Write \/ UNCHANGED vars
  BY <1>8, <1>4 DEF Write, vars, storeVars, Cached
<1> QED
  BY <1>1, <1>2, <1>3, <1>5, <1>6, <1>7, <1>8 DEF Next, FetchStep

\* While a query runs, the thread that started it holds its future, so no
\* thread waits for it under the unique lock.
THEOREM EraseNeverBlocks == Spec => []NoBlockingErase
<1>1. Init => NoBlockingErase
  BY DEF Init, NoBlockingErase, Cached
<1> QED
  BY <1>1, EraseStep, Invariance, PTL DEF Spec

-----------------------------------------------------------------------------
(* The entry that has just been placed.                                    *)

\* It is the one with the greatest counter until the lock is dropped.
PlacedInv ==
  \A t \in Threads :
    pc[t] = "stored" => key[t] \in Cached /\ cache_[key[t]].counter + 1 = counter_

LEMMA PlacedStep ==
  ASSUME Inv, PlacedInv, [Next]_vars
  PROVE  PlacedInv'
<1>1. ASSUME NEW t \in Threads, Store(t) PROVE PlacedInv'
  <2>1. /\ cache_' = [cache_ EXCEPT ![key[t]] = [future |-> hand[t], counter |-> counter_]]
        /\ counter_' = counter_ + 1 /\ key' = key
        /\ Cached' = Cached \cup {key[t]}
    BY <1>1, StoreStep DEF Store, callVars
  <2>2. \A u \in Threads : pc'[u] = "stored" => u = t
    BY <1>1, OneWriter DEF Store, Goto, Inv, TypeOK, Writing
  <2>3. key[t] \in Keys /\ cache_'[key[t]].counter = counter_
    <3>1. pc[t] = "locked" /\ key[t] \in Keys
      BY <1>1 DEF Store, Inv, FutureInv
    <3>2. cache_'[key[t]] = [future |-> hand[t], counter |-> counter_]
      BY <2>1, <3>1 DEF Inv, TypeOK
    <3>. QED BY <3>1, <3>2
  <2>. QED BY <2>1, <2>2, <2>3 DEF PlacedInv
<1>2. ASSUME NEW t \in Threads, Evict(t) PROVE PlacedInv'
  <2>1. \A u \in Threads : pc'[u] # "stored"
    BY <1>2, OneWriter DEF Evict, Goto, Inv, TypeOK, Writing
  <2>. QED BY <2>1 DEF PlacedInv
<1>3. ASSUME UNCHANGED storeVars,
             \A t \in Threads : pc'[t] = "stored" => pc[t] = "stored" /\ key'[t] = key[t]
      PROVE  PlacedInv'
  BY <1>3 DEF PlacedInv, storeVars, Cached
<1>4. ASSUME NEW t \in Threads,
             \/ \E k \in Keys : Call(t, k)
             \/ LockShared(t) \/ Lookup(t) \/ GetFound(t) \/ Launch(t)
             \/ LockUnique(t) \/ GetOwn(t) \/ BeginSize(t) \/ EndSize(t)
      PROVE  PlacedInv'
  BY <1>3, <1>4 DEF Call, LockShared, Lookup, GetFound, Launch, LockUnique, GetOwn, BeginSize, EndSize, Goto,
     callVars, Inv, TypeOK
<1>5. CASE Write \/ (\E i \in DOMAIN futures : Finish(i)) \/ UNCHANGED vars
  BY <1>3, <1>5 DEF Write, Finish, callVars, vars
<1>. QED BY <1>1, <1>2, <1>4, <1>5 DEF Next, FetchStep

\* The text a thread has just placed is in the map when it drops the lock,
\* whatever the eviction takes out.
THEOREM PlacedIsKept == Spec => JustPlacedStays
<1>1. Init => PlacedInv
  BY DEF Init, PlacedInv
<1>2. ASSUME Inv, OrderInv, PlacedInv, CapacityInv, [Next]_vars, NEW t \in Threads, pc[t] = "stored", pc'[t] = "own"
      PROVE  cache_'[key[t]] # Null
  <2>1. Evict(t)
    BY <1>2 DEF Next, FetchStep, Call, LockShared, Lookup, GetFound, Launch, LockUnique, Store, Evict, GetOwn,
       BeginSize, EndSize, Write, Finish, Goto, vars, Inv, TypeOK
  <2>2. key[t] \in Cached /\ cache_[key[t]] # Null
    BY <1>2 DEF PlacedInv, Cached
  <2>3. CASE cache_' = cache_
    BY <2>2, <2>3
  <2>4. ASSUME Cardinality(Cached) > max_size_, NEW k \in Cached,
               \A j \in Cached : cache_[k].counter <= cache_[j].counter,
               cache_' = [cache_ EXCEPT ![k] = Null]
        PROVE  k # key[t]
    <3> SUFFICES ASSUME k = key[t] PROVE FALSE
      OBVIOUS
    <3>1. PICK j \in Cached : j # k
      <4>1. Cached # {k}
        <5>1. Cardinality({k}) = 1
          BY FS_Singleton
        <5>. QED BY <5>1, <2>4, CacheAssumption
      <4>2. k \in Cached
        BY <2>4
      <4>. QED BY <4>1, <4>2
    <3>2. cache_[j].counter < cache_[k].counter
      <4>1. cache_[j].counter \in Nat /\ cache_[k].counter \in Nat /\ counter_ \in Nat
        BY <1>2 DEF Inv, TypeOK, Cached, Entries
      <4>2. cache_[j].counter < counter_ /\ cache_[j].counter # cache_[k].counter /\ cache_[k].counter + 1 = counter_
        BY <1>2, <3>1 DEF OrderInv, PlacedInv
      <4>. QED BY <4>1, <4>2
    <3>3. cache_[j].counter \in Nat /\ cache_[k].counter \in Nat
      BY <1>2 DEF Inv, TypeOK, Cached, Entries
    <3>. QED BY <2>4, <3>2, <3>3
  <2>. QED BY <1>2, <2>1, <2>2, <2>3, <2>4 DEF Evict, Inv, TypeOK, Cached
<1>3. Inv /\ OrderInv /\ PlacedInv /\ CapacityInv /\ [Next]_vars =>
        [\A t \in Threads : pc[t] = "stored" /\ pc'[t] = "own" => cache_'[key[t]] # Null]_vars
  BY <1>2
<1>4. Init => CapacityInv
  <2>1. Init => Cached = {}
    BY DEF Init, Cached
  <2>. QED BY <2>1, FS_EmptySet, CacheAssumption DEF CapacityInv
<1>. QED BY <1>1, <1>3, <1>4, PlacedStep, CapacityStep, OrderInvariance, Invariance, PTL DEF Spec, JustPlacedStays

-----------------------------------------------------------------------------
(* The time of an answer, and stampedes.                                   *)

\* A thread at these places has started a query of its own in this call.
Launched == {"store", "locked", "stored", "own"}

\* A result that the database gave after the call of t.
Since(t, r) == r.status = "value" => r.value >= began[t]

\* An answer older than the call is one that was found.
FreshInv ==
  /\ \A t \in Threads : began[t] <= version
  /\ \A t \in Threads : pc[t] \in Launched => Since(t, futures[hand[t]].result)
  /\ \A t \in Threads : pc[t] \notin {"idle", "size"} => returned[t] = Running
  /\ \A t \in Threads : pc[t] = "found" => ~missed[t]
  /\ \A t \in Threads : pc[t] \in {"idle", "size"} /\ missed[t] => Since(t, returned[t])

\* A text that was there all along was found, so whoever starts a query for it
\* holds a future that has failed.
CoverInv ==
  /\ \A t \in Threads : covered[t] => key[t] \in Keys /\ Good(key[t])
  /\ \A t \in Threads : pc[t] = "launch" /\ covered[t] => hand[t] # 0 /\ futures[hand[t]].result = Failed
  /\ covered \in [Threads -> BOOLEAN] /\ missed \in [Threads -> BOOLEAN]

-----------------------------------------------------------------------------
(* Who moves in a step, and how.                                           *)

\* The thread t makes no step, nor loses anything it keeps.
Still(t) ==
  /\ pc'[t] = pc[t] /\ hand'[t] = hand[t] /\ key'[t] = key[t]
  /\ began'[t] = began[t] /\ returned'[t] = returned[t]

\* A step of t inside a call: the call keeps its text and its beginning.
Inside(t) == key'[t] = key[t] /\ began'[t] = began[t]

Moved(t) ==
  \/ pc[t] = "idle" /\ pc'[t] = "call" /\ began'[t] = version /\ returned'[t] = Running
  \/ pc[t] = "call" /\ pc'[t] = "lookup" /\ Inside(t) /\ returned'[t] = returned[t]
  \/ /\ Lookup(t) /\ Inside(t) /\ returned'[t] = returned[t] /\ pc[t] = "lookup"
     /\ \/ pc'[t] = "found" /\ key[t] \in Cached
        \/ pc'[t] = "launch" /\ key[t] \notin Cached
  \/ GetFound(t) /\ Inside(t) /\ pc[t] = "found" /\ pc'[t] = "idle"
  \/ /\ GetFound(t) /\ Inside(t) /\ pc[t] = "found" /\ pc'[t] = "launch" /\ returned'[t] = returned[t]
     /\ futures[hand[t]].result.status = "error" /\ hand'[t] = hand[t] /\ futures' = futures
  \/ Launch(t) /\ Inside(t) /\ pc[t] = "launch" /\ pc'[t] = "store" /\ returned'[t] = returned[t]
  \/ /\ pc[t] \in Launched \ {"own"} /\ pc'[t] \in Launched \ {"store"}
     /\ Inside(t) /\ hand'[t] = hand[t] /\ returned'[t] = returned[t]
  \/ /\ pc[t] = "own" /\ pc'[t] = "idle" /\ Inside(t)
     /\ returned'[t] = futures[hand[t]].result
  \/ /\ {pc[t], pc'[t]} = {"idle", "size"} /\ Inside(t) /\ returned'[t] = returned[t]

LEMMA Moving ==
  ASSUME TypeOK, [Next]_vars, NEW t \in Threads
  PROVE  Still(t) \/ Moved(t)
<1>. USE DEF Still, Moved, Inside, Launched, TypeOK
<1>1. ASSUME NEW u \in Threads, NEW k \in Keys, Call(u, k) PROVE Still(t) \/ Moved(t)
  BY <1>1 DEF Call, Goto
<1>2. ASSUME NEW u \in Threads, LockShared(u) PROVE Still(t) \/ Moved(t)
  BY <1>2 DEF LockShared, Goto, callVars
<1>3. ASSUME NEW u \in Threads, Lookup(u) PROVE Still(t) \/ Moved(t)
  BY <1>3 DEF Lookup, Goto, callVars
<1>4. ASSUME NEW u \in Threads, GetFound(u) PROVE Still(t) \/ Moved(t)
  BY <1>4 DEF GetFound, Goto, callVars
<1>5. ASSUME NEW u \in Threads, Launch(u) PROVE Still(t) \/ Moved(t)
  BY <1>5 DEF Launch, Goto, callVars
<1>6. ASSUME NEW u \in Threads, LockUnique(u) \/ Store(u) \/ Evict(u) PROVE Still(t) \/ Moved(t)
  BY <1>6 DEF LockUnique, Store, Evict, Goto, callVars
<1>7. ASSUME NEW u \in Threads, GetOwn(u) PROVE Still(t) \/ Moved(t)
  BY <1>7 DEF GetOwn, Goto, callVars
<1>8. ASSUME NEW u \in Threads, BeginSize(u) \/ EndSize(u) PROVE Still(t) \/ Moved(t)
  BY <1>8 DEF BeginSize, EndSize, Goto, callVars
<1>9. CASE (\E i \in DOMAIN futures : Finish(i)) \/ Write \/ UNCHANGED vars
  BY <1>9 DEF Finish, Write, vars, callVars
<1>. QED BY <1>1, <1>2, <1>3, <1>4, <1>5, <1>6, <1>7, <1>8, <1>9 DEF Next, FetchStep

\* The database only moves on.
LEMMA VersionGrows ==
  ASSUME TypeOK, [Next]_vars
  PROVE  version' \in Nat /\ version \in Nat /\ version <= version'
<1>1. version \in Nat
  BY CacheAssumption DEF TypeOK
<1>2. version' = version \/ version' = version + 1
  BY DEF Next, FetchStep, Call, LockShared, Lookup, GetFound, Launch, LockUnique, Store, Evict, GetOwn, BeginSize,
     EndSize, Finish, Write, vars
<1>. QED BY <1>1, <1>2

\* A future that was started keeps its text, and its result once it has one.
LEMMA FuturesStay ==
  ASSUME Inv, Inv', [Next]_vars, NEW i \in 1 .. Len(futures)
  PROVE  \/ futures'[i].result = futures[i].result
         \/ futures[i].result = Running /\ futures'[i].result \in {Value(version), Failed}
<1>1. ASSUME NEW t \in Threads, Launch(t) PROVE futures'[i] = futures[i]
  <2> DEFINE f == [key |-> key[t], result |-> Running]
  <2>1. futures' = Append(futures, f) /\ futures \in Seq([key : Keys, result : Results])
    BY <1>1 DEF Launch, Inv, TypeOK
  <2>. HIDE DEF f
  <2>. QED BY <2>1
<1>2. ASSUME NEW j \in DOMAIN futures, Finish(j)
      PROVE  \/ futures'[i] = futures[i]
             \/ futures[i].result = Running /\ futures'[i].result \in {Value(version), Failed}
  <2>1. PICK r \in {Value(version), Failed} : futures' = [futures EXCEPT ![j] = [key |-> @.key, result |-> r]]
    BY <1>2 DEF Finish
  <2>2. futures[j].result = Running
    BY <1>2 DEF Finish
  <2>3. i \in DOMAIN futures
    BY DEF Inv, TypeOK
  <2>. QED BY <2>1, <2>2, <2>3
<1>3. ASSUME UNCHANGED futures PROVE futures'[i] = futures[i]
  BY <1>3
<1>. QED BY <1>1, <1>2, <1>3
     DEF Next, FetchStep, Call, LockShared, Lookup, GetFound, LockUnique, Store, Evict, GetOwn, BeginSize, EndSize,
         Write, vars

LEMMA ValueFields ==
  /\ \A v : Value(v).status = "value" /\ Value(v).value = v
  /\ Running.status = "running" /\ Failed.status = "error"
  /\ \A r \in Results : /\ r.status = "value" => r.value \in 0 .. MaxVersion
                        /\ r.status = "error" => r = Failed
                        /\ r.status = "running" => r = Running
BY DEF Value, Running, Failed, Results

\* What a call has started stays fresh, whoever else steps.
LEMMA FreshFuture ==
  ASSUME Inv, Inv', FreshInv, [Next]_vars, NEW t \in Threads,
         pc[t] \in Launched, hand'[t] = hand[t], began'[t] = began[t]
  PROVE  Since(t, futures[hand[t]].result)'
<1>1. hand[t] \in 1 .. Len(futures)
  BY DEF Launched, Inv, FutureInv, Holding
<1>2. began[t] <= version /\ began[t] \in Nat /\ version \in Nat
  BY CacheAssumption DEF FreshInv, Inv, TypeOK
<1>. QED BY <1>1, <1>2, FuturesStay, ValueFields DEF FreshInv, Since

LEMMA FreshStep ==
  ASSUME Inv, Inv', FreshInv, CoverInv, [Next /\ Observe]_obsVars
  PROVE  FreshInv'
<1>0. [Next]_vars
  BY DEF obsVars
<1>1. ASSUME NEW t \in Threads PROVE began'[t] <= version'
  <2>1. began'[t] = began[t] \/ began'[t] = version
    BY <1>0, Moving DEF Inv, Still, Moved, Inside
  <2>2. began[t] <= version /\ began[t] \in Nat
    BY DEF FreshInv, Inv, TypeOK
  <2>. QED BY <1>0, <2>1, <2>2, VersionGrows DEF Inv
<1>2. ASSUME NEW t \in Threads, pc'[t] \in Launched PROVE Since(t, futures[hand[t]].result)'
  <2>1. CASE Launch(t)
    <3> DEFINE f == [key |-> key[t], result |-> Running]
    <3>1. futures' = Append(futures, f) /\ futures \in Seq([key : Keys, result : Results]) /\ hand'[t] = Len(futures) + 1
      BY <2>1 DEF Launch, Inv, TypeOK
    <3>2. f.result = Running
      OBVIOUS
    <3>. HIDE DEF f
    <3>3. futures'[hand'[t]] = f
      BY <3>1
    <3>. QED BY <3>2, <3>3, ValueFields DEF Since
  <2>2. CASE pc[t] \in Launched /\ hand'[t] = hand[t] /\ began'[t] = began[t]
    BY <1>0, <2>2, FreshFuture
  <2>3. Launch(t) \/ (pc[t] \in Launched /\ hand'[t] = hand[t] /\ began'[t] = began[t])
    BY <1>0, <1>2, Moving DEF Inv, Still, Moved, Inside, Launched
  <2>. QED BY <2>1, <2>2, <2>3
<1>3. ASSUME NEW t \in Threads, pc'[t] \notin {"idle", "size"} PROVE returned'[t] = Running
  BY <1>0, <1>3, Moving DEF FreshInv, Inv, Still, Moved, Inside, Launched
<1>4. ASSUME NEW t \in Threads, pc'[t] = "found" PROVE ~missed'[t]
  <2>1. CASE pc[t] = "found" /\ missed'[t] = missed[t]
    BY <2>1 DEF FreshInv
  <2>2. CASE Lookup(t) /\ Observe
    BY <1>4, <2>2 DEF Lookup, Observe, LookedUp, Inv, TypeOK, Goto
  <2>3. pc[t] = "found" \/ Lookup(t)
    BY <1>0, <1>4, Moving DEF Inv, Still, Moved, Launched
  <2>4. UNCHANGED obsVars \/ Observe
    OBVIOUS
  <2>5. Lookup(t) => pc[t] = "lookup"
    BY DEF Lookup
  <2>. QED BY <1>4, <2>1, <2>2, <2>3, <2>4, <2>5 DEF Observe, LookedUp, obsVars, vars
<1>5. ASSUME NEW t \in Threads, pc'[t] \in {"idle", "size"}, missed'[t] PROVE Since(t, returned[t])'
  <2>1. missed[t] = missed'[t] /\ began'[t] = began[t]
    <3>1. pc[t] # "lookup" /\ began'[t] = began[t]
      BY <1>0, <1>5, Moving DEF Inv, Still, Moved, Inside, Launched
    <3>. QED BY <3>1 DEF Observe, LookedUp, obsVars
  <2>2. CASE pc[t] \in {"idle", "size"} /\ returned'[t] = returned[t]
    BY <1>5, <2>1, <2>2 DEF FreshInv, Since
  <2>3. CASE pc[t] = "own" /\ returned'[t] = futures[hand[t]].result
    BY <2>1, <2>3 DEF FreshInv, Since, Launched
  <2>4. CASE pc[t] = "found"
    BY <1>5, <2>1, <2>4 DEF FreshInv
  <2>5. \/ pc[t] \in {"idle", "size"} /\ returned'[t] = returned[t]
        \/ pc[t] = "own" /\ returned'[t] = futures[hand[t]].result
        \/ pc[t] = "found"
    BY <1>0, <1>5, Moving DEF Inv, Still, Moved, Launched
  <2>. QED BY <2>2, <2>3, <2>4, <2>5
<1>. QED BY <1>1, <1>2, <1>3, <1>4, <1>5 DEF FreshInv

LEMMA CoverStep ==
  ASSUME Inv, Inv', CoverInv, [Next /\ Observe]_obsVars
  PROVE  CoverInv'
<1>0. [Next]_vars
  BY DEF obsVars
<1>1. CASE UNCHANGED obsVars
  BY <1>1 DEF obsVars, vars, storeVars, callVars, CoverInv, Good, Cached
<1>2. CASE Observe
  <2>1. covered' \in [Threads -> BOOLEAN] /\ missed' \in [Threads -> BOOLEAN]
    <3>1. \A t \in Threads : ((Called(t) \/ covered[t]) /\ key'[t] \in Keys /\ Good(key[t])') \in BOOLEAN
      BY DEF CoverInv
    <3>. QED BY <1>2, <3>1 DEF Observe, CoverInv
  <2>2. ASSUME NEW t \in Threads, covered'[t] PROVE key'[t] \in Keys /\ Good(key[t])'
    BY <1>2, <2>2 DEF Observe
  <2>3. ASSUME NEW t \in Threads, pc'[t] = "launch", covered'[t]
        PROVE  hand'[t] # 0 /\ futures'[hand'[t]].result = Failed
    <3>1. covered[t] /\ pc[t] # "idle"
      <4>1. pc[t] # "idle"
        BY <1>0, <2>3, Moving DEF Inv, Still, Moved, Launched
      <4>. QED BY <1>2, <2>3, <4>1 DEF Observe, Called
    <3>2. CASE pc[t] = "launch" /\ hand'[t] = hand[t]
      <4>1. hand[t] \in 1 .. Len(futures) /\ futures[hand[t]].result = Failed
        BY <3>1, <3>2 DEF CoverInv, Inv, FutureInv
      <4>. QED BY <1>0, <3>2, <4>1, FuturesStay, ValueFields
    <3>3. CASE /\ pc[t] = "found" /\ futures[hand[t]].result.status = "error"
               /\ hand'[t] = hand[t] /\ futures' = futures
      <4>1. futures' = futures /\ hand'[t] = hand[t] /\ pc[t] = "found" /\ futures[hand[t]].result.status = "error"
        BY <3>3
      <4>2. hand[t] \in 1 .. Len(futures) /\ hand[t] # 0
        BY <4>1 DEF Inv, FutureInv, Holding
      <4>3. futures[hand[t]].result \in Results
        BY <4>2, FutureType DEF Inv
      <4>. QED BY <4>1, <4>2, <4>3, ValueFields
    <3>4. CASE key[t] \notin Cached
      BY <3>1, <3>4 DEF CoverInv, Good
    <3>5. \/ pc[t] = "launch" /\ hand'[t] = hand[t]
          \/ /\ pc[t] = "found" /\ futures[hand[t]].result.status = "error"
             /\ hand'[t] = hand[t] /\ futures' = futures
          \/ key[t] \notin Cached
      BY <1>0, <2>3, Moving DEF Inv, Still, Moved, Launched
    <3>. QED BY <3>2, <3>3, <3>4, <3>5
  <2>. QED BY <2>1, <2>2, <2>3 DEF CoverInv
<1>. QED BY <1>1, <1>2

LEMMA ObsInvariance == ObsSpec => [](Inv /\ CoverInv /\ FreshInv)
<1>1. ObsInit => Inv /\ CoverInv /\ FreshInv
  <2>1. ObsInit => Inv
    BY InitInv DEF ObsInit
  <2>2. ObsInit => CoverInv
    BY DEF ObsInit, Init, CoverInv
  <2>3. ObsInit => FreshInv
    BY ValueFields DEF ObsInit, Init, FreshInv, Launched, Since
  <2>. QED BY <2>1, <2>2, <2>3
<1>2. Inv /\ [Next /\ Observe]_obsVars => Inv'
  BY InvStep DEF obsVars
<1>3. (Inv /\ CoverInv /\ FreshInv) /\ [Next /\ Observe]_obsVars => (Inv /\ CoverInv /\ FreshInv)'
  BY <1>2, CoverStep, FreshStep
<1>. QED BY <1>1, <1>3, PTL DEF ObsSpec

-----------------------------------------------------------------------------
\* A fetch() that found nothing returns what the database held at the call or
\* later: only a text that was found can be answered with something older.
THEOREM MissesAreFresh == ObsSpec => []FreshOnMiss
<1>1. Inv /\ CoverInv /\ FreshInv => FreshOnMiss
  BY DEF FreshInv, FreshOnMiss, Since
<1>. QED BY <1>1, ObsInvariance, PTL

\* A fetch() of a text that was in the map all along, never with a failed
\* future, starts a query only if the future it was given has failed.
THEOREM StampedesArePrevented == ObsSpec => NoStampede
<1>1. Inv /\ CoverInv /\ FreshInv /\ [Next /\ Observe]_obsVars =>
        [\A t \in Threads : pc[t] = "launch" /\ pc'[t] = "store" /\ covered[t] =>
           hand[t] # 0 /\ futures[hand[t]].result = Failed]_obsVars
  BY DEF CoverInv
<1>. QED BY <1>1, ObsInvariance, PTL DEF ObsSpec, NoStampede

=============================================================================
