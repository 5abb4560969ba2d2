-------------------------------- MODULE Cache --------------------------------
(***************************************************************************)
(* include/sqlgen/cache.hpp: CacheImpl::fetch.  A static map from the SQL  *)
(* text of a query to (shared_future, counter), behind a shared_mutex.     *)
(* fetch() looks the text up under the shared lock; on a miss, or when the *)
(* future it found holds an error, it starts the query on a thread of its  *)
(* own, places the future in the map under the unique lock, evicts, and    *)
(* waits.  Values are told apart by the version of the database they were  *)
(* read from.                                                              *)
(***************************************************************************)
EXTENDS Naturals, Sequences, FiniteSets

CONSTANTS
  Threads,
  Keys,        \* the SQL texts
  max_size_,   \* the capacity; _max_size = 0 is a capacity nothing reaches
  MayFail,     \* whether a query may end in an error
  Null,        \* no entry in the map, no thread, no text
  MaxCalls,    \* bound: calls of fetch() in a behaviour
  MaxVersion   \* bound: changes to the database

ASSUME CacheAssumption ==
  /\ max_size_ \in Nat \ {0}
  /\ MayFail \in BOOLEAN
  /\ MaxCalls \in Nat
  /\ MaxVersion \in Nat

VARIABLES
  cache_,    \* cache_[k]: Null, or the index of a future and its counter
  counter_,
  readers,   \* mtx_: the threads that hold it shared
  writer,    \* mtx_: the thread that holds it alone, or Null
  futures,   \* every std::async so far: its key, status and value
  pc,
  key,       \* sql: the text each thread asks for
  hand,      \* the future each thread has in its hands, 0 for none
  began,     \* the version of the database when fetch() was called
  returned,  \* what the last fetch() of each thread returned
  version,   \* the database: bumped by a write from anywhere
  calls

lockVars   == <<readers, writer>>
storeVars  == <<cache_, counter_>>
callVars   == <<key, began, calls>>
vars == <<storeVars, lockVars, futures, pc, hand, returned, version, callVars>>

Phases == {"idle", "call", "lookup", "found", "launch", "store", "locked", "stored",
           "own", "size"}
Entries == [future : Nat \ {0}, counter : Nat]
ASSUME NullAssumption == Null \notin Threads \cup Keys \cup Entries

Running == [status |-> "running", value |-> 0]
Failed  == [status |-> "error", value |-> 0]
Value(v) == [status |-> "value", value |-> v]
Results == {Running, Failed} \cup {Value(v) : v \in 0 .. MaxVersion}

Cached == {k \in Keys : cache_[k] # Null}

Goto(t, p) == pc' = [pc EXCEPT ![t] = p]

Init ==
  /\ cache_ = [k \in Keys |-> Null]
  /\ counter_ = 0
  /\ readers = {}
  /\ writer = Null
  /\ futures = <<>>
  /\ pc = [t \in Threads |-> "idle"]
  /\ key = [t \in Threads |-> Null]
  /\ hand = [t \in Threads |-> 0]
  /\ began = [t \in Threads |-> 0]
  /\ returned = [t \in Threads |-> Running]
  /\ version = 0
  /\ calls = 0

-----------------------------------------------------------------------------
(* fetch() *)

Call(t, k) ==
  /\ pc[t] = "idle"
  /\ calls < MaxCalls
  /\ calls' = calls + 1
  /\ key' = [key EXCEPT ![t] = k]
  /\ began' = [began EXCEPT ![t] = version]
  /\ hand' = [hand EXCEPT ![t] = 0]
  /\ returned' = [returned EXCEPT ![t] = Running]
  /\ Goto(t, "call")
  /\ UNCHANGED <<storeVars, lockVars, futures, version>>

\* try_read_from_cache: std::shared_lock
LockShared(t) ==
  /\ pc[t] = "call"
  /\ writer = Null
  /\ readers' = readers \cup {t}
  /\ Goto(t, "lookup")
  /\ UNCHANGED <<storeVars, writer, futures, hand, returned, version, callVars>>

\* Mutant: the result of find is ignored while the query is running.
LookupReadyOnly(t) ==
  /\ pc[t] = "lookup"
  /\ readers' = readers \ {t}
  /\ \/ /\ key[t] \in Cached
        /\ futures[cache_[key[t]].future].result # Running
        /\ hand' = [hand EXCEPT ![t] = cache_[key[t]].future]
        /\ Goto(t, "found")
     \/ /\ key[t] \in Cached => futures[cache_[key[t]].future].result = Running
        /\ Goto(t, "launch")
        /\ UNCHANGED hand
  /\ UNCHANGED <<storeVars, writer, futures, returned, version, callVars>>

\* try_read_from_cache: find, and drop the shared lock.
Lookup(t) ==
  /\ pc[t] = "lookup"
  /\ readers' = readers \ {t}
  /\ \/ /\ key[t] \in Cached
        /\ hand' = [hand EXCEPT ![t] = cache_[key[t]].future]
        /\ Goto(t, "found")
     \/ /\ key[t] \notin Cached
        /\ Goto(t, "launch")
        /\ UNCHANGED hand
  /\ UNCHANGED <<storeVars, writer, futures, returned, version, callVars>>

\* _future.get() of the future that was found.  A value is returned; with an
\* error, or_else runs the query again.
GetFound(t) ==
  /\ pc[t] = "found"
  /\ LET f == futures[hand[t]].result IN
       \/ /\ f.status = "value"
          /\ returned' = [returned EXCEPT ![t] = f]
          /\ Goto(t, "idle")
       \/ /\ f.status = "error"
          /\ Goto(t, "launch")
          /\ UNCHANGED returned
  /\ UNCHANGED <<storeVars, lockVars, futures, hand, version, callVars>>

\* Mutant: the index of the future is taken before it is appended.
LaunchIndexBefore(t) ==
  /\ pc[t] = "launch"
  /\ futures' = Append(futures, [key |-> key[t], result |-> Running])
  /\ hand' = [hand EXCEPT ![t] = Len(futures)]
  /\ Goto(t, "store")
  /\ UNCHANGED <<storeVars, lockVars, returned, version, callVars>>

\* std::async(std::launch::async, ...)
Launch(t) ==
  /\ pc[t] = "launch"
  /\ futures' = Append(futures, [key |-> key[t], result |-> Running])
  /\ hand' = [hand EXCEPT ![t] = Len(futures) + 1]
  /\ Goto(t, "store")
  /\ UNCHANGED <<storeVars, lockVars, returned, version, callVars>>

\* The query of a started future runs to its end.
Finish(i) ==
  /\ futures[i].result = Running
  /\ \E r \in {Value(version)} \cup (IF MayFail THEN {Failed} ELSE {}) :
       futures' = [futures EXCEPT ![i] = [key |-> @.key, result |-> r]]
  /\ UNCHANGED <<storeVars, lockVars, pc, hand, returned, version, callVars>>

\* write_to_cache: std::unique_lock
LockUnique(t) ==
  /\ pc[t] = "store"
  /\ writer = Null
  /\ readers = {}
  /\ writer' = t
  /\ Goto(t, "locked")
  /\ UNCHANGED <<storeVars, readers, futures, hand, returned, version,
                 callVars>>

\* Mutant: counter_ without ++.
StoreSameCounter(t) ==
  /\ pc[t] = "locked"
  /\ cache_' = [cache_ EXCEPT ![key[t]] =
                  [future |-> hand[t], counter |-> counter_]]
  /\ Goto(t, "stored")
  /\ UNCHANGED <<counter_, lockVars, futures, hand, returned, version, callVars>>

\* Mutant: the future of whoever launched last is placed.
StoreNewest(t) ==
  /\ pc[t] = "locked"
  /\ cache_' = [cache_ EXCEPT ![key[t]] =
                  [future |-> Len(futures), counter |-> counter_]]
  /\ counter_' = counter_ + 1
  /\ Goto(t, "stored")
  /\ UNCHANGED <<lockVars, futures, hand, returned, version, callVars>>

\* cache_[sql] = std::make_pair(_future, counter_++)
Store(t) ==
  /\ pc[t] = "locked"
  /\ cache_' = [cache_ EXCEPT ![key[t]] =
                  [future |-> hand[t], counter |-> counter_]]
  /\ counter_' = counter_ + 1
  /\ Goto(t, "stored")
  /\ UNCHANGED <<lockVars, futures, hand, returned, version, callVars>>

\* Mutant: one entry too many is kept.
EvictLate(t) ==
  /\ pc[t] = "stored"
  /\ \/ /\ Cardinality(Cached) > max_size_ + 1
        /\ \E k \in Cached :
             /\ \A j \in Cached : cache_[k].counter <= cache_[j].counter
             /\ cache_' = [cache_ EXCEPT ![k] = Null]
     \/ /\ Cardinality(Cached) <= max_size_ + 1
        /\ UNCHANGED cache_
  /\ writer' = Null
  /\ Goto(t, "own")
  /\ UNCHANGED <<counter_, readers, futures, hand, returned, version, callVars>>

\* Mutant: max_element for min_element.
EvictNewest(t) ==
  /\ pc[t] = "stored"
  /\ \/ /\ Cardinality(Cached) > max_size_
        /\ \E k \in Cached :
             /\ \A j \in Cached : cache_[k].counter >= cache_[j].counter
             /\ cache_' = [cache_ EXCEPT ![k] = Null]
     \/ /\ Cardinality(Cached) <= max_size_
        /\ UNCHANGED cache_
  /\ writer' = Null
  /\ Goto(t, "own")
  /\ UNCHANGED <<counter_, readers, futures, hand, returned, version, callVars>>

\* Mutant: the lock is not dropped when nothing is erased.
EvictKeepsLock(t) ==
  /\ pc[t] = "stored"
  /\ \/ /\ Cardinality(Cached) > max_size_
        /\ \E k \in Cached :
             /\ \A j \in Cached : cache_[k].counter <= cache_[j].counter
             /\ cache_' = [cache_ EXCEPT ![k] = Null]
        /\ writer' = Null
     \/ /\ Cardinality(Cached) <= max_size_
        /\ UNCHANGED <<cache_, writer>>
  /\ Goto(t, "own")
  /\ UNCHANGED <<counter_, readers, futures, hand, returned, version, callVars>>

\* if (cache_.size() > max_size_) erase the entry with the least counter;
\* the lock is dropped on the way out.
Evict(t) ==
  /\ pc[t] = "stored"
  /\ \/ /\ Cardinality(Cached) > max_size_
        /\ \E k \in Cached :
             /\ \A j \in Cached : cache_[k].counter <= cache_[j].counter
             /\ cache_' = [cache_ EXCEPT ![k] = Null]
     \/ /\ Cardinality(Cached) <= max_size_
        /\ UNCHANGED cache_
  /\ writer' = Null
  /\ Goto(t, "own")
  /\ UNCHANGED <<counter_, readers, futures, hand, returned, version, callVars>>

\* Mutant: the future is returned without waiting for it.
GetOwnAtOnce(t) ==
  /\ pc[t] = "own"
  /\ returned' = [returned EXCEPT ![t] = futures[hand[t]].result]
  /\ Goto(t, "idle")
  /\ UNCHANGED <<storeVars, lockVars, futures, hand, version, callVars>>

\* Mutant: the answer is read back from the map.
GetOwnFromCache(t) ==
  /\ pc[t] = "own"
  /\ LET i == IF key[t] \in Cached THEN cache_[key[t]].future ELSE hand[t] IN
       /\ futures[i].result # Running
       /\ returned' = [returned EXCEPT ![t] = futures[i].result]
  /\ Goto(t, "idle")
  /\ UNCHANGED <<storeVars, lockVars, futures, hand, version, callVars>>

\* return future.get();
GetOwn(t) ==
  /\ pc[t] = "own"
  /\ futures[hand[t]].result # Running
  /\ returned' = [returned EXCEPT ![t] = futures[hand[t]].result]
  /\ Goto(t, "idle")
  /\ UNCHANGED <<storeVars, lockVars, futures, hand, version, callVars>>

(* cache(conn).size(): a reference to cache_ is handed out, and no lock. *)
BeginSize(t) ==
  /\ pc[t] = "idle"
  /\ Goto(t, "size")
  /\ UNCHANGED <<storeVars, lockVars, futures, hand, returned, version,
                 callVars>>

EndSize(t) ==
  /\ pc[t] = "size"
  /\ Goto(t, "idle")
  /\ UNCHANGED <<storeVars, lockVars, futures, hand, returned, version,
                 callVars>>

(* The database changes; nothing tells the cache. *)
Write ==
  /\ version < MaxVersion
  /\ version' = version + 1
  /\ UNCHANGED <<storeVars, lockVars, futures, pc, hand, returned, callVars>>

FetchStep(t) ==
  \/ LockShared(t) \/ Lookup(t) \/ GetFound(t) \/ Launch(t)
  \/ LockUnique(t) \/ Store(t) \/ Evict(t) \/ GetOwn(t)

Next ==
  \/ \E t \in Threads :
       \/ \E k \in Keys : Call(t, k)
       \/ FetchStep(t)
       \/ BeginSize(t) \/ EndSize(t)
  \/ \E i \in DOMAIN futures : Finish(i)
  \/ Write

Spec == Init /\ [][Next]_vars

\* Threads are scheduled and queries end.  The shared_mutex need not be fair:
\* only the calls are finitely many.
Fairness ==
  /\ \A t \in Threads : WF_vars(FetchStep(t))
  /\ \A i \in 1 .. MaxCalls : WF_vars(i \in DOMAIN futures /\ Finish(i))

FairSpec == Spec /\ Fairness

-----------------------------------------------------------------------------
TypeOK ==
  /\ cache_ \in [Keys -> Entries \cup {Null}]
  /\ counter_ \in Nat
  /\ readers \subseteq Threads
  /\ writer \in Threads \cup {Null}
  /\ futures \in Seq([key : Keys, result : Results])
  /\ pc \in [Threads -> Phases]
  /\ key \in [Threads -> Keys \cup {Null}]
  /\ hand \in [Threads -> Nat]
  /\ began \in [Threads -> 0 .. MaxVersion]
  /\ returned \in [Threads -> Results]
  /\ version \in 0 .. MaxVersion
  /\ calls \in 0 .. MaxCalls

\* "The maximum size of the cache can be configured": whoever may look, that
\* is, whenever nobody holds the unique lock, the map is within its capacity.
SizeBounded == writer = Null => Cardinality(Cached) <= max_size_

\* "When the cache reaches its maximum size, the oldest entry is removed":
\* an entry leaves only while every other one was placed after it.
FifoEviction ==
  [][\A j, k \in Cached :
       j # k /\ cache_'[j] = Null => cache_[j].counter < cache_[k].counter]_vars

\* The entry a thread has just placed is not the one it evicts: the result of
\* an evicted query is that of another, older one.
JustPlacedStays ==
  [][\A t \in Threads :
       pc[t] = "stored" /\ pc'[t] = "own" => cache_'[key[t]] # Null]_vars

\* Whatever threads overwrite and evict meanwhile, a text leads to a future of
\* that very text, in the map and in a thread's hands.
FutureMatchesKey ==
  /\ \A k \in Cached : futures[cache_[k].future].key = k
  /\ \A t \in Threads : hand[t] # 0 => futures[hand[t]].key = key[t]

\* Erasing or overwriting an entry under the unique lock never waits for a
\* query: while it runs, the thread that started it holds the future as well,
\* so the reference that is dropped is not the last (the destructor of the
\* last reference to a std::async future blocks until the task ends).
NoBlockingErase ==
  \A k \in Cached :
    futures[cache_[k].future].result = Running =>
      \E t \in Threads :
        hand[t] = cache_[k].future /\ pc[t] \in {"stored", "own"}

\* Every fetch() returns, also when the future it waits for fails.
FetchReturns == \A t \in Threads : pc[t] = "call" ~> pc[t] = "idle"

=============================================================================
