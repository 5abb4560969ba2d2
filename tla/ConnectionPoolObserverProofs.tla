-------------------- MODULE ConnectionPoolObserverProofs --------------------
(***************************************************************************)
(* What the unlocked scans of ConnectionPool tell, for any number of       *)
(* threads, sessions and connections and whatever the others do meanwhile. *)
(***************************************************************************)
EXTENDS ConnectionPoolObserver, ConnectionPoolProofs, FiniteSetTheorems

\* The places a scan has passed.
Passed(t) == 1 .. idx[t] - 1

\* What the observer has seen brackets what is free now.
SightInv ==
  /\ allAlong \in [Threads -> SUBSET Conns]
  /\ atTimes \in [Threads -> SUBSET Conns]
  /\ \A t \in Threads : Scanning(t) => allAlong[t] \subseteq Free /\ Free \subseteq atTimes[t]

\* acquire() has passed nothing that stayed free, available() has counted what
\* stayed free among the places it has passed, and nothing that never was.
ProgressInv ==
  /\ \A t \in Threads : pc[t] = "scan" => allAlong[t] \cap Passed(t) = {}
  /\ \A t \in Threads : pc[t] = "count" =>
       /\ Cardinality(allAlong[t] \cap Passed(t)) <= count[t]
       /\ count[t] <= Cardinality(atTimes[t] \cap Passed(t))

\* The scans are counted by att, which acquire() counts up before it sleeps.
AttemptInv ==
  /\ scans \in [Threads -> Nat]
  /\ \A t \in Threads :
       /\ pc[t] = "scan" => scans[t] = att[t] + 1
       /\ pc[t] = "sleep" => scans[t] = att[t]
       /\ pc[t] \in {"scan", "sleep"} => result[t] # Error
       /\ result[t] = Error => scans[t] >= config_.num_attempts

ObsInv == TypeOK /\ SightInv /\ ProgressInv /\ AttemptInv

LEMMA ObsInitInv == ObsInit => ObsInv
<1> SUFFICES ASSUME ObsInit PROVE ObsInv
  OBVIOUS
<1>1. TypeOK
  BY ConfigFacts DEF ObsInit, Init, TypeOK, Phases, Results
<1>2. Error # NoResult
  BY DEF Error, NoResult
<1>. QED BY <1>1, <1>2, ConfigFacts
     DEF ObsInit, Init, ObsInv, SightInv, ProgressInv, AttemptInv, Scanning, Free

-----------------------------------------------------------------------------
\* The observer itself.

LEMMA SightStep ==
  ASSUME TypeOK, TypeOK', SightInv, Observe
  PROVE  SightInv'
BY DEF SightInv, Observe, Begins, Scanning, Free, TypeOK

LEMMA FiniteSights ==
  ASSUME SightInv, NEW t \in Threads, NEW S
  PROVE  IsFiniteSet(allAlong[t] \cap S) /\ IsFiniteSet(atTimes[t] \cap S)
<1>1. IsFiniteSet(Conns)
  BY ConfigFacts, FS_Interval DEF Conns
<1>2. allAlong[t] \cap S \subseteq Conns /\ atTimes[t] \cap S \subseteq Conns
  BY DEF SightInv
<1>. QED BY <1>1, <1>2, FS_Subset

\* Where a thread neither counts on nor begins, what it has counted remains
\* between the two bounds: the first only falls, the second only rises.
LEMMA CountStands ==
  ASSUME TypeOK, SightInv, SightInv', ProgressInv, Observe, NEW t \in Threads,
         pc[t] = "count", pc'[t] = "count", idx'[t] = idx[t], count'[t] = count[t]
  PROVE  /\ Cardinality(allAlong'[t] \cap Passed(t)') <= count'[t]
         /\ count'[t] <= Cardinality(atTimes'[t] \cap Passed(t)')
<1>1. allAlong'[t] \subseteq allAlong[t] /\ atTimes[t] \subseteq atTimes'[t]
  BY DEF Observe, Begins, Scanning
<1> DEFINE A == allAlong[t] \cap Passed(t)
           B == atTimes[t] \cap Passed(t)
           A2 == allAlong'[t] \cap Passed(t)'
           B2 == atTimes'[t] \cap Passed(t)'
<1>2. A2 \subseteq A /\ B \subseteq B2
  BY <1>1 DEF Passed
<1>3. IsFiniteSet(A) /\ IsFiniteSet(A2) /\ IsFiniteSet(B) /\ IsFiniteSet(B2)
  <2>1. IsFiniteSet(Conns)
    BY ConfigFacts, FS_Interval DEF Conns
  <2>2. A \subseteq Conns /\ B \subseteq Conns /\ A2 \subseteq Conns /\ B2 \subseteq Conns
    BY DEF SightInv
  <2>. HIDE DEF A, B, A2, B2
  <2>. QED BY <2>1, <2>2, FS_Subset
<1>4. count[t] \in Nat /\ Cardinality(A) <= count[t] /\ count[t] <= Cardinality(B)
  BY DEF TypeOK, ProgressInv
<1>5. count'[t] = count[t]
  OBVIOUS
<1>6. Cardinality(A2) <= count'[t] /\ count'[t] <= Cardinality(B2)
  <2>. HIDE DEF A, B, A2, B2
  <2>1. /\ Cardinality(A2) <= Cardinality(A) /\ Cardinality(B) <= Cardinality(B2)
        /\ Cardinality(A2) \in Nat /\ Cardinality(A) \in Nat
        /\ Cardinality(B) \in Nat /\ Cardinality(B2) \in Nat
    BY <1>2, <1>3, FS_Subset, FS_CardinalityType
  <2>. QED BY <1>4, <1>5, <2>1
<1>. QED BY <1>6

-----------------------------------------------------------------------------
\* A flag that is read: one place more is passed, one connection more counted
\* if it is free now.

LEMMA CountStep ==
  ASSUME TypeOK, SightInv, ProgressInv, Observe, NEW t \in Threads, CountFlag(t)
  PROVE  /\ Cardinality(allAlong'[t] \cap Passed(t)') <= count'[t]
         /\ count'[t] <= Cardinality(atTimes'[t] \cap Passed(t)')
<1> DEFINE A == allAlong[t] \cap Passed(t)
           B == atTimes[t] \cap Passed(t)
           A2 == allAlong'[t] \cap Passed(t)'
           B2 == atTimes'[t] \cap Passed(t)'
<1>1. pc[t] = "count" /\ pc' = pc /\ flag' = flag /\ idx[t] \in Conns /\ idx[t] \in Nat
  BY DEF CountFlag, poolVars, TypeOK, Conns
<1>2. idx'[t] = idx[t] + 1 /\ Passed(t)' = Passed(t) \cup {idx[t]} /\ idx[t] \notin Passed(t)
  BY <1>1 DEF CountFlag, TypeOK, Passed, Conns
<1>3. allAlong'[t] = allAlong[t] /\ atTimes'[t] = atTimes[t]
  BY <1>1 DEF Observe, Begins, Scanning, SightInv, Free
<1>4. (A2 = A \/ A2 = A \cup {idx[t]}) /\ (B2 = B \/ B2 = B \cup {idx[t]})
  BY <1>2, <1>3
<1>5. IsFiniteSet(A) /\ IsFiniteSet(B)
  BY FiniteSights
<1>6. count[t] \in Nat /\ Cardinality(A) <= count[t] /\ count[t] <= Cardinality(B)
  BY <1>1 DEF ProgressInv, TypeOK
<1>7. CASE flag[idx[t]]
  <2>1. idx[t] \notin allAlong[t]
    BY <1>1, <1>7 DEF SightInv, Scanning, Free
  <2>2. A2 = A
    BY <1>2, <1>3, <2>1
  <2>3. count'[t] = count[t]
    BY <1>7 DEF CountFlag, TypeOK
  <2>4. Cardinality(A2) <= count'[t] /\ count'[t] <= Cardinality(B2)
    <3>. HIDE DEF A, B, A2, B2
    <3>1. Cardinality(B) \in Nat /\ Cardinality(B \cup {idx[t]}) \in {Cardinality(B), Cardinality(B) + 1}
      BY <1>5, FS_AddElement, FS_CardinalityType
    <3>2. Cardinality(A2) = Cardinality(A)
      BY <2>2
    <3>3. Cardinality(B2) = Cardinality(B) \/ Cardinality(B2) = Cardinality(B) + 1
      BY <1>4, <3>1
    <3>. QED BY <1>6, <2>3, <3>1, <3>2, <3>3
  <2>. QED BY <2>4
<1>8. CASE ~flag[idx[t]]
  <2>1. idx[t] \in atTimes[t] /\ idx[t] \notin B /\ idx[t] \notin A
    BY <1>1, <1>2, <1>8 DEF SightInv, Scanning, Free
  <2>2. count'[t] = count[t] + 1
    BY <1>8 DEF CountFlag, TypeOK
  <2>3. B2 = B \cup {idx[t]}
    BY <1>2, <1>3, <2>1
  <2>4. Cardinality(A2) <= count'[t] /\ count'[t] <= Cardinality(B2)
    <3>. HIDE DEF A, B, A2, B2
    <3>1. /\ Cardinality(A) \in Nat /\ Cardinality(A \cup {idx[t]}) = Cardinality(A) + 1
          /\ Cardinality(B) \in Nat /\ Cardinality(B \cup {idx[t]}) = Cardinality(B) + 1
      BY <1>5, <2>1, FS_AddElement, FS_CardinalityType
    <3>2. Cardinality(B2) = Cardinality(B) + 1
      BY <2>3, <3>1
    <3>3. Cardinality(A2) = Cardinality(A) \/ Cardinality(A2) = Cardinality(A) + 1
      BY <1>4, <3>1
    <3>. QED BY <1>6, <2>2, <3>1, <3>2, <3>3
  <2>. QED BY <2>4
<1>. QED BY <1>7, <1>8

LEMMA ProgressStep ==
  ASSUME TypeOK, TypeOK', SightInv, SightInv', ProgressInv, Next, Observe
  PROVE  ProgressInv'
<1>1. ASSUME NEW t \in Threads, pc'[t] = "scan"
      PROVE  allAlong'[t] \cap Passed(t)' = {}
  <2>1. CASE pc[t] = "scan" /\ idx'[t] = idx[t]
    BY <2>1 DEF ProgressInv, Observe, Begins, Scanning, Passed
  <2>2. CASE SkipFlag(t)
    <3>1. /\ Passed(t)' = Passed(t) \cup {idx[t]}
          /\ pc[t] = "scan" /\ flag[idx[t]] /\ idx[t] \in Conns
      BY <2>2 DEF SkipFlag, TypeOK, Passed, Conns
    <3>2. idx[t] \notin allAlong[t]
      BY <3>1 DEF SightInv, Scanning, Free
    <3>3. allAlong'[t] \subseteq allAlong[t]
      BY <3>1 DEF Observe, Begins, Scanning
    <3>. QED BY <3>1, <3>2, <3>3 DEF ProgressInv
  <2>3. CASE pc[t] # "scan"
    <3>1. idx'[t] = 1
      BY <1>1, <2>3 DEF Next, ThreadNext, AcquireStep, AvailableStep, DisciplinedSessionNext, StartAcquire, TakeFlag, SkipFlag,
         EndAttempt, GiveUp, Wake, StartAvailable, CountFlag, ReturnAvailable, Destroy, MoveConstruct, MoveAssign,
         threadVars, poolVars, TypeOK, Phases
    <3>. QED BY <3>1 DEF Passed
  <2>4. (pc[t] = "scan" /\ idx'[t] = idx[t]) \/ SkipFlag(t) \/ pc[t] # "scan"
    BY <1>1 DEF Next, ThreadNext, AcquireStep, AvailableStep, DisciplinedSessionNext, StartAcquire, TakeFlag, SkipFlag,
       EndAttempt, GiveUp, Wake, StartAvailable, CountFlag, ReturnAvailable, Destroy, MoveConstruct, MoveAssign,
       threadVars, poolVars, TypeOK
  <2>. QED BY <2>1, <2>2, <2>3, <2>4
<1>2. ASSUME NEW t \in Threads, pc'[t] = "count"
      PROVE  /\ Cardinality(allAlong'[t] \cap Passed(t)') <= count'[t]
             /\ count'[t] <= Cardinality(atTimes'[t] \cap Passed(t)')
  <2>1. CASE StartAvailable(t)
    <3>1. Passed(t)' = {} /\ count'[t] = 0
      BY <2>1 DEF StartAvailable, TypeOK, Passed
    <3>. QED BY <3>1, FS_EmptySet
  <2>2. CASE CountFlag(t)
    BY <2>2, CountStep
  <2>3. CASE pc[t] = "count" /\ idx'[t] = idx[t] /\ count'[t] = count[t]
    BY <1>2, <2>3, CountStands
  <2>4. StartAvailable(t) \/ CountFlag(t) \/ (pc[t] = "count" /\ idx'[t] = idx[t] /\ count'[t] = count[t])
    BY <1>2 DEF Next, ThreadNext, AcquireStep, AvailableStep, DisciplinedSessionNext, StartAcquire, TakeFlag, SkipFlag,
       EndAttempt, GiveUp, Wake, StartAvailable, CountFlag, ReturnAvailable, Destroy, MoveConstruct, MoveAssign,
       threadVars, poolVars, TypeOK
  <2>. QED BY <2>1, <2>2, <2>3, <2>4
<1>. QED BY <1>1, <1>2 DEF ProgressInv

LEMMA AttemptStep ==
  ASSUME TypeOK, TypeOK', AttemptInv, Next, Observe
  PROVE  AttemptInv'
<1> USE ConfigFacts DEF AttemptInv, Observe, Begins, Scanning, TypeOK
<1>0. Error # NoResult /\ Error # Acquired
  BY DEF Error, NoResult, Acquired
<1>1. ASSUME NEW t \in Threads, StartAcquire(t) PROVE AttemptInv'
  BY <1>0, <1>1 DEF StartAcquire
<1>2. ASSUME NEW t \in Threads, TakeFlag(t) PROVE AttemptInv'
  BY <1>0, <1>2 DEF TakeFlag
<1>3. ASSUME NEW t \in Threads, SkipFlag(t) PROVE AttemptInv'
  BY <1>3 DEF SkipFlag
<1>4. ASSUME NEW t \in Threads, EndAttempt(t) PROVE AttemptInv'
  BY <1>4 DEF EndAttempt
<1>5. ASSUME NEW t \in Threads, GiveUp(t) PROVE AttemptInv'
  BY <1>5 DEF GiveUp
<1>6. ASSUME NEW t \in Threads, Wake(t) PROVE AttemptInv'
  BY <1>6 DEF Wake
<1>7. ASSUME NEW t \in Threads, StartAvailable(t) PROVE AttemptInv'
  BY <1>7 DEF StartAvailable
<1>8. ASSUME NEW t \in Threads, AvailableStep(t) PROVE AttemptInv'
  BY <1>8 DEF AvailableStep, CountFlag, ReturnAvailable
<1>9. CASE UNCHANGED threadVars
  BY <1>9 DEF threadVars
<1>. QED BY <1>1, <1>2, <1>3, <1>4, <1>5, <1>6, <1>7, <1>8, <1>9
     DEF Next, ThreadNext, AcquireStep, DisciplinedSessionNext, Destroy, MoveConstruct, MoveAssign

LEMMA ObsInvStep == ObsInv /\ [Next /\ Observe]_obsVars => ObsInv'
<1> SUFFICES ASSUME ObsInv, [Next /\ Observe]_obsVars PROVE ObsInv'
  OBVIOUS
<1>1. TypeOK'
  BY TypeStep DEF ObsInv, obsVars
<1>2. CASE Next /\ Observe
  BY <1>1, <1>2, SightStep, ProgressStep, AttemptStep DEF ObsInv
<1>3. CASE UNCHANGED obsVars
  BY <1>1, <1>3 DEF obsVars, vars, ObsInv, SightInv, ProgressInv, AttemptInv, Scanning, Free, Passed
<1>. QED BY <1>2, <1>3

LEMMA ObsInvariance == ObsSpec => []ObsInv
BY ObsInitInv, ObsInvStep, PTL DEF ObsSpec

-----------------------------------------------------------------------------
\* What available() returns lies between the number of connections that were
\* free all the time and the number of those that were free at some time.
THEOREM CountIsPlausible == ObsSpec => []AvailableIsPlausible
<1>1. ASSUME ObsInv PROVE AvailableIsPlausible
  <2> SUFFICES ASSUME NEW t \in Threads, pc[t] = "count", idx[t] = Config.size + 1
               PROVE  /\ Cardinality(allAlong[t]) <= count[t]
                      /\ count[t] <= Cardinality(atTimes[t])
    BY DEF AvailableIsPlausible
  <2>1. Passed(t) = Conns
    BY ConfigFacts DEF Passed, Conns
  <2>2. allAlong[t] \cap Passed(t) = allAlong[t] /\ atTimes[t] \cap Passed(t) = atTimes[t]
    BY <1>1, <2>1 DEF ObsInv, SightInv
  <2>. QED BY <1>1, <2>2 DEF ObsInv, ProgressInv
<1>. QED BY <1>1, ObsInvariance, PTL

\* An error comes after as many scans of the pool as the default configuration
\* has attempts.
THEOREM AllAttemptsAreMade == ObsSpec => []GivesUpAfterAllAttempts
<1>1. ObsInv => GivesUpAfterAllAttempts
  BY DEF ObsInv, AttemptInv, GivesUpAfterAllAttempts
<1>. QED BY <1>1, ObsInvariance, PTL

\* acquire() gives up only if no connection stayed free during its last scan.
THEOREM ErrorMeansBusy == ObsSpec => GivesUpOnlyWhenBusy
<1>1. ASSUME ObsInv, [Next /\ Observe]_obsVars,
             NEW t \in Threads, pc[t] = "scan", result'[t] = Error, result[t] # Error
      PROVE  allAlong[t] = {}
  <2>1. GiveUp(t)
    BY <1>1 DEF ObsInv, TypeOK, obsVars, vars, Next, ThreadNext, AcquireStep, AvailableStep, DisciplinedSessionNext,
       StartAcquire, TakeFlag, SkipFlag, EndAttempt, GiveUp, Wake, StartAvailable, CountFlag, ReturnAvailable,
       Destroy, MoveConstruct, MoveAssign, threadVars, poolVars, Error, Acquired, NoResult
  <2>2. Passed(t) = Conns
    BY <2>1, ConfigFacts DEF GiveUp, Passed, Conns
  <2>. QED BY <1>1, <2>2 DEF ObsInv, SightInv, ProgressInv
<1>2. ObsInv /\ [Next /\ Observe]_obsVars =>
        [\A t \in Threads : pc[t] = "scan" /\ result'[t] = Error /\ result[t] # Error => allAlong[t] = {}]_obsVars
  BY <1>1
<1>. QED BY <1>2, ObsInvariance, PTL DEF ObsSpec, GivesUpOnlyWhenBusy

=============================================================================
