------------------------ MODULE ConnectionPoolProofs ------------------------
(***************************************************************************)
(* What ConnectionPool promises for any number of threads, sessions and    *)
(* connections.                                                            *)
(***************************************************************************)
EXTENDS ConnectionPool, TLAPS

LEMMA ConfigFacts ==
  /\ Config.size \in Nat
  /\ config_.num_attempts \in Nat \ {0}
BY ConfigAssumption DEF ConfigType, config_

LEMMA TypeStep == TypeOK /\ [Next]_vars => TypeOK'
<1> SUFFICES ASSUME TypeOK, [Next]_vars PROVE TypeOK'
  OBVIOUS
<1> USE ConfigFacts DEF TypeOK
<1>1. ASSUME NEW t \in Threads, StartAcquire(t) PROVE TypeOK'
  BY <1>1 DEF StartAcquire, poolVars, Phases, Results
<1>2. ASSUME NEW t \in Threads, TakeFlag(t) PROVE TypeOK'
  BY <1>2 DEF TakeFlag, LiveSessions, Conns, Phases, Results
<1>3. ASSUME NEW t \in Threads, SkipFlag(t) PROVE TypeOK'
  BY <1>3 DEF SkipFlag, poolVars, Conns
<1>4. ASSUME NEW t \in Threads, EndAttempt(t) PROVE TypeOK'
  BY <1>4 DEF EndAttempt, poolVars, Phases
<1>5. ASSUME NEW t \in Threads, GiveUp(t) PROVE TypeOK'
  BY <1>5 DEF GiveUp, poolVars, Phases, Results
<1>6. ASSUME NEW t \in Threads, Wake(t) PROVE TypeOK'
  BY <1>6 DEF Wake, poolVars, Phases
<1>7. ASSUME NEW t \in Threads, StartAvailable(t) PROVE TypeOK'
  BY <1>7 DEF StartAvailable, poolVars, Phases
<1>8. ASSUME NEW t \in Threads, CountFlag(t) PROVE TypeOK'
  BY <1>8 DEF CountFlag, poolVars, Conns
<1>9. ASSUME NEW t \in Threads, ReturnAvailable(t) PROVE TypeOK'
  BY <1>9 DEF ReturnAvailable, poolVars, Phases
<1>10. ASSUME NEW s \in Slots, Destroy(s) PROVE TypeOK'
  BY <1>10 DEF Destroy, threadVars
<1>11. ASSUME NEW from \in Slots, NEW to \in Slots,
              MoveConstruct(from, to) \/ MoveAssign(from, to)
       PROVE TypeOK'
  BY <1>11 DEF MoveConstruct, MoveAssign, threadVars
<1>12. CASE UNCHANGED vars
  BY <1>12 DEF vars
<1> QED
  BY <1>1, <1>2, <1>3, <1>4, <1>5, <1>6, <1>7, <1>8, <1>9, <1>10, <1>11,
     <1>12 DEF Next, ThreadNext, DisciplinedSessionNext, AcquireStep,
               AvailableStep

\* Every variable keeps its type: the counters stay inside the pool and
\* inside the attempts, a lease is one of the pool's connections.
THEOREM TypeCorrect == Spec => []TypeOK
<1>1. Init => TypeOK
  BY ConfigFacts DEF Init, TypeOK, Phases, Results
<1> QED
  BY <1>1, TypeStep, PTL DEF Spec

\* The strengthening the remaining safety results rest on: each lease is
\* backed by a set flag, and by that of no other Session.
LeaseInv == TypeOK /\ HeldIsFlagged /\ ExclusiveLease

LEMMA LeaseInit == Init => LeaseInv
BY ConfigFacts, SentinelAssumption
   DEF Init, LeaseInv, TypeOK, HeldIsFlagged, ExclusiveLease, Phases, Results,
       Conns

\* A thread can only change the pool by taking a flag that was clear.
LEMMA ThreadKeepsLeases ==
  ASSUME LeaseInv, TypeOK', NEW t \in Threads,
         StartAcquire(t) \/ AcquireStep(t) \/ StartAvailable(t)
           \/ AvailableStep(t)
  PROVE  HeldIsFlagged' /\ ExclusiveLease'
<1> USE DEF LeaseInv, HeldIsFlagged, ExclusiveLease
<1>1. CASE TakeFlag(t)
  <2>1. PICK s \in Slots \ LiveSessions :
          session' = [session EXCEPT ![s] = idx[t]]
    BY <1>1 DEF TakeFlag
  <2>2. /\ idx[t] \in Conns
        /\ ~flag[idx[t]]
        /\ flag' = [flag EXCEPT ![idx[t]] = TRUE]
    BY <1>1 DEF TakeFlag
  <2>3. \A r \in Slots : session[r] # idx[t]
    BY <2>2
  <2> QED
    BY <2>1, <2>2, <2>3 DEF TypeOK
<1>2. CASE UNCHANGED poolVars
  BY <1>2 DEF poolVars
<1> QED
  BY <1>1, <1>2 DEF StartAcquire, AcquireStep, SkipFlag, EndAttempt, GiveUp,
                    Wake, StartAvailable, AvailableStep, CountFlag,
                    ReturnAvailable

\* A destructor clears the flag of a lease that is then nobody's.
LEMMA DestroyKeepsLeases ==
  ASSUME LeaseInv, NEW s \in Slots, Destroy(s)
  PROVE  HeldIsFlagged' /\ ExclusiveLease'
<1> USE SentinelAssumption DEF LeaseInv, HeldIsFlagged, ExclusiveLease, TypeOK, Conns
<1>1. session' = [session EXCEPT ![s] = Absent]
  BY DEF Destroy
<1>2. ExclusiveLease'
  BY <1>1
<1>3. CASE session[s] = MovedFrom
  BY <1>1, <1>2, <1>3 DEF Destroy
<1>4. CASE session[s] \in Conns
  <2>1. flag' = [flag EXCEPT ![session[s]] = FALSE]
    BY <1>4 DEF Destroy
  <2>2. ASSUME NEW r \in Slots, session'[r] \in Conns PROVE flag'[session'[r]]
    BY <1>1, <1>4, <2>1, <2>2
  <2> QED
    BY <1>2, <2>2
<1> QED
  BY <1>3, <1>4 DEF Destroy

\* A move takes the lease out of one object and puts it into another.
LEMMA MoveKeepsLeases ==
  ASSUME LeaseInv, NEW from \in Slots, NEW to \in Slots,
         MoveConstruct(from, to) \/ MoveAssign(from, to)
  PROVE  HeldIsFlagged' /\ ExclusiveLease'
<1>1. /\ session' = [session EXCEPT ![to] = session[from], ![from] = MovedFrom]
      /\ flag' = flag
      /\ from # to
  BY DEF MoveConstruct, MoveAssign
<1>2. /\ session'[from] = MovedFrom
      /\ session'[to] = session[from]
      /\ \A s \in Slots \ {from, to} : session'[s] = session[s]
  BY <1>1 DEF LeaseInv, TypeOK
<1>3. MovedFrom \notin Conns
  BY SentinelAssumption DEF Conns
<1> DEFINE origin(s) == IF s = to THEN from ELSE s
<1>4. ASSUME NEW s \in Slots, session'[s] \in Conns
      PROVE  /\ s # from
             /\ origin(s) \in Slots
             /\ session[origin(s)] = session'[s]
  BY <1>2, <1>3, <1>4
<1>5. HeldIsFlagged'
  BY <1>1, <1>4 DEF LeaseInv, HeldIsFlagged
<1>6. ASSUME NEW s1 \in Slots, NEW s2 \in Slots,
             session'[s1] \in Conns, session'[s1] = session'[s2]
      PROVE  s1 = s2
  <2>1. origin(s1) = origin(s2)
    BY <1>4, <1>6 DEF LeaseInv, ExclusiveLease
  <2>2. s1 # from /\ s2 # from
    BY <1>4, <1>6
  <2> QED
    BY <2>1, <2>2
<1>7. ExclusiveLease'
  BY <1>6 DEF ExclusiveLease
<1> QED
  BY <1>5, <1>7

LEMMA LeaseStep == LeaseInv /\ TypeOK' /\ [Next]_vars => LeaseInv'
<1> SUFFICES ASSUME LeaseInv, TypeOK', [Next]_vars PROVE LeaseInv'
  OBVIOUS
<1>1. CASE UNCHANGED vars
  BY <1>1 DEF vars, LeaseInv, HeldIsFlagged, ExclusiveLease
<1>2. CASE Next
  BY <1>2, ThreadKeepsLeases, DestroyKeepsLeases, MoveKeepsLeases
  DEF Next, ThreadNext, DisciplinedSessionNext, LeaseInv
<1> QED
  BY <1>1, <1>2

LEMMA LeaseInvariant == Spec => []LeaseInv
BY LeaseInit, LeaseStep, TypeCorrect, PTL DEF Spec

\* A connection some Session holds can never be handed out again.
THEOREM HeldConnectionsStayFlagged == Spec => []HeldIsFlagged
<1>1. LeaseInv => HeldIsFlagged
  BY DEF LeaseInv
<1> QED
  BY <1>1, LeaseInvariant, PTL

\* No two sessions ever share a connection, for any number of threads, moves,
\* and even if sessions are assigned over.
THEOREM SessionsAreExclusive == Spec => []ExclusiveLease
<1>1. LeaseInv => ExclusiveLease
  BY DEF LeaseInv
<1> QED
  BY <1>1, LeaseInvariant, PTL

\* The only step that leaves a set flag without an owner is an assignment
\* over a Session that held the connection.
LEMMA LeakStep ==
  ASSUME LeaseInv, [Next]_vars, NEW c \in Conns,
         flag[c], Owners(c) # {}, flag'[c], Owners(c)' = {}
  PROVE  \E from, to \in Slots : session[to] = c /\ MoveAssign(from, to)
<1>1. PICK s \in Slots : session[s] = c
  BY DEF Owners
<1>2. session'[s] # c
  BY DEF Owners
<1>3. \A r \in Slots : session'[r] # c
  BY DEF Owners
<1>4. ASSUME NEW t \in Threads, TakeFlag(t) PROVE FALSE
  <2>1. PICK r \in Slots \ LiveSessions :
          session' = [session EXCEPT ![r] = idx[t]]
    BY <1>4 DEF TakeFlag
  <2>2. session[r] = Absent /\ c # Absent
    BY SentinelAssumption DEF LiveSessions, Conns
  <2> QED
    BY <1>1, <1>2, <2>1, <2>2 DEF LeaseInv, TypeOK
<1>5. ASSUME NEW r \in Slots, Destroy(r) PROVE FALSE
  <2>1. r = s
    BY <1>1, <1>2, <1>5 DEF Destroy, LeaseInv, TypeOK
  <2>2. c # MovedFrom
    BY SentinelAssumption DEF Conns
  <2> QED
    BY <1>1, <1>5, <2>1, <2>2 DEF Destroy, LeaseInv, TypeOK
<1>6. ASSUME NEW from \in Slots, NEW to \in Slots, MoveConstruct(from, to)
      PROVE  FALSE
  <2>1. session[to] = Absent /\ c # Absent /\ from # to
    BY <1>6, SentinelAssumption DEF MoveConstruct, Conns
  <2>2. session'[to] = session[from]
    BY <1>6, <2>1 DEF MoveConstruct, LeaseInv, TypeOK
  <2>3. session[from] # c
    BY <1>3, <2>2
  <2> QED
    BY <1>1, <1>2, <1>6, <2>1, <2>3 DEF MoveConstruct, LeaseInv, TypeOK
<1>7. ASSUME NEW from \in Slots, NEW to \in Slots, MoveAssign(from, to)
      PROVE  session[to] = c
  <2>1. session'[to] = session[from]
    BY <1>7 DEF MoveAssign, LeaseInv, TypeOK
  <2>2. session[from] # c
    BY <1>3, <2>1
  <2> QED
    BY <1>1, <1>2, <1>7, <2>2 DEF MoveAssign, LeaseInv, TypeOK
<1>8. CASE UNCHANGED session
  BY <1>1, <1>2, <1>8
<1> QED
  BY <1>4, <1>5, <1>6, <1>7, <1>8
  DEF Next, ThreadNext, DisciplinedSessionNext, vars, poolVars, StartAcquire,
      AcquireStep, SkipFlag, EndAttempt, GiveUp, Wake, StartAvailable,
      AvailableStep, CountFlag, ReturnAvailable

\* Connections are only ever lost by assigning over the Session holding them.
THEOREM LeaksAreOverwrites == Spec => OnlyOverwriteLeaks
<1>1. LeaseInv /\ [Next]_vars =>
        [\A c \in Conns :
           flag[c] /\ Owners(c) # {} /\ flag'[c] /\ Owners(c)' = {} =>
             \E from, to \in Slots : session[to] = c /\ MoveAssign(from, to)]_vars
  BY LeakStep
<1> QED
  BY <1>1, LeaseInvariant, PTL DEF Spec, OnlyOverwriteLeaks

-----------------------------------------------------------------------------
(* Programs that never assign over a Session that holds a connection.      *)

LEMMA DisciplinedStep == DisciplinedNext => Next
BY DEF DisciplinedNext, DisciplinedSessionNext, Next

LEMMA DisciplinedLease == DisciplinedSpec => []LeaseInv
<1>1. [DisciplinedNext]_vars => [Next]_vars
  BY DisciplinedStep
<1>2. LeaseInv /\ [Next]_vars => LeaseInv'
  <2>1. TypeOK /\ [Next]_vars => TypeOK'
    BY TypeStep
  <2> QED
    BY <2>1, LeaseStep DEF LeaseInv
<1> QED
  BY <1>1, <1>2, LeaseInit, PTL DEF DisciplinedSpec

\* Only a scan sets a flag, and it makes a Session for it at once.
LEMMA FlagSetByTake ==
  ASSUME LeaseInv, [Next]_vars, NEW c \in Conns, ~flag[c], flag'[c]
  PROVE  Owners(c)' # {}
<1>1. ASSUME NEW t \in Threads, TakeFlag(t) PROVE Owners(c)' # {}
  <2>1. idx[t] = c
    BY <1>1 DEF TakeFlag, LeaseInv, TypeOK
  <2>2. PICK s \in Slots : session' = [session EXCEPT ![s] = c]
    BY <1>1, <2>1 DEF TakeFlag
  <2> QED
    BY <2>2 DEF Owners, LeaseInv, TypeOK
<1>2. ASSUME NEW s \in Slots, Destroy(s) PROVE FALSE
  BY <1>2 DEF Destroy, LeaseInv, TypeOK
<1>3. CASE UNCHANGED flag
  BY <1>3
<1> QED
  BY <1>1, <1>2, <1>3
  DEF Next, ThreadNext, DisciplinedSessionNext, vars, poolVars, StartAcquire,
      AcquireStep, SkipFlag, EndAttempt, GiveUp, Wake, StartAvailable,
      AvailableStep, CountFlag, ReturnAvailable, MoveConstruct, MoveAssign

\* A disciplined assignment never puts an end to a lease.
LEMMA OwnedStaysOwned ==
  ASSUME LeaseInv, [DisciplinedNext]_vars, NEW c \in Conns,
         Owners(c) # {}, Owners(c)' = {}
  PROVE  ~flag'[c]
<1> SUFFICES ASSUME flag'[c] PROVE FALSE
  OBVIOUS
<1>1. PICK s \in Slots : session[s] = c
  BY DEF Owners
<1>2. \A r \in Slots : session'[r] # c
  BY DEF Owners
<1>3. c # Absent /\ c # MovedFrom
  BY SentinelAssumption DEF Conns
<1>4. ASSUME NEW t \in Threads, TakeFlag(t) PROVE FALSE
  <2>1. PICK r \in Slots \ LiveSessions :
          session' = [session EXCEPT ![r] = idx[t]]
    BY <1>4 DEF TakeFlag
  <2> QED
    BY <1>1, <1>2, <1>3, <2>1 DEF LiveSessions, LeaseInv, TypeOK
<1>5. ASSUME NEW r \in Slots, Destroy(r) PROVE FALSE
  BY <1>1, <1>2, <1>3, <1>5 DEF Destroy, LeaseInv, TypeOK
<1>6. ASSUME NEW from \in Slots, NEW to \in Slots,
             MoveConstruct(from, to)
               \/ (session[to] = MovedFrom /\ MoveAssign(from, to))
      PROVE  FALSE
  <2>1. /\ session' = [session EXCEPT ![to] = session[from],
                                      ![from] = MovedFrom]
        /\ from # to
        /\ session[to] # c
    BY <1>3, <1>6 DEF MoveConstruct, MoveAssign
  <2>2. session'[to] = session[from]
    BY <2>1 DEF LeaseInv, TypeOK
  <2> QED
    BY <1>1, <1>2, <2>1, <2>2 DEF LeaseInv, TypeOK
<1>7. CASE UNCHANGED session
  BY <1>1, <1>2, <1>7
<1> QED
  BY <1>4, <1>5, <1>6, <1>7
  DEF DisciplinedNext, ThreadNext, DisciplinedSessionNext, vars, poolVars,
      StartAcquire, AcquireStep, SkipFlag, EndAttempt, GiveUp, Wake,
      StartAvailable, AvailableStep, CountFlag, ReturnAvailable

\* Every set flag has a Session that will clear it, so that every connection
\* comes back when the sessions go out of scope.
THEOREM NoConnectionIsLost == DisciplinedSpec => []NoLeak
<1>1. Init => NoLeak
  BY DEF Init, NoLeak
<1>2. LeaseInv /\ NoLeak /\ [DisciplinedNext]_vars => NoLeak'
  <2> SUFFICES ASSUME LeaseInv, NoLeak, [DisciplinedNext]_vars,
                      NEW c \in Conns, flag'[c]
               PROVE  Owners(c)' # {}
    BY DEF NoLeak
  <2>1. CASE flag[c]
    BY <2>1, OwnedStaysOwned DEF NoLeak
  <2>2. CASE ~flag[c]
    BY <2>2, FlagSetByTake, DisciplinedStep
  <2> QED
    BY <2>1, <2>2
<1> QED
  BY <1>1, <1>2, DisciplinedLease, PTL DEF DisciplinedSpec

-----------------------------------------------------------------------------
(* The refinement of ResourcePool.                                         *)

FreeConns == {c \in Conns : ~flag[c]}
Lease(s)  == IF session[s] \in Conns THEN session[s] ELSE Absent
Leases    == [s \in Slots |-> Lease(s)]

LEMMA SentinelFacts == Absent \notin Conns /\ MovedFrom \notin Conns
BY SentinelAssumption DEF Conns

LEMMA TakeImplements ==
  ASSUME LeaseInv, NEW t \in Threads, TakeFlag(t)
  PROVE  Promise!Next
<1>1. PICK s \in Slots \ LiveSessions :
        session' = [session EXCEPT ![s] = idx[t]]
  BY DEF TakeFlag
<1>2. /\ idx[t] \in FreeConns
      /\ FreeConns' = FreeConns \ {idx[t]}
  BY DEF TakeFlag, FreeConns, LeaseInv, TypeOK
<1>3. Leases[s] = Absent
  BY <1>1, SentinelFacts DEF LiveSessions, Leases, Lease
<1>4. Leases' = [Leases EXCEPT ![s] = idx[t]]
  BY <1>1, <1>2 DEF Leases, Lease, FreeConns, LeaseInv, TypeOK
<1>5. Promise!Take(s)
  BY <1>2, <1>3, <1>4 DEF Promise!Take, FreeConns, Leases, Lease
<1> QED
  BY <1>5 DEF Promise!Next

LEMMA DestroyImplements ==
  ASSUME LeaseInv, NEW s \in Slots, Destroy(s)
  PROVE  Promise!Next \/ UNCHANGED Promise!vars
<1>1. session' = [session EXCEPT ![s] = Absent]
  BY DEF Destroy
<1>2. Leases' = [Leases EXCEPT ![s] = Absent]
  BY <1>1, SentinelFacts DEF Leases, Lease, LeaseInv, TypeOK
<1>3. CASE session[s] = MovedFrom
  <2>1. flag' = flag /\ Leases' = Leases
    BY <1>2, <1>3, SentinelFacts DEF Destroy, Leases, Lease
  <2> QED
    BY <2>1 DEF Promise!vars, Leases, Lease
<1>4. CASE session[s] \in Conns
  <2>1. flag' = [flag EXCEPT ![session[s]] = FALSE]
    BY <1>4, SentinelFacts DEF Destroy
  <2>2. /\ Leases[s] = session[s]
        /\ Leases[s] # Absent
    BY <1>4, SentinelFacts DEF Leases, Lease
  <2>3. FreeConns' = FreeConns \cup {Leases[s]}
    BY <1>4, <2>1, <2>2 DEF FreeConns, LeaseInv, TypeOK
  <2>4. Promise!GiveBack(s)
    BY <1>2, <2>2, <2>3 DEF Promise!GiveBack, FreeConns, Leases, Lease
  <2> QED
    BY <2>4 DEF Promise!Next
<1> QED
  BY <1>3, <1>4 DEF Destroy, LeaseInv, TypeOK

LEMMA MoveImplements ==
  ASSUME LeaseInv, NEW from \in Slots, NEW to \in Slots,
         \/ MoveConstruct(from, to)
         \/ session[to] = MovedFrom /\ MoveAssign(from, to)
  PROVE  Promise!Next \/ UNCHANGED Promise!vars
<1>1. /\ session' = [session EXCEPT ![to] = session[from], ![from] = MovedFrom]
      /\ flag' = flag
      /\ from # to
      /\ session[to] \notin Conns
  BY SentinelFacts DEF MoveConstruct, MoveAssign
<1>2. Leases[to] = Absent
  BY <1>1 DEF Leases, Lease
<1>3. Leases' = [Leases EXCEPT ![to] = Leases[from], ![from] = Absent]
  BY <1>1, SentinelFacts DEF Leases, Lease, LeaseInv, TypeOK
<1>4. CASE session[from] \in Conns
  <2>1. Leases[from] # Absent
    BY <1>4, SentinelFacts DEF Leases, Lease
  <2>2. Promise!PassOn(from, to)
    BY <1>1, <1>2, <1>3, <2>1 DEF Promise!PassOn, Leases, Lease
  <2> QED
    BY <2>2 DEF Promise!Next
<1>5. CASE session[from] \notin Conns
  <2>1. Leases' = Leases
    BY <1>2, <1>3, <1>5 DEF Leases, Lease
  <2> QED
    BY <1>1, <2>1 DEF Promise!vars, Leases, Lease
<1> QED
  BY <1>4, <1>5

\* A disciplined program sees exactly the promise: a pool of connections, each
\* free or held by one session, taken, passed on and given back one at a time.
THEOREM PoolImplementsPromise == DisciplinedSpec => ImplementsPromise
<1>1. Init => Promise!Init
  <2> SUFFICES ASSUME Init PROVE Promise!Init
    OBVIOUS
  <2>1. {c \in Conns : ~flag[c]} = Conns
    BY DEF Init
  <2>2. \A s \in Slots : session[s] \notin Conns
    BY SentinelFacts DEF Init
  <2> QED
    BY <2>1, <2>2 DEF Promise!Init
<1>2. LeaseInv /\ [DisciplinedNext]_vars => [Promise!Next]_(Promise!vars)
  <2> SUFFICES ASSUME LeaseInv, [DisciplinedNext]_vars
               PROVE  Promise!Next \/ UNCHANGED Promise!vars
    OBVIOUS
  <2>1. CASE UNCHANGED poolVars
    BY <2>1 DEF poolVars, Promise!vars
  <2> QED
    BY <2>1, TakeImplements, DestroyImplements, MoveImplements
    DEF DisciplinedNext, ThreadNext, DisciplinedSessionNext, vars, poolVars,
        StartAcquire, AcquireStep, SkipFlag, EndAttempt, GiveUp, Wake,
        StartAvailable, AvailableStep, CountFlag, ReturnAvailable
<1> QED
  BY <1>1, <1>2, DisciplinedLease, PTL
  DEF DisciplinedSpec, ImplementsPromise, Promise!Spec

=============================================================================
