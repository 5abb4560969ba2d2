--------------------------- MODULE ConnectionPool ---------------------------
(***************************************************************************)
(* include/sqlgen/ConnectionPool.hpp and include/sqlgen/Session.hpp: the   *)
(* pool is a vector of (connection, atomic_flag) pairs.  Threads acquire   *)
(* by scanning the vector in order with test_and_set; the Session they get *)
(* clears the flag when it is destroyed.  Sessions are moved, never copied.*)
(*                                                                         *)
(* A connection is named by its place in the vector.  A Session object is  *)
(* named by the storage it lives in (a Slot); conn_ and flag_ are always   *)
(* built and moved together, so one value stands for the pair.             *)
(***************************************************************************)
EXTENDS Naturals, FiniteSets

CONSTANTS
  Threads,
  Slots,          \* places a Session object can be constructed in
  Config,         \* the ConnectionPoolConfig passed to the constructor
  DefaultConfig,  \* ConnectionPoolConfig{}: 4 connections, 10 attempts, 1 s
  Absent,         \* no Session object lives in this slot
  MovedFrom       \* a Session whose flag_ was reset by a move

ConfigType == [size : Nat, num_attempts : Nat \ {0}]

ASSUME ConfigAssumption ==
  /\ Config \in ConfigType
  /\ DefaultConfig \in ConfigType

Conns == 1 .. Config.size

ASSUME SentinelAssumption ==
  /\ Absent \notin Nat
  /\ MovedFrom \notin Nat
  /\ Absent # MovedFrom

VARIABLES
  flag,      \* flag[c]: the atomic_flag of connection c
  session,   \* session[s]: the lease of the Session object in slot s
  pc,        \* what each thread is executing
  att,       \* acquire(): the loop counter att
  idx,       \* acquire(), available(): the place the range-for has reached
  result,    \* what the last acquire() of each thread returned
  count      \* available(): the accumulator, and in the end the value returned

vars == <<flag, session, pc, att, idx, result, count>>

poolVars   == <<flag, session>>
threadVars == <<pc, att, idx, result, count>>

NoResult == "none"
Error    == "No available connections in the pool."
Acquired == "session"

Phases  == {"idle", "scan", "sleep", "count"}
Results == {NoResult, Error, Acquired}

\* The constructor takes _config but never assigns config_, which keeps the
\* values of its default member initialisers; only _config.size is used.
config_ == DefaultConfig

LiveSessions == {s \in Slots : session[s] # Absent}
Owners(c)    == {s \in Slots : session[s] = c}
Acquiring    == {t \in Threads : pc[t] \in {"scan", "sleep"}}

-----------------------------------------------------------------------------
Init ==
  /\ flag = [c \in Conns |-> FALSE]
  /\ session = [s \in Slots |-> Absent]
  /\ pc = [t \in Threads |-> "idle"]
  /\ att = [t \in Threads |-> 0]
  /\ idx = [t \in Threads |-> 1]
  /\ result = [t \in Threads |-> NoResult]
  /\ count = [t \in Threads |-> 0]

(* acquire() ***************************************************************)

\* A thread calls acquire() only if it has somewhere to keep the Session.
StartAcquire(t) ==
  /\ pc[t] = "idle"
  /\ Cardinality(Slots \ LiveSessions) > Cardinality(Acquiring)
  /\ pc' = [pc EXCEPT ![t] = "scan"]
  /\ att' = [att EXCEPT ![t] = 0]
  /\ idx' = [idx EXCEPT ![t] = 1]
  /\ result' = [result EXCEPT ![t] = NoResult]
  /\ UNCHANGED <<poolVars, count>>

\* Mutant: test() and set() apart, so a flag someone else just set is taken.
TakeFlagTestThenSet(t) ==
  /\ pc[t] = "scan"
  /\ idx[t] \in Conns
  /\ flag' = [flag EXCEPT ![idx[t]] = TRUE]
  /\ \E s \in Slots \ LiveSessions : session' = [session EXCEPT ![s] = idx[t]]
  /\ pc' = [pc EXCEPT ![t] = "idle"]
  /\ result' = [result EXCEPT ![t] = Acquired]
  /\ UNCHANGED <<att, idx, count>>

\* flag->test_and_set() found the flag clear: return a Session for this pair.
TakeFlag(t) ==
  /\ pc[t] = "scan"
  /\ idx[t] \in Conns
  /\ ~flag[idx[t]]
  /\ flag' = [flag EXCEPT ![idx[t]] = TRUE]
  /\ \E s \in Slots \ LiveSessions : session' = [session EXCEPT ![s] = idx[t]]
  /\ pc' = [pc EXCEPT ![t] = "idle"]
  /\ result' = [result EXCEPT ![t] = Acquired]
  /\ UNCHANGED <<att, idx, count>>

\* test_and_set() found the flag set already: go on with the next pair.
SkipFlag(t) ==
  /\ pc[t] = "scan"
  /\ idx[t] \in Conns
  /\ flag[idx[t]]
  /\ idx' = [idx EXCEPT ![t] = @ + 1]
  /\ UNCHANGED <<poolVars, pc, att, result, count>>

\* Mutant: the comparison is <= in place of <.
EndAttemptOnceMore(t) ==
  /\ pc[t] = "scan"
  /\ idx[t] = Config.size + 1
  /\ att[t] < config_.num_attempts
  /\ att' = [att EXCEPT ![t] = @ + 1]
  /\ pc' = [pc EXCEPT ![t] = "sleep"]
  /\ UNCHANGED <<poolVars, idx, result, count>>

\* Mutant: the retries are not counted.
EndAttemptUncounted(t) ==
  /\ pc[t] = "scan"
  /\ idx[t] = Config.size + 1
  /\ pc' = [pc EXCEPT ![t] = "sleep"]
  /\ UNCHANGED <<poolVars, att, idx, result, count>>

\* The scan reached the end: sleep before the next attempt.
EndAttempt(t) ==
  /\ pc[t] = "scan"
  /\ idx[t] = Config.size + 1
  /\ att[t] + 1 < config_.num_attempts
  /\ att' = [att EXCEPT ![t] = @ + 1]
  /\ pc' = [pc EXCEPT ![t] = "sleep"]
  /\ UNCHANGED <<poolVars, idx, result, count>>

\* ... or give up after the last attempt.
GiveUp(t) ==
  /\ pc[t] = "scan"
  /\ idx[t] = Config.size + 1
  /\ att[t] + 1 >= config_.num_attempts
  /\ pc' = [pc EXCEPT ![t] = "idle"]
  /\ result' = [result EXCEPT ![t] = Error]
  /\ UNCHANGED <<poolVars, att, idx, count>>

\* Mutant: the retry does not restart the scan.
WakeAtEnd(t) ==
  /\ pc[t] = "sleep"
  /\ pc' = [pc EXCEPT ![t] = "scan"]
  /\ UNCHANGED <<poolVars, att, idx, result, count>>

\* sleep_for returned: scan from the first pair again.
Wake(t) ==
  /\ pc[t] = "sleep"
  /\ pc' = [pc EXCEPT ![t] = "scan"]
  /\ idx' = [idx EXCEPT ![t] = 1]
  /\ UNCHANGED <<poolVars, att, result, count>>

(* available() *************************************************************)

StartAvailable(t) ==
  /\ pc[t] = "idle"
  /\ pc' = [pc EXCEPT ![t] = "count"]
  /\ idx' = [idx EXCEPT ![t] = 1]
  /\ count' = [count EXCEPT ![t] = 0]
  /\ UNCHANGED <<poolVars, att, result>>

\* Mutant: counts the flags that are set.
CountFlagSet(t) ==
  /\ pc[t] = "count"
  /\ idx[t] \in Conns
  /\ count' = [count EXCEPT ![t] = IF flag[idx[t]] THEN @ + 1 ELSE @]
  /\ idx' = [idx EXCEPT ![t] = @ + 1]
  /\ UNCHANGED <<poolVars, pc, att, result>>

\* One step of std::accumulate: the flags are read one by one, unlocked.
CountFlag(t) ==
  /\ pc[t] = "count"
  /\ idx[t] \in Conns
  /\ count' = [count EXCEPT ![t] = IF flag[idx[t]] THEN @ ELSE @ + 1]
  /\ idx' = [idx EXCEPT ![t] = @ + 1]
  /\ UNCHANGED <<poolVars, pc, att, result>>

ReturnAvailable(t) ==
  /\ pc[t] = "count"
  /\ idx[t] = Config.size + 1
  /\ pc' = [pc EXCEPT ![t] = "idle"]
  /\ UNCHANGED <<poolVars, att, idx, result, count>>

(* Session *****************************************************************)

\* Mutant: the destructor does not clear the flag.
DestroyKeepsFlag(s) ==
  /\ session[s] # Absent
  /\ session' = [session EXCEPT ![s] = Absent]
  /\ UNCHANGED <<flag, threadVars>>

\* ~Session(): if (flag_) flag_->clear();
Destroy(s) ==
  /\ session[s] # Absent
  /\ session' = [session EXCEPT ![s] = Absent]
  /\ flag' = IF session[s] # MovedFrom
               THEN [flag EXCEPT ![session[s]] = FALSE]
               ELSE flag
  /\ UNCHANGED threadVars

\* Mutant: the source keeps its flag_.
MoveConstructShares(from, to) ==
  /\ session[from] # Absent
  /\ session[to] = Absent
  /\ session' = [session EXCEPT ![to] = session[from]]
  /\ UNCHANGED <<flag, threadVars>>

\* Session(Session&&): the new object takes the lease, the old one resets.
MoveConstruct(from, to) ==
  /\ session[from] # Absent
  /\ session[to] = Absent
  /\ Cardinality(Slots \ LiveSessions) > Cardinality(Acquiring)
  /\ session' = [session EXCEPT ![to] = session[from], ![from] = MovedFrom]
  /\ UNCHANGED <<flag, threadVars>>

\* operator=(Session&&): flag_ is overwritten, whatever it was.
MoveAssign(from, to) ==
  /\ from # to
  /\ session[from] # Absent
  /\ session[to] # Absent
  /\ session' = [session EXCEPT ![to] = session[from], ![from] = MovedFrom]
  /\ UNCHANGED <<flag, threadVars>>

-----------------------------------------------------------------------------
AcquireStep(t) ==
  TakeFlag(t) \/ SkipFlag(t) \/ EndAttempt(t) \/ GiveUp(t) \/ Wake(t)
AvailableStep(t) == CountFlag(t) \/ ReturnAvailable(t)

ThreadNext ==
  \E t \in Threads :
    \/ StartAcquire(t) \/ AcquireStep(t)
    \/ StartAvailable(t) \/ AvailableStep(t)

\* What a program does with its sessions if it never assigns over one that
\* still holds a connection.
DisciplinedSessionNext ==
  \/ \E s \in Slots : Destroy(s)
  \/ \E from, to \in Slots : MoveConstruct(from, to)
  \/ \E from, to \in Slots : session[to] = MovedFrom /\ MoveAssign(from, to)

Next ==
  \/ ThreadNext
  \/ DisciplinedSessionNext
  \/ \E from, to \in Slots : MoveAssign(from, to)

Spec == Init /\ [][Next]_vars

DisciplinedNext == ThreadNext \/ DisciplinedSessionNext

\* A lock-free call never waits for another thread, and a sleeping one wakes
\* up; RAII destroys the object that owns a lease when its scope ends.
Fairness ==
  /\ \A t \in Threads : WF_vars(AcquireStep(t)) /\ WF_vars(AvailableStep(t))
  /\ \A c \in Conns : WF_vars(\E s \in Slots : session[s] = c /\ Destroy(s))

DisciplinedSpec     == Init /\ [][DisciplinedNext]_vars
FairDisciplinedSpec == DisciplinedSpec /\ Fairness

-----------------------------------------------------------------------------
TypeOK ==
  /\ flag \in [Conns -> BOOLEAN]
  /\ session \in [Slots -> Conns \cup {Absent, MovedFrom}]
  /\ pc \in [Threads -> Phases]
  /\ att \in [Threads -> 0 .. config_.num_attempts - 1]
  /\ idx \in [Threads -> 1 .. Config.size + 1]
  /\ result \in [Threads -> Results]
  /\ count \in [Threads -> Nat]

\* The flag of a connection some Session holds is set, so that no scan can
\* hand the connection out a second time.
HeldIsFlagged == \A s \in Slots : session[s] \in Conns => flag[session[s]]

\* "Multiple threads can safely acquire and release sessions": whatever the
\* interleaving of scans, moves and destructors, no two Session objects ever
\* stand for the same connection.
ExclusiveLease ==
  \A s1, s2 \in Slots :
    session[s1] \in Conns /\ session[s1] = session[s2] => s1 = s2

\* "Connections are returned to the pool when sessions go out of scope": a
\* set flag belongs to a Session that exists and will clear it.
NoLeak == \A c \in Conns : flag[c] => Owners(c) # {}

\* The one step that strands a connection (its flag set, no Session left to
\* clear it) is a move assignment onto a Session that held it.
OnlyOverwriteLeaks ==
  [][\A c \in Conns :
       flag[c] /\ Owners(c) # {} /\ flag'[c] /\ Owners(c)' = {} =>
         \E from, to \in Slots : session[to] = c /\ MoveAssign(from, to)]_vars

\* acquire() neither blocks nor retries for ever: it returns a Session or an
\* error, even if the other threads never return theirs.
AcquireReturns ==
  \A t \in Threads : pc[t] \in {"scan", "sleep"} ~> pc[t] = "idle"

\* Every connection that is handed out becomes available again, however its
\* Session was moved about before it was destroyed.
ConnectionComesBack == \A c \in Conns : flag[c] ~> ~flag[c]

\* The promise in the abstract: the clear flags are the free resources, and
\* a Session that exists and was not moved from holds one.
Promise == INSTANCE ResourcePool WITH
  Resources <- Conns,
  Holders <- Slots,
  Nothing <- Absent,
  free <- {c \in Conns : ~flag[c]},
  held <- [s \in Slots |-> IF session[s] \in Conns THEN session[s] ELSE Absent]

\* Every step of a disciplined program takes, passes on or gives back exactly
\* one connection of the pool, or changes nothing the promise speaks of.
ImplementsPromise == Promise!Spec

=============================================================================
