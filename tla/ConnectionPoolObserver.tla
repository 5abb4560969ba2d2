----------------------- MODULE ConnectionPoolObserver -----------------------
(***************************************************************************)
(* ConnectionPool with an observer that remembers, for each thread inside  *)
(* acquire() or available(), which flags were clear since the scan began.  *)
(* The scans hold no lock, so what they return can only be related to the  *)
(* whole time they took, never to one instant.                             *)
(***************************************************************************)
EXTENDS ConnectionPool

VARIABLES
  allAlong,  \* connections that were free in every state since the scan began
  atTimes,   \* connections that were free in some state since the scan began
  scans      \* how often acquire() has scanned the pool in the current call

obsVars == <<vars, allAlong, atTimes, scans>>

Free == {c \in Conns : ~flag[c]}

Scanning(t) == pc[t] \in {"scan", "count"}

ObsInit ==
  /\ Init
  /\ allAlong = [t \in Threads |-> Free]
  /\ atTimes = [t \in Threads |-> Free]
  /\ scans = [t \in Threads |-> 0]

\* A scan starts when a thread enters a scanning phase.
Begins(t) == ~Scanning(t) /\ Scanning(t)'

Observe ==
  /\ allAlong' = [t \in Threads |-> IF Begins(t) THEN Free'
                                    ELSE allAlong[t] \cap Free']
  /\ atTimes' = [t \in Threads |-> IF Begins(t) THEN Free'
                                   ELSE atTimes[t] \cup Free']
  /\ scans' = [t \in Threads |->
                 IF Begins(t) /\ pc'[t] = "scan"
                   THEN IF pc[t] = "idle" THEN 1 ELSE scans[t] + 1
                   ELSE scans[t]]

ObsSpec == ObsInit /\ [][Next /\ Observe]_obsVars

\* acquire() gives up only if every connection was in use at some moment of
\* its last scan: one that stays free is found, wherever the scan was when
\* the others were taken and returned.
GivesUpOnlyWhenBusy ==
  [][\A t \in Threads :
       pc[t] = "scan" /\ result'[t] = Error /\ result[t] # Error =>
         allAlong[t] = {}]_obsVars

\* available() counts each connection that was free all along and none that
\* was never free; with no acquire or release meanwhile, the count is exact.
AvailableIsPlausible ==
  \A t \in Threads :
    pc[t] = "count" /\ idx[t] = Config.size + 1 =>
      /\ Cardinality(allAlong[t]) <= count[t]
      /\ count[t] <= Cardinality(atTimes[t])

\* The attempts are the ones of the default configuration, all of them.
GivesUpAfterAllAttempts ==
  \A t \in Threads :
    pc[t] = "idle" /\ result[t] = Error => scans[t] >= config_.num_attempts

=============================================================================
