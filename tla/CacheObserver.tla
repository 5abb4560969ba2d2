---------------------------- MODULE CacheObserver ----------------------------
(***************************************************************************)
(* Cache with an observer of each fetch(): was its text in the map all     *)
(* along, and was it there when it looked?                                 *)
(***************************************************************************)
EXTENDS Cache

VARIABLES
  covered,  \* the text was in the map in every state since the call, each
            \* time with a future that had not failed
  missed    \* the lookup of the current or last call found nothing

obsVars == <<vars, covered, missed>>

Good(k) == k \in Cached /\ futures[cache_[k].future].result # Failed

Called(t)   == pc[t] = "idle" /\ pc'[t] = "call"
LookedUp(t) == pc[t] = "lookup" /\ pc'[t] # "lookup"

ObsInit ==
  /\ Init
  /\ covered = [t \in Threads |-> FALSE]
  /\ missed = [t \in Threads |-> FALSE]

Observe ==
  /\ covered' = [t \in Threads |->
       (Called(t) \/ covered[t]) /\ key'[t] \in Keys /\ Good(key[t])']
  /\ missed' = [t \in Threads |->
       IF LookedUp(t) THEN key[t] \notin Cached ELSE missed[t]]

ObsSpec == ObsInit /\ [][Next /\ Observe]_obsVars

FairObsSpec == ObsSpec /\ Fairness

\* The prevention of a "cache stampede": a fetch() of a text that has been in
\* the map since the call, with a future that has not failed, starts nothing,
\* whichever threads replaced that future meanwhile; unless the future it was
\* given has failed, which says nothing of the one that replaced it.
NoStampede ==
  [][\A t \in Threads :
       pc[t] = "launch" /\ pc'[t] = "store" /\ covered[t] =>
         hand[t] # 0 /\ futures[hand[t]].result = Failed]_obsVars

\* Only a text that was found can be answered with something older than the
\* call: a fetch() that missed returns what the database held when it was
\* called, or later, even if another thread stores an older answer meanwhile.
FreshOnMiss ==
  \A t \in Threads :
    pc[t] = "idle" /\ missed[t] /\ returned[t].status = "value" =>
      returned[t].value >= began[t]

=============================================================================
