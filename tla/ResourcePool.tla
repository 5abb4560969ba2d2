---------------------------- MODULE ResourcePool ----------------------------
(***************************************************************************)
(* What docs/connection_pool.md promises of the pool, with no threads, no  *)
(* scan and no flags in it: a fixed set of resources, each free or held by *)
(* exactly one holder, which passes it on or gives it back.  ConnectionPool*)
(* implements this specification.                                          *)
(***************************************************************************)
CONSTANTS
  Resources,
  Holders,
  Nothing    \* no resource: what a holder has that holds none

VARIABLES
  free,   \* the resources nobody holds
  held    \* held[h]: the resource holder h has, or Nothing

vars == <<free, held>>

Init ==
  /\ free = Resources
  /\ held = [h \in Holders |-> Nothing]

Take(h) ==
  /\ held[h] = Nothing
  /\ \E r \in free :
       /\ free' = free \ {r}
       /\ held' = [held EXCEPT ![h] = r]

GiveBack(h) ==
  /\ held[h] # Nothing
  /\ free' = free \cup {held[h]}
  /\ held' = [held EXCEPT ![h] = Nothing]

PassOn(from, to) ==
  /\ held[from] # Nothing
  /\ held[to] = Nothing
  /\ held' = [held EXCEPT ![to] = held[from], ![from] = Nothing]
  /\ UNCHANGED free

Next ==
  \/ \E h \in Holders : Take(h) \/ GiveBack(h)
  \/ \E from, to \in Holders : PassOn(from, to)

Spec == Init /\ [][Next]_vars
=============================================================================
