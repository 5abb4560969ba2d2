------------------------------- MODULE Turns -------------------------------
(***************************************************************************)
(* What docs/connection_pool.md and docs/transactions.md promise together  *)
(* of one connection of the pool: its users take turns, and what a user    *)
(* writes in a transaction is committed all at once by that user's own     *)
(* commit(), or never.  There are no backends, servers, cursors or results *)
(* in it.  Sessions implements this specification.                         *)
(***************************************************************************)
CONSTANTS
  Users,
  Nobody,    \* the holder of a connection that is free
  Marks      \* what can be written, each at most once

VARIABLES
  holder,    \* whose turn it is
  pending,   \* what the holder has written since its transaction began
  committed

vars == <<holder, pending, committed>>

Init == holder = Nobody /\ pending = {} /\ committed = {}

Take(u) ==
  /\ holder = Nobody
  /\ holder' = u
  /\ UNCHANGED <<pending, committed>>

\* Nothing is left pending for the next user.
GiveBack ==
  /\ holder # Nobody /\ pending = {}
  /\ holder' = Nobody
  /\ UNCHANGED <<pending, committed>>

Write(m) ==
  /\ holder # Nobody /\ m \notin pending \cup committed
  /\ pending' = pending \cup {m}
  /\ UNCHANGED <<holder, committed>>

Commit ==
  /\ holder # Nobody
  /\ committed' = committed \cup pending /\ pending' = {}
  /\ UNCHANGED holder

Discard ==
  /\ holder # Nobody
  /\ pending' = {}
  /\ UNCHANGED <<holder, committed>>

Next ==
  \/ (\E u \in Users : Take(u)) \/ GiveBack
  \/ (\E m \in Marks : Write(m)) \/ Commit \/ Discard

Spec == Init /\ [][Next]_vars
=============================================================================
