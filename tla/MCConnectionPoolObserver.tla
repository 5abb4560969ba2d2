---------------------- MODULE MCConnectionPoolObserver ----------------------
(***************************************************************************)
(* TLC instances of ConnectionPoolObserver.                                *)
(***************************************************************************)
EXTENDS ConnectionPoolObserver, TLC

\* Two connections are enough for a scan to be overtaken on both sides.
MCConfig == [size |-> 2, num_attempts |-> 2]

\* The member initialiser says 10 attempts; the second stands for all others.
MCDefaultConfig == [size |-> 4, num_attempts |-> 2]

MCSymmetry == Permutations(Threads) \cup Permutations(Slots)

=============================================================================
