---------------------------- MODULE MCConnectionPool ------------------------
(***************************************************************************)
(* TLC instances of ConnectionPool.                                        *)
(***************************************************************************)
EXTENDS ConnectionPool, TLC

\* Two connections, so that a scan can pass one and be overtaken at it.
MCConfig == [size |-> 2, num_attempts |-> 2]

\* The member initialiser says 10 attempts; the second stands for all that
\* follow the first.
MCDefaultConfig == [size |-> 4, num_attempts |-> 2]

=============================================================================
