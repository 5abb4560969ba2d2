------------------------------ MODULE MCCache -------------------------------
(***************************************************************************)
(* TLC instances of CacheObserver.                                         *)
(***************************************************************************)
EXTENDS CacheObserver, TLC

=============================================================================
