----------------------------- MODULE MCReaders -----------------------------
(***************************************************************************)
(* Bounds for Readers.                                                     *)
(***************************************************************************)
EXTENDS Readers, TLC

MCSymmetry == Permutations(Ranges) \cup Permutations(Loops)

=============================================================================
