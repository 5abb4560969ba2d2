------------------------------ MODULE MCClient ------------------------------
(***************************************************************************)
(* Bounds for Client.                                                      *)
(***************************************************************************)
EXTENDS Client, TLC

MCSymmetry == Permutations(Rows) \cup Permutations(Objects)

=============================================================================
