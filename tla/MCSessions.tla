----------------------------- MODULE MCSessions -----------------------------
(***************************************************************************)
(* Bounds for Sessions.                                                    *)
(***************************************************************************)
EXTENDS Sessions, TLC

MCSymmetry == Permutations(Users) \cup Permutations(Ranges) \cup Permutations(Marks)

=============================================================================
