---------------------------- MODULE MCComputerUse ----------------------------
(***************************************************************************)
(* ComputerUse on a small instance.                                        *)
(***************************************************************************)
EXTENDS ComputerUse, TLC

Symmetry == Permutations(Callers)

=============================================================================
