----------------------------- MODULE MCDispatch -----------------------------
(***************************************************************************)
(* Dispatch on small instances.                                            *)
(***************************************************************************)
EXTENDS Dispatch, TLC

(* Chats and request identities are interchangeable. *)
Symmetry == Permutations(Chats) \cup Permutations(Requests)

=============================================================================
