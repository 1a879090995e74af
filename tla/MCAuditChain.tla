---------------------------- MODULE MCAuditChain ----------------------------
(***************************************************************************)
(* AuditChain on small instances.                                          *)
(***************************************************************************)
EXTENDS AuditChain, TLC

Symmetry ==
    Permutations(Inodes) \cup Permutations(Threads) \cup Permutations(Commands)

=============================================================================
