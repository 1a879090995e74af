----------------------------- MODULE MCRecording -----------------------------
(* Instances of Recording for TLC: requests are interchangeable.           *)
EXTENDS Recording, TLC

CONSTANTS o1, o2

Symmetry == Permutations(Ops)

==============================================================================
