------------------------------ MODULE Selection ------------------------------
(***************************************************************************)
(* Parts of a sequence, in its order.                                      *)
(***************************************************************************)
EXTENDS Naturals, Sequences, FiniteSets

(* The numbers of s, the smallest first.                                   *)
Sorted(s) == CHOOSE f \in [1..Cardinality(s) -> s] :
                 \A i, k \in DOMAIN f : i < k => f[i] < f[k]

(* What seq has at the places.                                             *)
Selected(seq, places) ==
    LET at == Sorted(places) IN [i \in DOMAIN at |-> seq[at[i]]]

==============================================================================
