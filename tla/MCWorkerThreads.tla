--------------------------- MODULE MCWorkerThreads ---------------------------
(* WorkerThreads for TLC: threads are interchangeable, and so are requests.*)
EXTENDS WorkerThreads

CONSTANTS r1, r2, t1, t2

Symmetry == Permutations({r1, r2}) \cup Permutations({t1, t2})

==============================================================================
