-------------------------- MODULE MCSessionControl --------------------------
(***************************************************************************)
(* Small instances of SessionControl.  Operations, children and            *)
(* directories are interchangeable where only safety is checked.           *)
(***************************************************************************)
EXTENDS SessionControl, TLC

Symmetry == Permutations(Ops) \cup Permutations(Locks) \cup
              Permutations(Children) \cup Permutations(Roots)

(* The directory of every grant that is there from the start. *)
Root == CHOOSE r \in Roots : TRUE

Granted(s, n) == [session |-> s, root |-> Root, revision |-> n]

(* A daemon that never ran before. *)
None == {<<>>}

(* One chat whose directory was chosen twice, two where it was once. *)
TwiceOnceOnce == {<<Granted("s1", 1), Granted("s1", 2), Granted("s2", 1),
                    Granted("s3", 1)>>}

(* One of two chats has a directory. *)
Once == {<<Granted("s1", 1)>>}

=============================================================================
