------------------------------ MODULE AuditLog ------------------------------
(***************************************************************************)
(* What the audit log promises, whoever writes it and whatever fails: the  *)
(* current log is one chain that only grows, each record numbered and      *)
(* chained onto the one before it; a chain that is put away never changes, *)
(* and only pruning removes it.                                            *)
(***************************************************************************)
EXTENDS Naturals, Sequences

CONSTANTS
    Macs            (* the HMACs records can have, none of them 0          *)

VARIABLES
    current,        (* the records of the current log                      *)
    closed          (* the chains put away, each a sequence of records     *)

MacsOf(chain) == {chain[k].mac : k \in DOMAIN chain}

Init == current = <<>> /\ closed = {}

(* A new record: numbered by its place, chained onto the last one.         *)
Write(mac) ==
    /\ mac \notin UNION {MacsOf(chain) : chain \in closed \cup {current}}
    /\ current' = Append(current,
          [seq |-> Len(current) + 1, mac |-> mac,
           prev |-> IF current = <<>> THEN 0 ELSE current[Len(current)].mac])
    /\ UNCHANGED closed

(* The chain is put away, and the next record starts another.              *)
Close ==
    /\ current # <<>>
    /\ closed' = closed \cup {current}
    /\ current' = <<>>

Prune ==
    /\ closed' \in SUBSET closed
    /\ UNCHANGED current

Next == (\E mac \in Macs : Write(mac)) \/ Close \/ Prune

Spec == Init /\ [][Next]_<<current, closed>>

=============================================================================
