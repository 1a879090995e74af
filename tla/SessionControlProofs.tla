------------------------ MODULE SessionControlProofs ------------------------
(***************************************************************************)
(* Proofs about SessionControl, for every set of chats, operations and     *)
(* children, every number of directories and every limit.                  *)
(***************************************************************************)
EXTENDS SessionControl, FiniteSetTheorems, SequenceTheorems,
        WellFoundedInduction, TLAPS

-----------------------------------------------------------------------------
(* The inductive invariant *)

(* Every grant an operation, the platform or a binding names was signed.   *)
Signed == DOMAIN grant \cup {NoGrant}

GrantsSigned ==
    /\ given \subseteq DOMAIN grant
    /\ \A o \in Ops : op[o].grant \in Signed /\ op[o].prev \in Signed
    /\ \A i \in DOMAIN bound : bound[i].grant \in DOMAIN grant

(* A chat is bound once. *)
Distinct(seq) ==
    \A i, j \in DOMAIN seq : seq[i].session = seq[j].session => i = j

Types == TypeOK /\ GrantsSigned /\ Distinct(bound)

(* An operation that is under way uses the lock object registered for its  *)
(* chat; one object serves one chat, and one operation at a time has it.   *)
Busy(o) == op[o].phase # "idle"

LockInv ==
    /\ \A o \in Ops : ~Busy(o) => op[o] = Idle
    /\ \A o \in Ops : Busy(o) => /\ op[o].session \in Sessions /\ op[o].lock \in Locks
                                 /\ registry[op[o].session] = op[o].lock
    /\ \A s \in Sessions : registry[s] # NoLock =>
          \E o \in Ops : Busy(o) /\ op[o].session = s
    /\ \A s, t \in Sessions : registry[s] = registry[t] /\ registry[s] # NoLock => s = t
    /\ \A o, q \in Ops : o # q /\ Inside(o) /\ Inside(q) => op[o].lock # op[q].lock

(* What the control connection is allows only some operations, and says    *)
(* who may await a child's end.                                            *)
ConnInv ==
    /\ conn = "draining" => \A o \in Ops : Busy(o) => op[o].kind = "reap"
    /\ conn = "down" => \A o \in Ops : ~Busy(o)
    /\ stopper \in Children => conn = "down"
    /\ \A o \in Ops : op[o].phase = "ending" <=> stopper = o

(* Which phases an operation of a kind has, and why it stops a child. *)
Restores(r) == r.kind \in {"activate", "restore"}

PhaseOK(r) ==
    /\ r.phase \in {"resolving", "issuing"} => r.kind = "attach"
    /\ r.phase \in {"verifying", "start", "restart"} => Restores(r)
    /\ r.kind = "attach" => r.phase \in {"lock", "resolving", "issuing"}
    /\ r.phase \in {"stop", "ending"} =>
          /\ r.why # "none"
          /\ r.why = "detach" => r.kind = "detach"
          /\ r.why = "reap" => r.kind = "reap"
          /\ r.why \in {"replace", "undo"} => Restores(r)
          /\ r.why = "undo" => r.fresh
    /\ r.phase \in {"lock", "verifying"} => r.replaced = "no" /\ ~r.fresh
    /\ r.phase = "start" => r.fresh
    /\ r.phase = "auditing" /\ Restores(r) /\ ~r.fresh =>
          r.replaced = "no" /\ r.prev \in {r.grant, NoGrant}
    /\ r.phase = "restart" => r.prev # NoGrant /\ r.replaced = "audited"
    /\ (\/ r.phase = "issuing"
        \/ r.kind = "activate" /\ r.phase # "lock"
        \/ r.kind = "restore") => r.grant # NoGrant
    /\ r.replaced # "unaudited"

PhaseInv == \A o \in Ops : PhaseOK(op[o])

(* The table has every child that is not being stopped, and no other. *)
TableInv ==
    /\ NoLostChild
    /\ \A s \in Sessions : slot[s] # NoChild =>
          child[slot[s]].session = s /\ child[slot[s]].status \in {"live", "done"}
    /\ \A k \in Children : child[k].status # "none" => child[k].session \in Sessions

(* These operations have made sure that their chat has no active child.    *)
Clear(r) ==
    \/ r.phase \in {"resolving", "issuing", "ending", "start", "restart"}
    \/ r.kind = "detach" /\ r.phase = "auditing"

ClearInv == \A o \in Ops : Clear(op[o]) => ~Active(op[o].session)

(* A child whose start is not in the audit log is one an operation has     *)
(* just started, which audits it or stops it.                              *)
Answers(r) ==
    /\ Restores(r) /\ r.fresh
    /\ \/ r.phase = "auditing"
       \/ r.phase = "stop" /\ r.why = "undo"

AuditInv ==
    conn = "up" => \A s \in Sessions :
        Active(s) /\ ~child[slot[s]].audited =>
            \E o \in Ops : op[o].session = s /\ Answers(op[o])

(* Children of an earlier connection, and children that are ending. *)
OldInv ==
    /\ OldChildrenStopped
    /\ conn # "up" => \A k \in Children : ~Ended(k) => child[k].old
    /\ \A k \in Children : child[k].status = "stopping" /\ ~child[k].old =>
          stopper \in Ops /\ op[stopper].target = k

Actives == {s \in Sessions : Active(s)}
Running == {k \in Children : child[k].status \in {"live", "stopping"} /\ ~child[k].old}

LimitInv ==
    /\ Cardinality(Actives) <= MaxActive
    /\ IsFiniteSet(Running) /\ Cardinality(Running) <= MaxActive

(* The child of a chat serves the grant the chat is bound to (here, g),    *)
(* whatever is under way, and what an operation remembers of the binding   *)
(* still holds.                                                            *)
ServesIf(s, g) == Active(s) /\ g # NoGrant => child[slot[s]].grant = g

RecallsIf(r, g) ==
    /\ r.kind = "activate" /\ r.phase = "verifying" /\ Active(r.session) => g = r.grant
    /\ r.phase = "start" => g \in {r.grant, NoGrant}
    /\ r.phase = "restart" => g \in {r.prev, NoGrant}
    /\ Restores(r) /\ r.phase = "auditing" /\ Active(r.session) =>
          child[slot[r.session]].grant = r.grant

BindingInv ==
    /\ \A s \in Sessions : ServesIf(s, BoundTo(s))
    /\ \A o \in Ops : RecallsIf(op[o], BoundTo(op[o].session))

IInv ==
    /\ Types
    /\ LockInv
    /\ ConnInv
    /\ PhaseInv
    /\ TableInv
    /\ ClearInv
    /\ AuditInv
    /\ OldInv
    /\ LimitInv
    /\ BindingInv

-----------------------------------------------------------------------------
(* Sequences of bindings *)

(* Without takes one element out and keeps the order of the others.        *)
LEMMA WithoutOne ==
    ASSUME NEW S, NEW seq \in Seq(S), NEW i \in 1..Len(seq)
    PROVE  /\ Without(seq, i) \in Seq(S)
           /\ Len(Without(seq, i)) = Len(seq) - 1
           /\ \A j \in 1..(Len(seq) - 1) :
                Without(seq, i)[j] = IF j < i THEN seq[j] ELSE seq[j + 1]
  <1> DEFINE A == SubSeq(seq, 1, i - 1)
             B == SubSeq(seq, i + 1, Len(seq))
  <1>0. Len(seq) \in Nat /\ i \in Nat
    OBVIOUS
  <1>1. A \in Seq(S) /\ Len(A) = i - 1 /\ \A j \in 1..(i - 1) : A[j] = seq[j]
    <2>1. CASE i = 1
      BY <2>1, SubSeqProperties
    <2>2. CASE i > 1
      BY <2>2, SubSeqProperties
    <2> QED
      BY <1>0, <2>1, <2>2
  <1>2. /\ B \in Seq(S) /\ Len(B) = Len(seq) - i
        /\ \A j \in 1..(Len(seq) - i) : B[j] = seq[j + i]
    <2>1. CASE i = Len(seq)
      BY <2>1, SubSeqProperties
    <2>2. CASE i < Len(seq)
      BY <2>2, SubSeqProperties
    <2> QED
      BY <1>0, <2>1, <2>2
  <1> HIDE DEF A, B
  <1>3. /\ A \o B \in Seq(S)
        /\ Len(A \o B) = Len(seq) - 1
        /\ \A j \in 1..(Len(seq) - 1) :
             (A \o B)[j] = IF j < i THEN A[j] ELSE B[j - (i - 1)]
    <2>1. /\ A \o B \in Seq(S)
          /\ Len(A \o B) = Len(A) + Len(B)
          /\ \A j \in 1..(Len(A) + Len(B)) :
               (A \o B)[j] = IF j <= Len(A) THEN A[j] ELSE B[j - Len(A)]
      BY <1>1, <1>2, ConcatProperties
    <2> QED
      BY SMTT(20), <1>0, <1>1, <1>2, <2>1
  <1>4. ASSUME NEW j \in 1..(Len(seq) - 1)
        PROVE  (A \o B)[j] = IF j < i THEN seq[j] ELSE seq[j + 1]
    <2>1. CASE j < i
      BY <2>1, <1>1, <1>3
    <2>2. CASE ~(j < i)
      <3>1. j - (i - 1) \in 1..(Len(seq) - i) /\ j - (i - 1) + i = j + 1
        BY <2>2
      <3>2. B[j - (i - 1)] = seq[j + 1]
        BY <3>1, <1>2
      <3> QED
        BY <2>2, <3>2, <1>3
    <2> QED
      BY <1>0, <2>1, <2>2
  <1> QED
    BY <1>3, <1>4 DEF Without, A, B

(* So it has the same elements but that one, and binds no chat twice.      *)
LEMMA WithoutBindings ==
    ASSUME NEW seq \in Seq(Binding), Distinct(seq), NEW i \in DOMAIN seq
    PROVE  /\ Without(seq, i) \in Seq(Binding)
           /\ Len(Without(seq, i)) = Len(seq) - 1
           /\ Distinct(Without(seq, i))
           /\ \A j \in DOMAIN Without(seq, i) :
                \E k \in DOMAIN seq \ {i} : Without(seq, i)[j] = seq[k]
           /\ \A k \in DOMAIN seq \ {i} :
                \E j \in DOMAIN Without(seq, i) : Without(seq, i)[j] = seq[k]
  <1> DEFINE w == Without(seq, i)
  <1>1. /\ w \in Seq(Binding) /\ Len(w) = Len(seq) - 1 /\ i \in 1..Len(seq)
        /\ \A j \in 1..(Len(seq) - 1) : w[j] = IF j < i THEN seq[j] ELSE seq[j + 1]
    BY SMTT(20), WithoutOne
  <1> HIDE DEF w
  <1>2. DOMAIN w = 1..(Len(seq) - 1) /\ DOMAIN seq = 1..Len(seq) /\ Len(seq) \in Nat
    BY <1>1
  <1>3. Distinct(w)
    <2>1. SUFFICES ASSUME NEW j \in DOMAIN w, NEW m \in DOMAIN w,
                          w[j].session = w[m].session
                   PROVE  j = m
      BY DEF Distinct
    <2> DEFINE At0(n) == IF n < i THEN n ELSE n + 1
    <2>2. /\ At0(j) \in DOMAIN seq /\ At0(m) \in DOMAIN seq
          /\ w[j] = seq[At0(j)] /\ w[m] = seq[At0(m)]
      BY <1>1, <1>2
    <2>3. At0(j) = At0(m)
      BY <2>1, <2>2 DEF Distinct
    <2> QED
      BY <2>3, <1>1, <1>2
  <1>4. \A j \in DOMAIN w : \E k \in DOMAIN seq \ {i} : w[j] = seq[k]
    BY <1>1, <1>2
  <1>5. ASSUME NEW k \in DOMAIN seq \ {i}
        PROVE  \E j \in DOMAIN w : w[j] = seq[k]
    <2>1. CASE k < i
      BY <2>1, <1>1, <1>2
    <2>2. CASE k > i
      <3>1. k - 1 \in DOMAIN w /\ w[k - 1] = seq[k]
        BY <2>2, <1>1, <1>2
      <3> QED
        BY <3>1
    <2> QED
      BY <2>1, <2>2, <1>2
  <1> QED
    BY <1>1, <1>3, <1>4, <1>5 DEF w

(* A non-empty set of numbers has a least one. *)
LEMMA Least ==
    ASSUME NEW S \in SUBSET Nat, S # {}
    PROVE  \E m \in S : \A n \in S : m <= n
  <1> DEFINE R == OpToRel(<, Nat)
  <1>1. IsWellFoundedOn(R, Nat)
    BY NatLessThanWellFounded
  <1>2. \E m \in S : \A n \in S : ~(<<n, m>> \in R)
    <2> HIDE DEF R
    <2> QED
      BY <1>1, WFMin
  <1>3. PICK m \in S : \A n \in S : ~(<<n, m>> \in R)
    BY <1>2
  <1>4. \A n \in S : ~(n < m)
    BY <1>3 DEF OpToRel
  <1> QED
    BY <1>4

-----------------------------------------------------------------------------
(* The table of bindings *)

(* What a chat is bound to, now and after a step. *)
LEMMA BoundToIs ==
    ASSUME Distinct(bound), NEW s
    PROVE  /\ \A i \in DOMAIN bound : bound[i].session = s => BoundTo(s) = bound[i].grant
           /\ (\A i \in DOMAIN bound : bound[i].session # s) => BoundTo(s) = NoGrant
  BY DEF Distinct, BoundTo, At

LEMMA BoundToIsNext ==
    ASSUME Distinct(bound)', NEW s
    PROVE  /\ \A i \in DOMAIN bound' : bound'[i].session = s => BoundTo(s)' = bound'[i].grant
           /\ (\A i \in DOMAIN bound' : bound'[i].session # s) => BoundTo(s)' = NoGrant
  BY DEF Distinct, BoundTo, At

(* Forgetting a chat leaves the bindings of the others. *)
LEMMA ForgottenBindings ==
    ASSUME Types, NEW s \in Sessions
    PROVE  /\ Forgotten(s) \in Seq(Binding)
           /\ Len(Forgotten(s)) <= Len(bound)
           /\ Distinct(Forgotten(s))
           /\ \A j \in DOMAIN Forgotten(s) :
                \E k \in DOMAIN bound :
                   Forgotten(s)[j] = bound[k] /\ bound[k].session # s
           /\ \A k \in DOMAIN bound : bound[k].session # s =>
                \E j \in DOMAIN Forgotten(s) : Forgotten(s)[j] = bound[k]
  <1>1. bound \in Seq(Binding) /\ Len(bound) \in Nat /\ Distinct(bound)
    BY DEF Types, TypeOK
  <1>2. CASE At(s) = {}
    <2>1. Forgotten(s) = bound /\ \A k \in DOMAIN bound : bound[k].session # s
      BY <1>2 DEF Forgotten, At
    <2> QED
      BY <1>1, <2>1
  <1>3. CASE At(s) # {}
    <2> DEFINE i == CHOOSE i \in At(s) : TRUE
    <2>1. /\ i \in DOMAIN bound /\ bound[i].session = s
          /\ Forgotten(s) = Without(bound, i)
      BY <1>3 DEF Forgotten, At
    <2> HIDE DEF i
    <2>2. \A k \in DOMAIN bound : bound[k].session = s <=> k = i
      BY <2>1, <1>1 DEF Distinct
    <2>3. /\ Forgotten(s) \in Seq(Binding)
          /\ Len(Forgotten(s)) = Len(bound) - 1
          /\ Distinct(Forgotten(s))
          /\ \A j \in DOMAIN Forgotten(s) :
               \E k \in DOMAIN bound \ {i} : Forgotten(s)[j] = bound[k]
          /\ \A k \in DOMAIN bound \ {i} :
               \E j \in DOMAIN Forgotten(s) : Forgotten(s)[j] = bound[k]
      BY <1>1, <2>1, WithoutBindings
    <2>4. Len(Forgotten(s)) <= Len(bound)
      BY <1>1, <2>3
    <2>5. \A j \in DOMAIN Forgotten(s) : \E k \in DOMAIN bound :
            Forgotten(s)[j] = bound[k] /\ bound[k].session # s
      BY <2>2, <2>3
    <2>6. \A k \in DOMAIN bound : bound[k].session # s =>
            \E j \in DOMAIN Forgotten(s) : Forgotten(s)[j] = bound[k]
      BY <2>1, <2>3
    <2> QED
      BY <2>3, <2>4, <2>5, <2>6
  <1> QED
    BY <1>2, <1>3

(* A step that binds s to g, or forgets it, and may have put a chat        *)
(* without an active child out of the table for it.                        *)
Rebinds(s, g) ==
    /\ bound' \in Seq(Binding) /\ Len(bound') <= MaxBindings /\ Distinct(bound)'
    /\ \A i \in DOMAIN bound' : bound'[i].grant \in DOMAIN grant
    /\ BoundTo(s)' = g
    /\ \A t \in Sessions \ {s} :
         \/ BoundTo(t)' = BoundTo(t)
         \/ ~Active(t) /\ BoundTo(t)' = NoGrant

LEMMA ForgetRebinds ==
    ASSUME Types, NEW s \in Sessions, bound' = Forgotten(s)
    PROVE  Rebinds(s, NoGrant)
  <1>1. /\ bound' \in Seq(Binding) /\ Len(bound') <= Len(bound) /\ Distinct(bound)'
        /\ \A j \in DOMAIN bound' : \E k \in DOMAIN bound :
             bound'[j] = bound[k] /\ bound[k].session # s
        /\ \A k \in DOMAIN bound : bound[k].session # s =>
             \E j \in DOMAIN bound' : bound'[j] = bound[k]
    BY SMTT(20), ForgottenBindings DEF Distinct
  <1>2. /\ Len(bound) <= MaxBindings /\ Len(bound) \in Nat /\ Len(bound') \in Nat
        /\ \A i \in DOMAIN bound : bound[i].grant \in DOMAIN grant
        /\ Distinct(bound)
    BY <1>1 DEF Types, TypeOK, GrantsSigned
  <1>3. Len(bound') <= MaxBindings
    BY <1>1, <1>2, SessionControlAssumption
  <1>4. \A i \in DOMAIN bound' : bound'[i].grant \in DOMAIN grant
    BY <1>1, <1>2
  <1>5. BoundTo(s)' = NoGrant
    BY <1>1, BoundToIsNext
  <1>6. ASSUME NEW t \in Sessions \ {s}
        PROVE  BoundTo(t)' = BoundTo(t)
    <2>1. CASE \E k \in DOMAIN bound : bound[k].session = t
      BY <2>1, <1>1, <1>2, BoundToIs, BoundToIsNext
    <2>2. CASE \A k \in DOMAIN bound : bound[k].session # t
      BY <2>2, <1>1, <1>2, BoundToIs, BoundToIsNext
    <2> QED
      BY <2>1, <2>2
  <1> QED
    BY <1>1, <1>3, <1>4, <1>5, <1>6 DEF Rebinds

LEMMA SameRebinds ==
    ASSUME Types, NEW s \in Sessions, bound' = bound
    PROVE  Rebinds(s, BoundTo(s))
  BY DEF Rebinds, Types, TypeOK, GrantsSigned, Distinct, BoundTo, At

(* Among more chats than may be active, one is not. *)
LEMMA SomeInactive ==
    ASSUME Types, Cardinality(Actives) <= MaxActive,
           NEW seq \in Seq(Binding), Distinct(seq), MaxActive < Len(seq)
    PROVE  \E i \in DOMAIN seq : ~Active(seq[i].session)
  <1> DEFINE f == [i \in DOMAIN seq |-> seq[i].session]
  <1>1. SUFFICES ASSUME \A i \in DOMAIN seq : Active(seq[i].session)
                 PROVE  FALSE
    OBVIOUS
  <1>2. /\ DOMAIN seq = 1..Len(seq) /\ Len(seq) \in Nat
        /\ IsFiniteSet(DOMAIN seq) /\ Cardinality(DOMAIN seq) = Len(seq)
    BY FS_Interval
  <1>3. IsFiniteSet(Actives) /\ Cardinality(Actives) \in Nat
    <2>1. Actives \in SUBSET Sessions
      BY DEF Actives
    <2> QED
      BY <2>1, FS_Subset, FS_CardinalityType, SessionControlAssumption
  <1>4. Cardinality(Actives) < Cardinality(DOMAIN seq)
    BY <1>2, <1>3, SessionControlAssumption
  <1>5. \A i \in DOMAIN seq : seq[i].session \in Sessions
    <2>1. \A i \in DOMAIN seq : seq[i] \in Binding
      BY <1>2, ElementOfSeq
    <2> QED
      BY <2>1 DEF Binding
  <1>6. f \in [DOMAIN seq -> Actives]
    BY <1>1, <1>5 DEF Actives
  <1> HIDE DEF f
  <1>7. \E i, j \in DOMAIN seq : i # j /\ f[i] = f[j]
    BY <1>2, <1>3, <1>4, <1>6, FS_PigeonHole
  <1> QED
    BY <1>7 DEF f, Distinct

(* Remembering a grant binds the chat to it, and puts at most one other    *)
(* chat out of the table, one without an active child.                     *)
LEMMA RememberRebinds ==
    ASSUME Types, Cardinality(Actives) <= MaxActive,
           NEW s \in Sessions, NEW g \in DOMAIN grant, bound' = Remembered(s, g)
    PROVE  Rebinds(s, g)
  <1> DEFINE F   == Forgotten(s)
             all == Append(F, [session |-> s, grant |-> g])
             n   == Len(F) + 1
             Out(i) == /\ ~Active(all[i].session)
                       /\ \A j \in 1..(i - 1) : Active(all[j].session)
             out == CHOOSE i \in DOMAIN all : Out(i)
  <1>1. /\ F \in Seq(Binding) /\ Len(F) <= MaxBindings /\ Len(F) \in Nat /\ Distinct(F)
        /\ \A j \in DOMAIN F : \E k \in DOMAIN bound :
             F[j] = bound[k] /\ bound[k].session # s
        /\ \A k \in DOMAIN bound : bound[k].session # s =>
             \E j \in DOMAIN F : F[j] = bound[k]
    <2>1. Len(bound) <= MaxBindings /\ Len(bound) \in Nat
      BY DEF Types, TypeOK
    <2> QED
      BY <2>1, ForgottenBindings, SessionControlAssumption
  <1>2. bound' = IF n > MaxBindings THEN Without(all, out) ELSE all
    <2>1. Len(all) = n
      BY <1>1
    <2>2. bound' = IF TooMany(Len(all)) THEN Without(all, out) ELSE all
      BY DEF Remembered
    <2> HIDE DEF all, out
    <2> QED
      BY <2>1, <2>2 DEF TooMany
  <1>3. /\ Distinct(bound)
        /\ \A i \in DOMAIN bound : bound[i].grant \in DOMAIN grant
        /\ g \in Grants
    BY SessionControlAssumption DEF Types, TypeOK, GrantsSigned, Grants
  <1> HIDE DEF F
  <1>4. /\ all \in Seq(Binding) /\ DOMAIN all = 1..n /\ Len(all) = n
        /\ all[n].session = s /\ all[n].grant = g
        /\ \A j \in DOMAIN F : j \in 1..(n - 1) /\ all[j] = F[j]
        /\ \A j \in DOMAIN all : j # n => j \in DOMAIN F
    <2>1. [session |-> s, grant |-> g] \in Binding
      BY <1>3 DEF Binding
    <2> QED
      BY <1>1, <2>1
  <1> HIDE DEF all, n
  <1>5. Distinct(all)
    <2>1. SUFFICES ASSUME NEW i \in DOMAIN all, NEW j \in DOMAIN all,
                          all[i].session = all[j].session
                   PROVE  i = j
      BY DEF Distinct
    <2>2. \A k \in DOMAIN all : k # n => all[k].session # s
      BY <1>1, <1>4
    <2>3. CASE i = n \/ j = n
      BY <2>1, <2>2, <2>3, <1>4
    <2>4. CASE i # n /\ j # n
      BY <2>1, <2>4, <1>1, <1>4 DEF Distinct
    <2> QED
      BY <2>3, <2>4
  <1>6. \A k \in DOMAIN bound : bound[k].session # s =>
           \E j \in DOMAIN all : j # n /\ all[j] = bound[k]
    BY <1>1, <1>4
  <1>7. \A j \in DOMAIN all : j # n =>
           \E k \in DOMAIN bound : all[j] = bound[k] /\ bound[k].session # s
    BY <1>1, <1>4
  <1>8. n \in Nat
    BY <1>1 DEF n
  <1>11. n \in DOMAIN all /\ all[n].session = s /\ all[n].grant = g
    BY <1>1, <1>4 DEF n
  <1>12. \A j \in DOMAIN all : all[j].grant \in DOMAIN grant
    <2>1. \A j \in DOMAIN all : j # n => all[j].grant \in DOMAIN grant
      BY <1>3, <1>7
    <2> QED
      BY <2>1, <1>11
  <1>9. CASE ~(n > MaxBindings)
    <2>1. bound' = all /\ Len(bound') <= MaxBindings
      BY <1>2, <1>4, <1>8, <1>9, SessionControlAssumption
    <2>2. Distinct(bound)'
      BY <2>1, <1>5 DEF Distinct
    <2>3. BoundTo(s)' = g
      BY <2>1, <2>2, <1>11, BoundToIsNext
    <2>4. ASSUME NEW t \in Sessions \ {s}
          PROVE  BoundTo(t)' = BoundTo(t)
      <3>1. CASE \E k \in DOMAIN bound : bound[k].session = t
        BY <3>1, <2>1, <2>2, <1>3, <1>6, BoundToIs, BoundToIsNext
      <3>2. CASE \A k \in DOMAIN bound : bound[k].session # t
        BY <3>2, <2>1, <2>2, <1>3, <1>4, <1>7, BoundToIs, BoundToIsNext
      <3> QED
        BY <3>1, <3>2
    <2>5. \A i \in DOMAIN bound' : bound'[i].grant \in DOMAIN grant
      BY <2>1, <1>12
    <2> QED
      BY <2>1, <2>2, <2>3, <2>4, <2>5, <1>4 DEF Rebinds
  <1>10. CASE n > MaxBindings
    <2>1. n = MaxBindings + 1 /\ Len(F) = MaxBindings
      <3>1. MaxBindings \in Nat /\ Len(F) \in Nat /\ Len(F) <= MaxBindings
        BY <1>1, SessionControlAssumption
      <3> QED
        BY <3>1, <1>10 DEF n
    <2>2. \E i \in DOMAIN F : ~Active(F[i].session)
      BY <2>1, <1>1, SomeInactive, SessionControlAssumption
    <2>3. \E i \in DOMAIN all : Out(i)
      <3> DEFINE S == {i \in DOMAIN all : ~Active(all[i].session)}
      <3>1. S # {} /\ S \in SUBSET Nat
        BY <2>2, <1>4, <1>8
      <3>2. PICK m \in S : \A i \in S : m <= i
        BY <3>1, Least
      <3>3. \A j \in 1..(m - 1) : j \in DOMAIN all /\ j \notin S
        BY <3>2, <1>4, <1>8
      <3> QED
        BY <3>2, <3>3
    <2>4. out \in DOMAIN all /\ Out(out)
      BY <2>3
    <2> HIDE DEF out
    <2>5. out # n
      <3>1. PICK i \in DOMAIN F : ~Active(F[i].session)
        BY <2>2
      <3>2. i \in 1..(n - 1) /\ ~Active(all[i].session)
        BY <3>1, <1>4
      <3> QED
        BY <3>2, <2>4
    <2> HIDE DEF Out
    <2>6. ~Active(all[out].session)
      BY <2>4 DEF Out
    <2>7. bound' = Without(all, out)
      BY <1>2, <1>10
    <2>8. /\ bound' \in Seq(Binding)
          /\ Len(bound') = Len(all) - 1
          /\ Distinct(bound')
          /\ \A j \in DOMAIN bound' : \E k \in DOMAIN all \ {out} : bound'[j] = all[k]
          /\ \A k \in DOMAIN all \ {out} : \E j \in DOMAIN bound' : bound'[j] = all[k]
      <3> DEFINE W == Without(all, out)
      <3>1. /\ W \in Seq(Binding) /\ Len(W) = Len(all) - 1 /\ Distinct(W)
            /\ \A j \in DOMAIN W : \E k \in DOMAIN all \ {out} : W[j] = all[k]
            /\ \A k \in DOMAIN all \ {out} : \E j \in DOMAIN W : W[j] = all[k]
        <4>1. all \in Seq(Binding) /\ Distinct(all) /\ out \in DOMAIN all
          BY <2>4, <1>4, <1>5
        <4> QED
          BY <4>1, WithoutBindings
      <3>2. bound' = W
        BY <2>7
      <3> HIDE DEF W
      <3> QED
        BY <3>1, <3>2
    <2>9. Distinct(bound)' /\ Len(bound') <= MaxBindings
      BY <2>1, <2>8, <1>4, SessionControlAssumption DEF Distinct
    <2>10. BoundTo(s)' = g
      <3>1. n \in DOMAIN all \ {out}
        BY <2>5, <1>4, <1>8, <2>1, SessionControlAssumption
      <3> QED
        BY <3>1, <2>8, <2>9, <1>4, BoundToIsNext
    <2>11. ASSUME NEW t \in Sessions \ {s}
           PROVE  BoundTo(t)' = BoundTo(t) \/ (~Active(t) /\ BoundTo(t)' = NoGrant)
      <3>1. CASE \A k \in DOMAIN bound : bound[k].session # t
        <4>1. \A j \in DOMAIN all : all[j].session # t
          BY <3>1, <1>4, <1>7
        <4>2. \A j \in DOMAIN bound' : bound'[j].session # t
          BY <4>1, <2>8
        <4> QED
          BY <3>1, <4>2, <2>9, <1>3, BoundToIs, BoundToIsNext
      <3>2. CASE \E k \in DOMAIN bound : bound[k].session = t
        <4>1. PICK k \in DOMAIN bound : bound[k].session = t
          BY <3>2
        <4>2. PICK j \in DOMAIN all : j # n /\ all[j] = bound[k]
          BY <4>1, <1>6
        <4>3. CASE j # out
          <5>1. PICK i \in DOMAIN bound' : bound'[i] = all[j]
            BY <4>3, <2>8
          <5> QED
            BY <4>1, <4>2, <5>1, <2>9, <1>3, BoundToIs, BoundToIsNext
        <4>4. CASE j = out
          <5>1. ~Active(t)
            BY <4>1, <4>2, <4>4, <2>6
          <5>2. \A i \in DOMAIN bound' : bound'[i].session # t
            <6>1. ASSUME NEW i \in DOMAIN bound', bound'[i].session = t
                  PROVE  FALSE
              <7>1. PICK m \in DOMAIN all \ {out} : bound'[i] = all[m]
                BY <2>8
              <7>2. all[m].session = all[out].session
                BY <6>1, <7>1, <4>1, <4>2, <4>4
              <7> QED
                BY <7>1, <7>2, <2>4, <1>5 DEF Distinct
            <6> QED
              BY <6>1
          <5> QED
            BY <5>1, <5>2, <2>9, BoundToIsNext
        <4> QED
          BY <4>3, <4>4
      <3> QED
        BY <3>1, <3>2
    <2>12. \A i \in DOMAIN bound' : bound'[i].grant \in DOMAIN grant
      BY <2>8, <1>12
    <2> QED
      BY <2>8, <2>9, <2>10, <2>11, <2>12 DEF Rebinds
  <1> QED
    BY <1>9, <1>10

-----------------------------------------------------------------------------
(* What one operation's step does to the operations *)

(* No other operation is at work on o's chat. *)
Alone(o) ==
    \A q \in Ops \ {o} :
       Inside(q) => op[q].session # op[o].session /\ op[q].lock # op[o].lock

LEMMA InsideAlone ==
    ASSUME LockInv, NEW o \in Ops, Inside(o) \/ LockFree(o)
    PROVE  Busy(o) /\ Alone(o)
  BY DEF LockInv, Busy, Inside, LockFree, Alone

(* o's record becomes next, and the session locks stay consistent. *)
Moved(o, next) ==
    /\ op' \in [Ops -> Op]
    /\ op'[o] = next
    /\ \A q \in Ops \ {o} : op'[q] = op[q]
    /\ registry' \in [Sessions -> Locks \cup {NoLock}]
    /\ LockInv'

(* next is a record of the same operation, or of none. *)
Fits(o, next) ==
    \/ next = Idle
    \/ /\ next.session = op[o].session /\ next.lock = op[o].lock
       /\ next.kind = op[o].kind /\ next.phase # "idle"

LEMMA IdleIsOp == Idle \in Op
  BY DEF Idle, Op, Kind, Phase, Reason

LEMMA LeavesMoves ==
    ASSUME TypeOK, LockInv, NEW o \in Ops, Busy(o), Leaves(o)
    PROVE  Moved(o, Idle)
  <1> DEFINE s == op[o].session
             l == op[o].lock
  <1>1. s \in Sessions /\ l \in Locks /\ registry[s] = l /\ l # NoLock
    BY SessionControlAssumption DEF LockInv
  <1>2. /\ op' \in [Ops -> Op] /\ op'[o] = Idle
        /\ \A q \in Ops \ {o} : op'[q] = op[q]
    BY IdleIsOp DEF Leaves, TypeOK
  <1>3. /\ registry' \in [Sessions -> Locks \cup {NoLock}]
        /\ \A t \in Sessions \ {s} : registry'[t] = registry[t]
        /\ registry'[s] = IF Unused(l, o) THEN NoLock ELSE l
    BY <1>1 DEF Leaves, TypeOK
  <1>4. Idle.phase = "idle"
    BY DEF Idle
  <1>5. \A q \in Ops : Busy(q)' => q # o /\ Busy(q)
    BY <1>2, <1>4 DEF Busy
  <1>6. ASSUME NEW q \in Ops, Busy(q)'
        PROVE  /\ op'[q].session \in Sessions /\ op'[q].lock \in Locks
               /\ registry'[op'[q].session] = op'[q].lock
    <2>1. /\ q # o /\ op'[q] = op[q]
          /\ op[q].session \in Sessions /\ op[q].lock \in Locks
          /\ registry[op[q].session] = op[q].lock
      BY <1>2, <1>5, <1>6 DEF LockInv
    <2>2. CASE op[q].session # s
      BY <2>1, <2>2, <1>3
    <2>3. CASE op[q].session = s
      BY <2>1, <2>3, <1>1, <1>3 DEF Unused
    <2> QED
      BY <2>2, <2>3
  <1>7. \A q \in Ops : ~Busy(q)' => op'[q] = Idle
    BY <1>2 DEF LockInv, Busy
  <1>8. ASSUME NEW t \in Sessions, registry'[t] # NoLock
        PROVE  \E q \in Ops : Busy(q)' /\ op'[q].session = t
    <2>1. CASE t # s
      <3>1. PICK q \in Ops : Busy(q) /\ op[q].session = t
        BY <2>1, <1>3, <1>8 DEF LockInv
      <3> QED
        BY <2>1, <3>1, <1>2 DEF Busy
    <2>2. CASE t = s
      <3>1. PICK q \in Ops \ {o} : op[q].lock = l
        BY <2>2, <1>3, <1>8 DEF Unused
      <3>2. Busy(q)
        BY <3>1, <1>1 DEF LockInv, Idle
      <3>3. op[q].session = s
        BY <3>1, <3>2, <1>1 DEF LockInv
      <3> QED
        BY <2>2, <3>1, <3>2, <3>3, <1>2 DEF Busy
    <2> QED
      BY <2>1, <2>2
  <1>9. ASSUME NEW t \in Sessions, NEW u \in Sessions,
               registry'[t] = registry'[u], registry'[t] # NoLock
        PROVE  t = u
    BY <1>1, <1>3, <1>9 DEF LockInv
  <1>10. ASSUME NEW p \in Ops, NEW q \in Ops, p # q, Inside(p)', Inside(q)'
         PROVE  op'[p].lock # op'[q].lock
    BY <1>2, <1>4, <1>10 DEF LockInv, Inside
  <1>11. LockInv'
    BY <1>6, <1>7, <1>8, <1>9, <1>10 DEF LockInv
  <1> QED
    BY <1>2, <1>3, <1>11 DEF Moved

LEMMA AwaitsMoves ==
    ASSUME TypeOK, LockInv, NEW o \in Ops, Busy(o), Alone(o),
           NEW next \in Op, next.session = op[o].session, next.lock = op[o].lock,
           next.phase # "idle", Awaits(o, next)
    PROVE  Moved(o, next)
  <1>1. /\ op' \in [Ops -> Op] /\ op'[o] = next /\ registry' = registry
        /\ \A q \in Ops \ {o} : op'[q] = op[q]
    BY DEF Awaits, TypeOK
  <1>2. \A q \in Ops : Busy(q)' <=> Busy(q)
    BY <1>1 DEF Busy
  <1>3. \A q \in Ops : op'[q].session = op[q].session /\ op'[q].lock = op[q].lock
    BY <1>1
  <1>4. \A q \in Ops : ~Busy(q) => op'[q] = op[q]
    BY <1>1
  <1>5. ASSUME NEW p \in Ops, NEW q \in Ops, p # q, Inside(p)', Inside(q)'
        PROVE  op'[p].lock # op'[q].lock
    BY <1>1, <1>3, <1>5 DEF LockInv, Inside, Alone
  <1>6. LockInv'
    BY <1>1, <1>2, <1>3, <1>4, <1>5 DEF LockInv
  <1> QED
    BY <1>1, <1>6 DEF Moved, TypeOK

-----------------------------------------------------------------------------
(* A step of an operation that leaves every child and the table alone *)

(* Grants are added at most, and what next names was signed. *)
Grows(next) ==
    /\ grant' \in Seq(Grant) /\ Len(grant') <= MaxGrants
    /\ DOMAIN grant \subseteq DOMAIN grant'
    /\ given' \subseteq DOMAIN grant'
    /\ next.grant \in DOMAIN grant' \cup {NoGrant}
    /\ next.prev \in DOMAIN grant' \cup {NoGrant}

(* What the next record must keep of the invariant when o's chat is then   *)
(* bound to g.                                                             *)
Sound(o, next, g) ==
    LET s == op[o].session IN
    /\ PhaseOK(next)
    /\ next.phase # "ending"
    /\ Clear(next) => ~Active(s)
    /\ ServesIf(s, g)
    /\ next # Idle => RecallsIf(next, g)
    /\ Answers(op[o]) /\ Active(s) => Answers(next)

(* Who awaits a child's end lets go of the table's lock with that end. *)
LetsGo(o) ==
    \/ op[o].phase # "ending" /\ stopper' = stopper
    \/ op[o].phase = "ending" /\ Ended(op[o].target) /\ stopper' = NoOp

LEMMA GrantSeq ==
    ASSUME Types
    PROVE  /\ grant \in Seq(Grant) /\ Len(grant) \in 0..MaxGrants
           /\ DOMAIN grant = 1..Len(grant)
           /\ DOMAIN grant \subseteq Grants
           /\ NoGrant \notin DOMAIN grant
  BY SessionControlAssumption DEF Types, TypeOK, Grants, NoGrant

LEMMA QuietTypes ==
    ASSUME Types, NEW o \in Ops, NEW next, NEW s, NEW g, Moved(o, next),
           Grows(next), Rebinds(s, g), LetsGo(o),
           UNCHANGED <<conn, slot, child>>
    PROVE  Types'
  <1>1. stopper' \in Ops \cup Children \cup {NoOp}
    BY DEF LetsGo, Types, TypeOK
  <1>2. DOMAIN grant' \subseteq Grants
    BY SessionControlAssumption DEF Grows, Grants
  <1>3. TypeOK'
    <2>1. op' \in [Ops -> Op] /\ registry' \in [Sessions -> Locks \cup {NoLock}]
      BY DEF Moved
    <2>2. bound' \in Seq(Binding) /\ Len(bound') <= MaxBindings
      BY DEF Rebinds
    <2>3. grant' \in Seq(Grant) /\ Len(grant') <= MaxGrants /\ given' \in SUBSET Grants
      BY <1>2 DEF Grows
    <2> QED
      BY <1>1, <2>1, <2>2, <2>3 DEF Types, TypeOK
  <1>4. \A q \in Ops : op'[q].grant \in Signed' /\ op'[q].prev \in Signed'
    BY DEF Grows, Moved, Types, GrantsSigned, Signed
  <1>5. \A i \in DOMAIN bound' : bound'[i].grant \in DOMAIN grant'
    BY DEF Grows, Rebinds
  <1>6. GrantsSigned'
    BY <1>4, <1>5 DEF GrantsSigned, Grows
  <1> QED
    BY <1>3, <1>6 DEF Types, Rebinds

LEMMA QuietTable ==
    ASSUME LockInv, ConnInv, TableInv, OldInv, LimitInv, TypeOK,
           NEW o \in Ops, NEW next, Busy(o), Moved(o, next), Fits(o, next),
           next.phase # "ending", LetsGo(o), UNCHANGED <<conn, slot, child>>
    PROVE  ConnInv' /\ TableInv' /\ OldInv' /\ LimitInv'
  <1>1. /\ op'[o] = next /\ (Busy(o)' => next.kind = op[o].kind)
        /\ \A q \in Ops \ {o} : op'[q] = op[q]
        /\ NoOp \notin Ops /\ NoOp \notin Children
    BY SessionControlAssumption DEF Moved, Fits, Busy, Idle
  <1>2. \A q \in Ops : op'[q].phase = "ending" <=> stopper' = q
    BY <1>1 DEF LetsGo, ConnInv
  <1>3. stopper' \in Children => conn' = "down"
    BY <1>1 DEF LetsGo, ConnInv
  <1>4. ConnInv'
    BY <1>1, <1>2, <1>3 DEF ConnInv, Busy
  <1>5. TableInv'
    BY DEF TableInv, NoLostChild
  <1>6. ASSUME NEW k \in Children, child[k].status = "stopping", ~child[k].old
        PROVE  stopper' \in Ops /\ op'[stopper'].target = k
    <2>1. stopper \in Ops /\ op[stopper].target = k
      BY <1>6 DEF OldInv
    <2>2. CASE op[o].phase # "ending" /\ stopper' = stopper
      BY <2>1, <2>2, <1>1 DEF ConnInv
    <2>3. CASE op[o].phase = "ending" /\ Ended(op[o].target)
      BY <2>1, <2>3, <1>6 DEF ConnInv, Ended
    <2> QED
      BY <2>2, <2>3 DEF LetsGo
  <1>7. OldInv'
    BY <1>6 DEF OldInv, OldChildrenStopped, Ended
  <1>8. LimitInv'
    BY DEF LimitInv, Actives, Active, Running
  <1> QED
    BY <1>4, <1>5, <1>7, <1>8

LEMMA QuietChat ==
    ASSUME LockInv, PhaseInv, ClearInv, AuditInv, BindingInv,
           NEW o \in Ops, NEW next, NEW s, NEW g, s = op[o].session,
           Busy(o), Alone(o), Moved(o, next), Fits(o, next), Rebinds(s, g),
           Sound(o, next, g), UNCHANGED <<conn, slot, child>>
    PROVE  PhaseInv' /\ ClearInv' /\ AuditInv' /\ BindingInv'
  <1>1. /\ op'[o] = next
        /\ \A q \in Ops \ {o} : op'[q] = op[q]
        /\ \A q \in Ops \ {o} : Inside(q) => op[q].session \in Sessions \ {s}
        /\ s \in Sessions
    BY DEF Moved, Alone, LockInv, Busy, Inside
  <1>2. \A t : Active(t)' <=> Active(t)
    BY DEF Active
  <1>3. next = Idle \/ next.session = s
    BY DEF Fits
  <1>4. PhaseInv'
    BY <1>1 DEF PhaseInv, Sound
  <1>5. \A q \in Ops \ {o} : Clear(op[q]) => ~Active(op[q].session)
    BY DEF ClearInv
  <1>6. Clear(next) => ~Active(next.session)
    <2>1. ~Clear(Idle)
      BY DEF Clear, Idle
    <2> QED
      BY <2>1, <1>3 DEF Sound
  <1>7. ClearInv'
    BY <1>1, <1>2, <1>5, <1>6 DEF ClearInv
  <1>8. ASSUME conn = "up", NEW t \in Sessions, Active(t), ~child[slot[t]].audited
        PROVE  \E q \in Ops : op'[q].session = t /\ Answers(op'[q])
    <2>1. PICK q \in Ops : op[q].session = t /\ Answers(op[q])
      BY <1>8 DEF AuditInv
    <2>2. CASE q # o
      BY <2>1, <2>2, <1>1
    <2>3. CASE q = o
      <3>1. Answers(next) /\ ~Answers(Idle)
        BY <2>1, <2>3, <1>8 DEF Sound, Answers, Idle
      <3> QED
        BY <2>1, <2>3, <3>1, <1>1, <1>3
    <2> QED
      BY <2>2, <2>3
  <1>9. AuditInv'
    BY <1>2, <1>8 DEF AuditInv
  <1>10. \A t \in Sessions \ {s} :
           BoundTo(t)' = BoundTo(t) \/ (~Active(t) /\ BoundTo(t)' = NoGrant)
    BY DEF Rebinds
  <1>11. BoundTo(s)' = g
    BY DEF Rebinds
  <1>12. ASSUME NEW t \in Sessions
         PROVE  ServesIf(t, BoundTo(t))'
    <2>1. CASE t = s
      <3>1. ServesIf(s, g)
        BY DEF Sound
      <3> QED
        BY <2>1, <3>1, <1>2, <1>11 DEF ServesIf
    <2>2. CASE t # s
      BY <2>2, <1>2, <1>10 DEF BindingInv, ServesIf
    <2> QED
      BY <2>1, <2>2
  <1>13. ASSUME NEW q \in Ops
         PROVE  RecallsIf(op[q], BoundTo(op[q].session))'
    <2>1. CASE q = o /\ next = Idle
      BY <2>1, <1>1 DEF RecallsIf, Idle
    <2>2. CASE q = o /\ next # Idle
      BY <2>2, <1>1, <1>2, <1>3, <1>11 DEF RecallsIf, Sound
    <2>3. CASE q # o /\ ~Inside(q)
      BY <2>3, <1>1 DEF RecallsIf, Inside
    <2>4. CASE q # o /\ Inside(q)
      <3> DEFINE t == op[q].session
      <3>1. t \in Sessions \ {s} /\ op'[q] = op[q] /\ Clear(op[q]) => ~Active(t)
        BY <2>4, <1>1, <1>5
      <3>2. BoundTo(t)' = BoundTo(t) \/ (~Active(t) /\ BoundTo(t)' = NoGrant)
        BY <2>4, <1>1, <1>10
      <3>3. RecallsIf(op[q], BoundTo(t))
        BY DEF BindingInv
      <3> QED
        BY <2>4, <3>1, <3>2, <3>3, <1>1, <1>2 DEF RecallsIf
    <2> QED
      BY <2>1, <2>2, <2>3, <2>4
  <1>14. BindingInv'
    BY <1>12, <1>13 DEF BindingInv
  <1> QED
    BY <1>4, <1>7, <1>9, <1>14

LEMMA Quiet ==
    ASSUME IInv, NEW o \in Ops, NEW next, NEW s, NEW g, s = op[o].session,
           Busy(o), Alone(o), Moved(o, next), Fits(o, next), Grows(next),
           Rebinds(s, g), Sound(o, next, g), LetsGo(o),
           UNCHANGED <<conn, slot, child>>
    PROVE  IInv'
  <1>1. Types'
    BY QuietTypes DEF IInv
  <1>2. ConnInv' /\ TableInv' /\ OldInv' /\ LimitInv'
    <2>1. TypeOK /\ next.phase # "ending"
      BY DEF IInv, Types, Sound
    <2> QED
      BY <2>1, QuietTable DEF IInv
  <1>3. PhaseInv' /\ ClearInv' /\ AuditInv' /\ BindingInv'
    BY QuietChat DEF IInv
  <1>4. LockInv'
    BY DEF Moved
  <1> QED
    BY <1>1, <1>2, <1>3, <1>4 DEF IInv

(* The operation ends there. *)
LEMMA QuietLeaves ==
    ASSUME IInv, NEW o \in Ops, NEW s, NEW g, s = op[o].session,
           Inside(o) \/ LockFree(o), Leaves(o), Rebinds(s, g), ServesIf(s, g),
           Answers(op[o]) => ~Active(s), LetsGo(o), given' \subseteq DOMAIN grant,
           UNCHANGED <<conn, slot, child, grant>>
    PROVE  IInv'
  <1>1. Busy(o) /\ Alone(o)
    BY InsideAlone DEF IInv
  <1>2. Moved(o, Idle)
    BY <1>1, LeavesMoves DEF IInv, Types
  <1>3. Fits(o, Idle)
    BY DEF Fits
  <1>4. Grows(Idle)
    <2>1. grant \in Seq(Grant) /\ Len(grant) <= MaxGrants
      BY DEF IInv, Types, TypeOK
    <2> QED
      BY <2>1 DEF Grows, Idle
  <1>5. Sound(o, Idle, g)
    <2>1. /\ PhaseOK(Idle) /\ ~Clear(Idle) /\ Idle.phase # "ending"
      BY DEF PhaseOK, Clear, Idle, Restores
    <2> QED
      BY <2>1 DEF Sound
  <1> QED
    BY <1>1, <1>2, <1>3, <1>4, <1>5, Quiet

LEMMA GivesUp ==
    ASSUME IInv, NEW o \in Ops, Inside(o) \/ LockFree(o), Leaves(o),
           ~Answers(op[o]), op[o].phase # "ending",
           UNCHANGED <<conn, stopper, bound, slot, child, grants>>
    PROVE  IInv'
  <1> DEFINE s == op[o].session
  <1>1. s \in Sessions
    BY DEF IInv, LockInv, Inside, LockFree, Busy
  <1>2. PICK t \in Sessions : t = s
    BY <1>1
  <1>3. Rebinds(t, BoundTo(t))
    BY SameRebinds DEF IInv
  <1>4. ServesIf(t, BoundTo(t))
    BY DEF IInv, BindingInv
  <1>5. LetsGo(o)
    BY DEF LetsGo
  <1>6. given' \subseteq DOMAIN grant /\ UNCHANGED grant
    BY DEF IInv, Types, GrantsSigned, grants
  <1> QED
    BY <1>2, <1>3, <1>4, <1>5, <1>6, QuietLeaves

(* The operation goes on. *)
LEMMA QuietAwaits ==
    ASSUME IInv, NEW o \in Ops, NEW s, NEW g, s = op[o].session,
           Inside(o) \/ LockFree(o), NEW next \in Op,
           next.session = op[o].session, next.lock = op[o].lock,
           next.kind = op[o].kind, next.phase # "idle",
           Awaits(o, next), Grows(next), Rebinds(s, g), Sound(o, next, g),
           LetsGo(o), UNCHANGED <<conn, slot, child>>
    PROVE  IInv'
  <1>1. Busy(o) /\ Alone(o)
    BY InsideAlone DEF IInv
  <1>2. Moved(o, next)
    BY <1>1, AwaitsMoves DEF IInv, Types
  <1>3. Fits(o, next)
    BY DEF Fits
  <1> QED
    BY <1>1, <1>2, <1>3, Quiet

(* It goes on, and the table of bindings and the grants stay. *)
LEMMA GoesOn ==
    ASSUME IInv, NEW o \in Ops, Inside(o) \/ LockFree(o), NEW next \in Op,
           next.session = op[o].session, next.lock = op[o].lock,
           next.kind = op[o].kind, next.phase # "idle",
           next.grant \in Signed, next.prev \in Signed,
           Awaits(o, next), Sound(o, next, BoundTo(op[o].session)),
           op[o].phase # "ending",
           UNCHANGED <<conn, stopper, bound, slot, child, grants>>
    PROVE  IInv'
  <1> DEFINE s == op[o].session
  <1>1. s \in Sessions
    BY DEF IInv, LockInv, Inside, LockFree, Busy
  <1>2. PICK t \in Sessions : t = s
    BY <1>1
  <1>3. Rebinds(t, BoundTo(t))
    BY SameRebinds DEF IInv
  <1>4. LetsGo(o)
    BY DEF LetsGo
  <1>5. Grows(next)
    BY DEF Grows, IInv, Types, TypeOK, GrantsSigned, grants, Signed
  <1> QED
    BY <1>2, <1>3, <1>4, <1>5, QuietAwaits

-----------------------------------------------------------------------------
(* The steps that leave every child alone *)

LEMMA OpFacts ==
    ASSUME IInv, NEW o \in Ops, Inside(o) \/ LockFree(o)
    PROVE  /\ op[o] \in Op /\ op[o].session \in Sessions
           /\ op[o].grant \in Signed /\ op[o].prev \in Signed
           /\ PhaseOK(op[o])
           /\ ServesIf(op[o].session, BoundTo(op[o].session))
           /\ RecallsIf(op[o], BoundTo(op[o].session))
           /\ Clear(op[o]) => ~Active(op[o].session)
  <1>1. op[o] \in Op /\ op[o].grant \in Signed /\ op[o].prev \in Signed
    BY DEF IInv, Types, TypeOK, GrantsSigned
  <1>2. op[o].session \in Sessions
    BY DEF IInv, LockInv, Inside, LockFree, Busy
  <1> QED
    BY <1>1, <1>2 DEF IInv, PhaseInv, BindingInv, ClearInv

LEMMA BoundToSigned ==
    ASSUME Types, NEW s
    PROVE  BoundTo(s) \in Signed
  BY BoundToIs DEF Types, GrantsSigned, Signed

LEMMA AttachEntersKeeps ==
    ASSUME IInv, NEW o \in Ops, AttachEnters(o)
    PROVE  IInv'
  <1>1. LockFree(o) /\ op[o].kind = "attach" /\ op[o].phase = "lock"
    BY DEF AttachEnters, LockFree
  <1>2. CASE ~MayAttach(op[o].session)
    BY <1>1, <1>2, GivesUp DEF AttachEnters, Answers, Restores
  <1>3. CASE MayAttach(op[o].session)
    <2> DEFINE n == [op[o] EXCEPT !.phase = "resolving"]
    <2>1. /\ n \in Op /\ n.phase = "resolving" /\ n.kind = op[o].kind
          /\ n.session = op[o].session /\ n.lock = op[o].lock
          /\ n.grant = op[o].grant /\ n.prev = op[o].prev
          /\ n.replaced = op[o].replaced
      BY <1>1, OpFacts DEF Op, Phase
    <2>2. Awaits(o, n)
      BY <1>3 DEF AttachEnters
    <2> HIDE DEF n
    <2>3. PhaseOK(n)
      BY <1>1, <2>1, OpFacts DEF PhaseOK, Restores
    <2>4. Sound(o, n, BoundTo(op[o].session))
      <3>1. RecallsIf(n, BoundTo(op[o].session)) /\ ~Answers(op[o])
        BY <1>1, <2>1 DEF RecallsIf, Restores, Answers
      <3> QED
        BY <1>1, <1>3, <2>1, <2>3, <3>1, OpFacts DEF Sound, MayAttach
    <2> QED
      BY <1>1, <2>1, <2>2, <2>4, OpFacts, GoesOn DEF AttachEnters
  <1> QED
    BY <1>2, <1>3

LEMMA AttachResolvedKeeps ==
    ASSUME IInv, NEW o \in Ops, AttachResolved(o)
    PROVE  IInv'
  <1>1. /\ op[o].phase = "resolving" /\ Inside(o)
        /\ op[o].kind = "attach" /\ ~Active(op[o].session)
    <2>1. op[o].phase = "resolving" /\ Inside(o)
      BY DEF AttachResolved, Inside
    <2> QED
      BY <2>1, OpFacts DEF PhaseOK, Clear
  <1>2. PICK s \in Sessions : s = op[o].session
    BY <1>1, OpFacts
  <1>3. PICK r \in Roots :
          grant' = Append(grant, [session |-> s, root |-> r,
                                  revision |-> Revision(BoundTo(s)) + 1])
    BY <1>2 DEF AttachResolved
  <1>4. Revision(BoundTo(s)) \in Nat
    <2>1. grant \in Seq(Grant) /\ BoundTo(s) \in DOMAIN grant \cup {NoGrant}
      BY BoundToSigned DEF IInv, Types, TypeOK, Signed
    <2>2. \A g \in DOMAIN grant : grant[g].revision \in Nat
      <3>1. \A g \in DOMAIN grant : grant[g] \in Grant
        BY GrantSeq, ElementOfSeq DEF IInv
      <3> QED
        BY <3>1 DEF Grant
    <2> QED
      BY <2>1, <2>2 DEF Revision
  <1>5. /\ grant' \in Seq(Grant) /\ Len(grant') = Len(grant) + 1
        /\ Len(grant') <= MaxGrants
        /\ DOMAIN grant \subseteq DOMAIN grant' /\ Len(grant') \in DOMAIN grant'
    <2> DEFINE e == [session |-> s, root |-> r,
                     revision |-> Revision(BoundTo(s)) + 1]
    <2>1. e \in Grant
      BY <1>4 DEF Grant
    <2>2. grant \in Seq(Grant) /\ Len(grant) < MaxGrants
      BY DEF AttachResolved, IInv, Types, TypeOK
    <2> HIDE DEF e
    <2>3. grant' = Append(grant, e)
      BY <1>3 DEF e
    <2> QED
      BY <2>1, <2>2, <2>3, SessionControlAssumption
  <1> DEFINE n == [op[o] EXCEPT !.phase = "issuing", !.grant = Len(grant')]
  <1>6. Len(grant') \in Grants
    BY <1>5, SessionControlAssumption DEF Grants, IInv, Types, TypeOK
  <1>7. /\ n \in Op /\ n.phase = "issuing" /\ n.kind = op[o].kind
        /\ n.session = op[o].session /\ n.lock = op[o].lock
        /\ n.grant = Len(grant') /\ n.prev = op[o].prev
        /\ n.replaced = op[o].replaced
    BY <1>1, <1>6, OpFacts DEF Op, Phase
  <1>8. Awaits(o, n)
    BY DEF AttachResolved
  <1> HIDE DEF n
  <1>9. n.grant # NoGrant
    BY <1>6, <1>7, SessionControlAssumption DEF Grants, NoGrant
  <1>10. PhaseOK(n)
    BY <1>1, <1>7, <1>9, OpFacts DEF PhaseOK, Restores
  <1>11. Sound(o, n, BoundTo(s))
    <2>1. RecallsIf(n, BoundTo(s)) /\ ~Answers(op[o])
      BY <1>1, <1>7 DEF RecallsIf, Restores, Answers
    <2> QED
      BY <1>1, <1>2, <1>7, <1>10, <2>1, OpFacts DEF Sound
  <1>12. Grows(n)
    BY <1>1, <1>5, <1>7, OpFacts DEF Grows, AttachResolved, IInv, Types, GrantsSigned, Signed
  <1>13. Rebinds(s, BoundTo(s))
    BY SameRebinds DEF AttachResolved, IInv
  <1>14. LetsGo(o)
    BY <1>1 DEF LetsGo, AttachResolved
  <1> QED
    BY <1>1, <1>2, <1>7, <1>8, <1>11, <1>12, <1>13, <1>14, QuietAwaits DEF AttachResolved

LEMMA AttachAuditedKeeps ==
    ASSUME IInv, NEW o \in Ops, AttachAudited(o)
    PROVE  IInv'
  <1>1. op[o].phase = "issuing" /\ Inside(o)
    BY DEF AttachAudited, Inside
  <1>2. ~Active(op[o].session) /\ op[o].grant \in DOMAIN grant
    BY <1>1, OpFacts DEF PhaseOK, Clear, Signed
  <1>3. PICK s \in Sessions : s = op[o].session
    BY <1>1, OpFacts
  <1>4. Rebinds(s, op[o].grant)
    BY <1>2, <1>3, RememberRebinds DEF AttachAudited, IInv, LimitInv
  <1>5. LetsGo(o)
    BY <1>1 DEF LetsGo, AttachAudited
  <1>6. ServesIf(s, op[o].grant)
    BY <1>2, <1>3 DEF ServesIf
  <1>7. given' \subseteq DOMAIN grant
    BY <1>2 DEF AttachAudited, IInv, Types, GrantsSigned
  <1> QED
    BY <1>1, <1>2, <1>3, <1>4, <1>5, <1>6, <1>7, QuietLeaves DEF AttachAudited

LEMMA ActivateEntersKeeps ==
    ASSUME IInv, NEW o \in Ops, ActivateEnters(o)
    PROVE  IInv'
  <1> DEFINE g == BoundTo(op[o].session)
             n == [op[o] EXCEPT !.phase = "verifying", !.grant = g]
  <1>1. LockFree(o) /\ op[o].kind = "activate" /\ op[o].phase = "lock"
    BY DEF ActivateEnters, LockFree
  <1>2. CASE Leaves(o)
    BY <1>1, <1>2, GivesUp DEF ActivateEnters, Answers
  <1>3. CASE g # NoGrant /\ Awaits(o, n)
    <2>1. g \in Signed /\ g \in Grants \cup {NoGrant}
      BY BoundToSigned, GrantSeq DEF IInv, Signed
    <2> HIDE DEF g
    <2>2. /\ n \in Op /\ n.phase = "verifying" /\ n.kind = op[o].kind
          /\ n.session = op[o].session /\ n.lock = op[o].lock
          /\ n.grant = g /\ n.prev = op[o].prev
          /\ n.replaced = op[o].replaced /\ n.fresh = op[o].fresh
      BY <1>1, <2>1, OpFacts DEF Op, Phase
    <2>3. Awaits(o, n) /\ g # NoGrant
      BY <1>3
    <2> HIDE DEF n
    <2>4. PhaseOK(n)
      BY <1>1, <2>2, <2>3, OpFacts DEF PhaseOK, Restores
    <2>5. Sound(o, n, g)
      <3>1. RecallsIf(n, g) /\ ~Answers(op[o])
        BY <1>1, <2>2 DEF RecallsIf, Answers
      <3>2. ServesIf(op[o].session, g)
        BY <1>1, OpFacts DEF g
      <3> QED
        BY <1>1, <2>2, <2>4, <3>1, <3>2 DEF Sound, Clear
    <2>6. Sound(o, n, BoundTo(op[o].session))
      BY <2>5 DEF g
    <2> QED
      BY <1>1, <2>1, <2>2, <2>3, <2>6, OpFacts, GoesOn DEF ActivateEnters
  <1> QED
    BY <1>2, <1>3 DEF ActivateEnters

LEMMA RestoreEntersKeeps ==
    ASSUME IInv, NEW o \in Ops, RestoreEnters(o)
    PROVE  IInv'
  <1> DEFINE n == [op[o] EXCEPT !.phase = "verifying"]
  <1>1. LockFree(o) /\ op[o].kind = "restore" /\ op[o].phase = "lock"
    BY DEF RestoreEnters, LockFree
  <1>2. /\ n \in Op /\ n.phase = "verifying" /\ n.kind = op[o].kind
        /\ n.session = op[o].session /\ n.lock = op[o].lock
        /\ n.grant = op[o].grant /\ n.prev = op[o].prev
        /\ n.replaced = op[o].replaced /\ n.fresh = op[o].fresh
    BY <1>1, OpFacts DEF Op, Phase
  <1>3. Awaits(o, n)
    BY DEF RestoreEnters
  <1> HIDE DEF n
  <1>4. PhaseOK(n)
    BY <1>1, <1>2, OpFacts DEF PhaseOK, Restores
  <1>5. Sound(o, n, BoundTo(op[o].session))
    <2>1. RecallsIf(n, BoundTo(op[o].session)) /\ ~Answers(op[o])
      BY <1>1, <1>2 DEF RecallsIf, Answers
    <2> QED
      BY <1>1, <1>2, <1>4, <2>1, OpFacts DEF Sound, Clear
  <1> QED
    BY <1>1, <1>2, <1>3, <1>5, OpFacts, GoesOn DEF RestoreEnters

(* Binding the chat to o's grant, when a running child serves it already.  *)
LEMMA BindsKeeps ==
    ASSUME IInv, NEW o \in Ops, Restores(op[o]), op[o].phase = "verifying",
           Active(op[o].session) => BoundTo(op[o].session) = op[o].grant,
           Binds(o, BoundTo(op[o].session), ~Active(op[o].session)),
           UNCHANGED <<conn, stopper, slot, child, grants>>
    PROVE  IInv'
  <1> DEFINE cur == BoundTo(op[o].session)
             fresh == ~Active(op[o].session)
             p == IF fresh THEN "start" ELSE "auditing"
             n == [op[o] EXCEPT !.prev = cur, !.fresh = fresh, !.phase = p]
  <1>1. Inside(o)
    BY DEF Inside
  <1>2. op[o].grant \in DOMAIN grant
    BY <1>1, OpFacts DEF PhaseOK, Signed, Restores
  <1>3. PICK s \in Sessions : s = op[o].session
    BY <1>1, OpFacts
  <1>4. Rebinds(s, op[o].grant)
    <2>1. bound' = Remembered(s, op[o].grant)
      BY <1>3 DEF Binds
    <2> QED
      BY <1>2, <2>1, RememberRebinds DEF IInv, LimitInv
  <1>5. cur \in Signed /\ cur \in Grants \cup {NoGrant}
    BY BoundToSigned, GrantSeq DEF IInv, Signed
  <1>6. fresh \in BOOLEAN /\ (fresh => ~Active(s)) /\ (~fresh => Active(s) /\ cur = op[o].grant)
    BY <1>3
  <1>7. Awaits(o, n)
    BY DEF Binds
  <1>8. ServesIf(s, cur)
    BY <1>1, <1>3, OpFacts
  <1> HIDE DEF cur, fresh
  <1>9. p \in {"start", "auditing"} /\ (p = "start" <=> fresh)
    BY <1>6
  <1> HIDE DEF p
  <1>10. /\ n \in Op /\ n.phase = p /\ n.kind = op[o].kind
         /\ n.session = op[o].session /\ n.lock = op[o].lock
         /\ n.grant = op[o].grant /\ n.prev = cur
         /\ n.replaced = op[o].replaced /\ n.fresh = fresh
    BY <1>1, <1>5, <1>6, <1>9, OpFacts DEF Op, Phase
  <1> HIDE DEF n
  <1>11. PhaseOK(n)
    <2>1. /\ n.phase = "auditing" /\ Restores(n) /\ ~n.fresh =>
               n.replaced = "no" /\ n.prev \in {n.grant, NoGrant}
          /\ n.phase = "start" => n.fresh
          /\ n.phase \in {"verifying", "start", "restart"} => Restores(n)
          /\ n.grant # NoGrant /\ n.replaced # "unaudited"
      BY <1>1, <1>2, <1>6, <1>9, <1>10, OpFacts, GrantSeq DEF PhaseOK, Restores, IInv
    <2> QED
      BY <1>1, <1>9, <1>10, <2>1, OpFacts DEF PhaseOK, Restores
  <1>12. Sound(o, n, op[o].grant)
    <2>1. ServesIf(s, op[o].grant)
      BY <1>6, <1>8 DEF ServesIf
    <2>2. RecallsIf(n, op[o].grant)
      <3>1. Active(s) => child[slot[s]].grant = op[o].grant
        BY <1>2, <2>1, GrantSeq DEF ServesIf, IInv
      <3> QED
        BY <1>3, <1>9, <1>10, <3>1 DEF RecallsIf
    <2>3. ~Answers(op[o])
      BY DEF Answers
    <2>4. Clear(n) => ~Active(s)
      BY <1>6, <1>9, <1>10 DEF Clear, Restores
    <2> QED
      BY <1>3, <1>9, <1>10, <1>11, <2>1, <2>2, <2>3, <2>4 DEF Sound
  <1>13. Grows(n)
    BY <1>1, <1>5, <1>10, OpFacts DEF Grows, IInv, Types, TypeOK, GrantsSigned, grants, Signed
  <1>14. LetsGo(o)
    BY DEF LetsGo
  <1> QED
    BY <1>1, <1>3, <1>4, <1>7, <1>9, <1>10, <1>12, <1>13, <1>14, QuietAwaits

LEMMA ActivateVerifiedKeeps ==
    ASSUME IInv, NEW o \in Ops, ActivateVerified(o)
    PROVE  IInv'
  <1>1. Inside(o) /\ op[o].kind = "activate" /\ op[o].phase = "verifying"
    BY DEF ActivateVerified, Inside
  <1>2. Active(op[o].session) => BoundTo(op[o].session) = op[o].grant
    BY <1>1, OpFacts DEF RecallsIf
  <1> QED
    BY <1>1, <1>2, BindsKeeps DEF ActivateVerified, Restores

(* A child that runs while its operation verifies a grant was audited. *)
LEMMA RestoreVerifiedKeeps ==
    ASSUME IInv, NEW o \in Ops, RestoreVerified(o)
    PROVE  IInv'
  <1>1. Inside(o) /\ op[o].kind = "restore" /\ op[o].phase = "verifying"
    BY DEF RestoreVerified, Inside
  <1>2. CASE ~Replaces(op[o].session, op[o].grant)
    BY <1>1, <1>2, BindsKeeps DEF RestoreVerified, Restores, Replaces
  <1>3. CASE Replaces(op[o].session, op[o].grant)
    <2> DEFINE s == op[o].session
               cur == BoundTo(s)
               rep == IF child[slot[s]].audited THEN "audited" ELSE "unaudited"
               n == [ToStop(o, "replace") EXCEPT !.prev = cur, !.replaced = rep]
    <2>1. Awaits(o, n) /\ UNCHANGED bound
      BY <1>3 DEF RestoreVerified
    <2>2. cur \in Signed /\ cur \in Grants \cup {NoGrant}
      BY BoundToSigned, GrantSeq DEF IInv, Signed
    <2>3. child[slot[s]].audited
      <3>1. Active(s) /\ s \in Sessions
        BY <1>1, <1>3, OpFacts DEF Replaces
      <3>2. conn = "up"
        BY <1>1 DEF IInv, ConnInv, Types, TypeOK, Busy
      <3>3. Alone(o)
        BY <1>1, InsideAlone DEF IInv
      <3>4. ~\E q \in Ops : op[q].session = s /\ Answers(op[q])
        BY <1>1, <3>3 DEF Alone, Answers, Inside
      <3> QED
        BY <3>1, <3>2, <3>4 DEF IInv, AuditInv
    <2>4. rep = "audited"
      BY <2>3
    <2> HIDE DEF cur, rep
    <2>5. /\ n \in Op /\ n.phase = "stop" /\ n.kind = op[o].kind /\ n.why = "replace"
          /\ n.session = op[o].session /\ n.lock = op[o].lock
          /\ n.grant = op[o].grant /\ n.prev = cur
          /\ n.replaced = "audited" /\ n.fresh = op[o].fresh
      BY ZenonT(40), <1>1, <2>2, <2>4, OpFacts DEF Op, Phase, Reason, ToStop
    <2> HIDE DEF n
    <2>6. PhaseOK(n)
      BY <1>1, <2>5, OpFacts DEF PhaseOK, Restores
    <2>7. Sound(o, n, BoundTo(op[o].session))
      <3>1. RecallsIf(n, BoundTo(op[o].session)) /\ ~Answers(op[o])
        BY <1>1, <2>5 DEF RecallsIf, Answers
      <3> QED
        BY <1>1, <2>5, <2>6, <3>1, OpFacts DEF Sound, Clear
    <2> QED
      BY <1>1, <2>1, <2>2, <2>5, <2>7, OpFacts, GoesOn DEF RestoreVerified
  <1> QED
    BY <1>2, <1>3

(* Undoing: nothing runs, or the child that runs serves the old binding.   *)
LEMMA UndoneKeeps ==
    ASSUME IInv, NEW o \in Ops, Inside(o), Restores(op[o]), Undone(o), LetsGo(o),
           op[o].phase # "lock",
           \/ ~Active(op[o].session)
           \/ /\ op[o].replaced = "no" /\ op[o].prev \in {op[o].grant, NoGrant}
              /\ op[o].phase = "auditing" /\ ~Answers(op[o]),
           UNCHANGED <<conn, slot, child, grants>>
    PROVE  IInv'
  <1>1. PICK s \in Sessions : s = op[o].session
    BY OpFacts
  <1>2. given' \subseteq DOMAIN grant /\ UNCHANGED grant
    BY DEF grants, IInv, Types, GrantsSigned
  <1>3. Answers(op[o]) => ~Active(s)
    BY <1>1
  <1>4. CASE op[o].prev = NoGrant
    <2>1. bound' = Forgotten(s) /\ Leaves(o)
      BY <1>1, <1>4 DEF Undone
    <2>2. Rebinds(s, NoGrant)
      BY <2>1, ForgetRebinds DEF IInv
    <2>3. ServesIf(s, NoGrant)
      BY DEF ServesIf
    <2> QED
      BY <1>1, <1>2, <1>3, <2>1, <2>2, <2>3, QuietLeaves
  <1>5. CASE op[o].prev # NoGrant
    <2>1. bound' = Remembered(s, op[o].prev)
      BY <1>1, <1>5 DEF Undone
    <2>2. op[o].prev \in DOMAIN grant
      BY <1>5, OpFacts DEF Signed
    <2>3. Rebinds(s, op[o].prev)
      BY <2>1, <2>2, RememberRebinds DEF IInv, LimitInv
    <2>4. ServesIf(s, op[o].prev)
      <3>1. Active(s) => child[slot[s]].grant = op[o].grant /\ op[o].prev = op[o].grant
        BY <1>1, <1>5, OpFacts DEF RecallsIf
      <3> QED
        BY <3>1 DEF ServesIf
    <2>5. CASE op[o].replaced = "no"
      <3>1. Leaves(o)
        BY <1>5, <2>5 DEF Undone
      <3> QED
        BY <1>1, <1>2, <1>3, <2>3, <2>4, <3>1, QuietLeaves
    <2>6. CASE op[o].replaced # "no"
      <3> DEFINE n == [op[o] EXCEPT !.phase = "restart", !.why = "none",
                                    !.target = NoChild]
      <3>1. Awaits(o, n)
        BY <1>5, <2>6 DEF Undone
      <3>2. /\ n \in Op /\ n.phase = "restart" /\ n.kind = op[o].kind
            /\ n.session = op[o].session /\ n.lock = op[o].lock
            /\ n.grant = op[o].grant /\ n.prev = op[o].prev
            /\ n.replaced = op[o].replaced /\ n.fresh = op[o].fresh
        BY ZenonT(40), OpFacts DEF Op, Phase, Reason
      <3> HIDE DEF n
      <3>3. PhaseOK(n)
        <4>1. n.replaced = "audited"
          BY <2>6, <3>2, OpFacts DEF PhaseOK, Op
        <4> QED
          BY <1>5, <3>2, <4>1, OpFacts DEF PhaseOK, Restores
      <3>4. ~Active(s)
        BY <1>1, <2>6
      <3>5. Sound(o, n, op[o].prev)
        <4>1. RecallsIf(n, op[o].prev)
          BY <3>2 DEF RecallsIf
        <4> QED
          BY <1>1, <3>2, <3>3, <3>4, <4>1, <2>4 DEF Sound
      <3>6. Grows(n)
        BY <3>2, OpFacts DEF Grows, IInv, Types, TypeOK, GrantsSigned, grants, Signed
      <3> QED
        BY <1>1, <2>3, <3>1, <3>2, <3>5, <3>6, QuietAwaits
    <2> QED
      BY <2>5, <2>6
  <1> QED
    BY <1>4, <1>5

LEMMA StartFailsKeeps ==
    ASSUME IInv, NEW o \in Ops, StartFails(o)
    PROVE  IInv'
  <1>1. /\ Inside(o) /\ Restores(op[o]) /\ op[o].phase \in {"start", "auditing"}
        /\ op[o].phase = "start" => op[o].fresh
    <2>1. Inside(o) /\ op[o].phase \in {"start", "auditing"}
      BY DEF StartFails, Inside
    <2> QED
      BY <2>1, OpFacts DEF StartFails, PhaseOK, Restores
  <1>2. CASE MustUndo(o)
    <2> DEFINE n == ToStop(o, "undo")
    <2>1. Awaits(o, n) /\ UNCHANGED bound
      BY <1>2 DEF StartFails
    <2>2. /\ n \in Op /\ n.phase = "stop" /\ n.kind = op[o].kind /\ n.why = "undo"
          /\ n.session = op[o].session /\ n.lock = op[o].lock
          /\ n.grant = op[o].grant /\ n.prev = op[o].prev
          /\ n.replaced = op[o].replaced /\ n.fresh
      BY ZenonT(40), <1>1, <1>2, OpFacts DEF Op, Phase, Reason, ToStop, MustUndo
    <2> HIDE DEF n
    <2>3. PhaseOK(n)
      BY <1>1, <2>2, OpFacts DEF PhaseOK, Restores
    <2>4. Sound(o, n, BoundTo(op[o].session))
      <3>1. RecallsIf(n, BoundTo(op[o].session)) /\ Answers(n) /\ ~Clear(n)
        BY <1>1, <2>2 DEF RecallsIf, Answers, Restores, Clear
      <3> QED
        BY <1>1, <2>2, <2>3, <3>1, OpFacts DEF Sound
    <2> QED
      BY <1>1, <2>1, <2>2, <2>4, OpFacts, GoesOn DEF StartFails
  <1>3. CASE ~MustUndo(o)
    <2>1. Undone(o) /\ op[o].phase = "auditing" /\ ~op[o].fresh
      BY <1>1, <1>3 DEF StartFails, MustUndo
    <2>2. op[o].replaced = "no" /\ op[o].prev \in {op[o].grant, NoGrant}
      BY <1>1, <2>1, OpFacts DEF PhaseOK
    <2>3. ~Answers(op[o])
      BY <2>1 DEF Answers
    <2>4. LetsGo(o)
      BY <2>1 DEF LetsGo, StartFails
    <2> QED
      BY <1>1, <2>1, <2>2, <2>3, <2>4, UndoneKeeps DEF StartFails
  <1> QED
    BY <1>2, <1>3

LEMMA DetachEntersKeeps ==
    ASSUME IInv, NEW o \in Ops, DetachEnters(o)
    PROVE  IInv'
  <1> DEFINE n == ToStop(o, "detach")
  <1>1. LockFree(o) /\ op[o].kind = "detach" /\ op[o].phase = "lock" /\ Awaits(o, n)
    BY DEF DetachEnters, LockFree
  <1>2. /\ n \in Op /\ n.phase = "stop" /\ n.kind = op[o].kind /\ n.why = "detach"
        /\ n.session = op[o].session /\ n.lock = op[o].lock
        /\ n.grant = op[o].grant /\ n.prev = op[o].prev
        /\ n.replaced = op[o].replaced
    BY <1>1, OpFacts DEF Op, Phase, Reason, ToStop
  <1> HIDE DEF n
  <1>3. PhaseOK(n)
    BY <1>1, <1>2, OpFacts DEF PhaseOK, Restores
  <1>4. Sound(o, n, BoundTo(op[o].session))
    <2>1. RecallsIf(n, BoundTo(op[o].session)) /\ ~Answers(op[o]) /\ ~Clear(n)
      BY <1>1, <1>2 DEF RecallsIf, Answers, Restores, Clear
    <2> QED
      BY <1>1, <1>2, <1>3, <2>1, OpFacts DEF Sound
  <1> QED
    BY <1>1, <1>2, <1>4, OpFacts, GoesOn DEF DetachEnters

LEMMA DetachAuditedKeeps ==
    ASSUME IInv, NEW o \in Ops, DetachAudited(o)
    PROVE  IInv'
  <1>1. op[o].phase = "auditing" /\ Inside(o) /\ ~Answers(op[o])
    BY DEF DetachAudited, Inside, Answers, Restores
  <1>2. PICK s \in Sessions : s = op[o].session
    BY <1>1, OpFacts
  <1>3. Rebinds(s, NoGrant)
    BY <1>2, ForgetRebinds DEF DetachAudited, IInv
  <1>4. LetsGo(o)
    BY <1>1 DEF LetsGo, DetachAudited
  <1>5. ServesIf(s, NoGrant)
    BY DEF ServesIf
  <1>6. given' \subseteq DOMAIN grant /\ UNCHANGED grant
    BY DEF DetachAudited, grants, IInv, Types, GrantsSigned
  <1> QED
    BY <1>1, <1>2, <1>3, <1>4, <1>5, <1>6, QuietLeaves DEF DetachAudited

LEMMA ReapEntersKeeps ==
    ASSUME IInv, NEW o \in Ops, ReapEnters(o)
    PROVE  IInv'
  <1> DEFINE n == [op[o] EXCEPT !.phase = "auditing"]
  <1>1. LockFree(o) /\ op[o].kind = "reap" /\ op[o].phase = "lock"
    BY DEF ReapEnters, LockFree
  <1>2. CASE Leaves(o)
    BY <1>1, <1>2, GivesUp DEF ReapEnters, Answers
  <1>3. CASE Awaits(o, n)
    <2>1. /\ n \in Op /\ n.phase = "auditing" /\ n.kind = op[o].kind
          /\ n.session = op[o].session /\ n.lock = op[o].lock
          /\ n.grant = op[o].grant /\ n.prev = op[o].prev
          /\ n.replaced = op[o].replaced
      BY <1>1, OpFacts DEF Op, Phase
    <2>2. Awaits(o, n)
      BY <1>3
    <2> HIDE DEF n
    <2>3. PhaseOK(n)
      BY <1>1, <2>1, OpFacts DEF PhaseOK, Restores
    <2>4. Sound(o, n, BoundTo(op[o].session))
      <3>1. RecallsIf(n, BoundTo(op[o].session)) /\ ~Answers(op[o]) /\ ~Clear(n)
        BY <1>1, <2>1 DEF RecallsIf, Answers, Restores, Clear
      <3> QED
        BY <1>1, <2>1, <2>3, <3>1, OpFacts DEF Sound
    <2> QED
      BY <1>1, <2>1, <2>2, <2>4, OpFacts, GoesOn DEF ReapEnters
  <1> QED
    BY <1>2, <1>3 DEF ReapEnters

LEMMA ReapAuditedKeeps ==
    ASSUME IInv, NEW o \in Ops, ReapAudited(o)
    PROVE  IInv'
  <1> DEFINE n == ToStop(o, "reap")
  <1>1. Inside(o) /\ op[o].kind = "reap" /\ op[o].phase = "auditing" /\ Awaits(o, n)
    BY DEF ReapAudited, Inside
  <1>2. /\ n \in Op /\ n.phase = "stop" /\ n.kind = op[o].kind /\ n.why = "reap"
        /\ n.session = op[o].session /\ n.lock = op[o].lock
        /\ n.grant = op[o].grant /\ n.prev = op[o].prev
        /\ n.replaced = op[o].replaced
    BY <1>1, OpFacts DEF Op, Phase, Reason, ToStop
  <1> HIDE DEF n
  <1>3. PhaseOK(n)
    BY <1>1, <1>2, OpFacts DEF PhaseOK, Restores
  <1>4. Sound(o, n, BoundTo(op[o].session))
    <2>1. RecallsIf(n, BoundTo(op[o].session)) /\ ~Answers(op[o]) /\ ~Clear(n)
      BY <1>1, <1>2 DEF RecallsIf, Answers, Restores, Clear
    <2> QED
      BY <1>1, <1>2, <1>3, <2>1, OpFacts DEF Sound
  <1> QED
    BY <1>1, <1>2, <1>4, OpFacts, GoesOn DEF ReapAudited

LEMMA StoppedKeeps ==
    ASSUME IInv, NEW o \in Ops, op[o].phase \in {"stop", "ending"}, Stopped(o),
           ~Active(op[o].session), LetsGo(o),
           UNCHANGED <<conn, slot, child, grants>>
    PROVE  IInv'
  <1>1. Inside(o)
    BY DEF Inside
  <1>2. PICK s \in Sessions : s = op[o].session
    BY <1>1, OpFacts
  <1>3. given' \subseteq DOMAIN grant /\ UNCHANGED grant
    BY DEF grants, IInv, Types, GrantsSigned
  <1>4. CASE op[o].why = "replace" /\ bound' = Remembered(op[o].session, op[o].grant)
    <2> DEFINE n == [op[o] EXCEPT !.phase = "start", !.fresh = TRUE,
                                  !.why = "none", !.target = NoChild]
    <2>1. Restores(op[o]) /\ op[o].grant \in DOMAIN grant
      BY <1>1, <1>4, OpFacts DEF PhaseOK, Signed, Restores
    <2>2. Rebinds(s, op[o].grant)
      BY <1>2, <1>4, <2>1, RememberRebinds DEF IInv, LimitInv
    <2>3. Awaits(o, n)
      BY <1>4 DEF Stopped
    <2>4. /\ n \in Op /\ n.phase = "start" /\ n.kind = op[o].kind
          /\ n.session = op[o].session /\ n.lock = op[o].lock
          /\ n.grant = op[o].grant /\ n.prev = op[o].prev
          /\ n.replaced = op[o].replaced /\ n.fresh
      BY ZenonT(40), <1>1, OpFacts DEF Op, Phase, Reason
    <2> HIDE DEF n
    <2>5. PhaseOK(n)
      BY <1>1, <2>1, <2>4, OpFacts, GrantSeq DEF PhaseOK, Restores, IInv
    <2>6. Sound(o, n, op[o].grant)
      <3>1. RecallsIf(n, op[o].grant) /\ ServesIf(s, op[o].grant)
        BY <1>2, <2>4 DEF RecallsIf, ServesIf
      <3> QED
        BY <1>2, <2>4, <2>5, <3>1 DEF Sound
    <2>7. Grows(n)
      BY <1>1, <2>4, OpFacts DEF Grows, IInv, Types, TypeOK, GrantsSigned, grants, Signed
    <2> QED
      BY <1>1, <1>2, <2>2, <2>3, <2>4, <2>6, <2>7, QuietAwaits
  <1>5. CASE op[o].why = "detach"
    <2> DEFINE n == [op[o] EXCEPT !.phase = "auditing", !.why = "none",
                                  !.target = NoChild]
    <2>1. op[o].kind = "detach"
      BY <1>1, <1>5, OpFacts DEF PhaseOK
    <2>2. Awaits(o, n) /\ UNCHANGED bound
      BY <1>5 DEF Stopped
    <2>3. /\ n \in Op /\ n.phase = "auditing" /\ n.kind = op[o].kind
          /\ n.session = op[o].session /\ n.lock = op[o].lock
          /\ n.grant = op[o].grant /\ n.prev = op[o].prev
          /\ n.replaced = op[o].replaced
      BY ZenonT(40), <1>1, OpFacts DEF Op, Phase, Reason
    <2> HIDE DEF n
    <2>4. PhaseOK(n)
      BY <1>1, <2>1, <2>3, OpFacts DEF PhaseOK, Restores
    <2>5. Sound(o, n, BoundTo(s))
      <3>1. RecallsIf(n, BoundTo(s)) /\ ~Answers(op[o])
        BY <2>1, <2>3 DEF RecallsIf, Answers, Restores
      <3> QED
        BY <1>1, <1>2, <2>3, <2>4, <3>1, OpFacts DEF Sound
    <2>6. Grows(n)
      BY <1>1, <2>3, OpFacts DEF Grows, IInv, Types, TypeOK, GrantsSigned, grants, Signed
    <2>7. Rebinds(s, BoundTo(s))
      BY <2>2, SameRebinds DEF IInv
    <2> QED
      BY <1>1, <1>2, <2>2, <2>3, <2>5, <2>6, <2>7, QuietAwaits
  <1>6. CASE op[o].why = "reap" /\ Leaves(o) /\ UNCHANGED bound
    <2>1. Rebinds(s, BoundTo(s))
      BY <1>6, SameRebinds DEF IInv
    <2>2. ServesIf(s, BoundTo(s))
      BY <1>2 DEF ServesIf
    <2> QED
      BY <1>1, <1>2, <1>3, <1>6, <2>1, <2>2, QuietLeaves
  <1>7. CASE op[o].why = "undo" /\ Undone(o)
    <2>1. Restores(op[o])
      BY <1>1, <1>7, OpFacts DEF PhaseOK
    <2> QED
      BY <1>1, <1>7, <2>1, UndoneKeeps
  <1> QED
    BY <1>4, <1>5, <1>6, <1>7 DEF Stopped

LEMMA StopNothingKeeps ==
    ASSUME IInv, NEW o \in Ops, StopNothing(o)
    PROVE  IInv'
  BY StoppedKeeps DEF StopNothing, Active, LetsGo

LEMMA StopEndKeeps ==
    ASSUME IInv, NEW o \in Ops, StopEnd(o)
    PROVE  IInv'
  <1>1. op[o].phase = "ending" /\ Inside(o)
    BY DEF StopEnd, Inside
  <1>2. ~Active(op[o].session)
    BY <1>1, OpFacts DEF Clear
  <1>3. LetsGo(o)
    BY <1>1 DEF LetsGo, StopEnd, ReleasesLock
  <1> QED
    BY <1>1, <1>2, <1>3, StoppedKeeps DEF StopEnd

(* The steps that only give up. *)
LEMMA RefusalsKeep ==
    ASSUME IInv, NEW o \in Ops,
           \/ AttachRefused(o) \/ AttachUnaudited(o) \/ VerifyFails(o)
           \/ RestoreOutdated(o) \/ RestartFails(o) \/ StopUnaudited(o)
    PROVE  IInv'
  <1>1. /\ Leaves(o) /\ Inside(o) /\ op[o].phase # "ending"
        /\ UNCHANGED <<conn, stopper, bound, slot, child, grants>>
    BY DEF AttachRefused, AttachUnaudited, VerifyFails, RestoreOutdated,
           RestartFails, StopUnaudited, Inside
  <1>2. ~Answers(op[o])
    BY DEF AttachRefused, AttachUnaudited, VerifyFails, RestoreOutdated,
           RestartFails, StopUnaudited, Answers, Restores
  <1> QED
    BY <1>1, <1>2, GivesUp

-----------------------------------------------------------------------------
(* The steps of an operation that start, audit or stop a child *)

(* A step that changes nothing of another chat than s. *)
OnlyChat(s) ==
    /\ UNCHANGED bound
    /\ \A t \in Sessions \ {s} :
         /\ slot'[t] = slot[t]
         /\ slot[t] # NoChild => child'[slot[t]] = child[slot[t]]

(* What must then hold of s and of the operation at work on it. *)
Settles(s, next) ==
    /\ PhaseOK(next)
    /\ Clear(next) => ~Active(s)'
    /\ ServesIf(s, BoundTo(s))'
    /\ next # Idle => RecallsIf(next, BoundTo(s))'
    /\ Active(s)' /\ ~child'[slot'[s]].audited => Answers(next)

LEMMA ChatStep ==
    ASSUME LockInv, PhaseInv, ClearInv, AuditInv, BindingInv,
           NEW o \in Ops, NEW next, NEW s \in Sessions, s = op[o].session,
           Alone(o), Moved(o, next), Fits(o, next), OnlyChat(s),
           Settles(s, next), UNCHANGED conn
    PROVE  PhaseInv' /\ ClearInv' /\ AuditInv' /\ BindingInv'
  <1>1. /\ op'[o] = next
        /\ \A q \in Ops \ {o} : op'[q] = op[q]
        /\ \A q \in Ops \ {o} : Inside(q) => op[q].session \in Sessions \ {s}
    BY DEF Moved, Alone, LockInv, Busy, Inside
  <1>2. \A t \in Sessions \ {s} :
          /\ slot'[t] = slot[t]
          /\ Active(t)' <=> Active(t)
          /\ Active(t) => child'[slot'[t]] = child[slot[t]]
    BY DEF OnlyChat, Active
  <1>3. next = Idle \/ next.session = s
    BY DEF Fits
  <1>4. \A t : BoundTo(t)' = BoundTo(t)
    BY DEF OnlyChat, BoundTo, At
  <1>5. ~Clear(Idle) /\ ~Answers(Idle)
    BY DEF Clear, Answers, Restores, Idle
  <1>6. PhaseInv'
    BY <1>1 DEF PhaseInv, Settles
  <1>7. ASSUME NEW q \in Ops, Clear(op'[q])
        PROVE  ~Active(op[q].session)'
    <2>1. CASE q = o
      BY <2>1, <1>1, <1>3, <1>5, <1>7 DEF Settles
    <2>2. CASE q # o
      <3>1. Clear(op[q]) /\ Inside(q)
        BY <2>2, <1>1, <1>7 DEF Clear, Inside
      <3>2. PICK t \in Sessions \ {s} : t = op[q].session
        BY <2>2, <3>1, <1>1
      <3>3. ~Active(t)
        BY <3>1, <3>2 DEF ClearInv
      <3> QED
        BY <2>2, <3>2, <3>3, <1>1, <1>2
    <2> QED
      BY <2>1, <2>2
  <1>8. ClearInv'
    BY <1>7 DEF ClearInv
  <1>9. ASSUME conn = "up", NEW t \in Sessions, Active(t)',
               ~child'[slot'[t]].audited
        PROVE  \E q \in Ops : op'[q].session = t /\ Answers(op'[q])
    <2>1. CASE t = s
      BY <2>1, <1>1, <1>3, <1>5, <1>9 DEF Settles
    <2>2. CASE t # s
      <3>1. PICK q \in Ops : op[q].session = t /\ Answers(op[q])
        BY <2>2, <1>2, <1>9 DEF AuditInv
      <3> QED
        BY <2>2, <3>1, <1>1
    <2> QED
      BY <2>1, <2>2
  <1>10. AuditInv'
    BY <1>9 DEF AuditInv
  <1>11. ASSUME NEW t \in Sessions
         PROVE  ServesIf(t, BoundTo(t))'
    <2>1. CASE t = s
      BY <2>1 DEF Settles
    <2>2. CASE t # s
      <3>1. ServesIf(t, BoundTo(t))
        BY DEF BindingInv
      <3> QED
        BY <2>2, <3>1, <1>2, <1>4 DEF ServesIf
    <2> QED
      BY <2>1, <2>2
  <1>12. ASSUME NEW q \in Ops
         PROVE  RecallsIf(op[q], BoundTo(op[q].session))'
    <2>1. CASE q = o /\ next = Idle
      BY <2>1, <1>1 DEF RecallsIf, Restores, Idle
    <2>2. CASE q = o /\ next # Idle
      BY <2>2, <1>1, <1>3 DEF Settles
    <2>3. CASE q # o /\ ~Inside(q)
      BY <2>3, <1>1 DEF RecallsIf, Inside
    <2>4. CASE q # o /\ Inside(q)
      <3>1. PICK t \in Sessions \ {s} : t = op[q].session
        BY <2>4, <1>1
      <3>2. RecallsIf(op[q], BoundTo(t))
        BY <3>1 DEF BindingInv
      <3> QED
        BY <2>4, <3>1, <3>2, <1>1, <1>2, <1>4 DEF RecallsIf
    <2> QED
      BY <2>1, <2>2, <2>3, <2>4
  <1>13. BindingInv'
    BY <1>11, <1>12 DEF BindingInv
  <1> QED
    BY <1>6, <1>8, <1>10, <1>13

(* The types, when neither a grant nor a binding is added. *)
LEMMA StepTypes ==
    ASSUME Types, NEW o \in Ops, NEW next, Moved(o, next),
           next.grant \in Signed, next.prev \in Signed,
           UNCHANGED <<bound, grants>>, conn' \in {"up", "draining", "down"},
           stopper' \in Ops \cup Children \cup {NoOp},
           slot' \in [Sessions -> Children \cup {NoChild}],
           child' \in [Children -> Child]
    PROVE  Types'
  <1>1. TypeOK'
    BY DEF Types, TypeOK, Moved, grants
  <1>2. GrantsSigned'
    BY DEF Types, GrantsSigned, Signed, Moved, grants
  <1>3. Distinct(bound)'
    BY DEF Types
  <1> QED
    BY <1>1, <1>2, <1>3 DEF Types

(* A child starts only when no other is ending, so that what runs of this  *)
(* connection is in the table.                                             *)
LEMMA StartsTable ==
    ASSUME IInv, NEW s \in Sessions, ~Active(s), conn = "up",
           NEW g \in Grants \cup {NoGrant}, NEW audited \in BOOLEAN,
           Starts(s, g, audited), UNCHANGED <<conn, stopper>>
    PROVE  /\ slot' \in [Sessions -> Children \cup {NoChild}]
           /\ child' \in [Children -> Child]
           /\ slot'[s] # NoChild
           /\ child'[slot'[s]].grant = g /\ child'[slot'[s]].audited = audited
           /\ UNCHANGED bound => OnlyChat(s)
           /\ TableInv' /\ OldInv' /\ LimitInv'
  <1> DEFINE d == [status |-> "live", session |-> s, grant |-> g,
                   audited |-> audited, old |-> FALSE]
  <1>1. PICK k \in Children : /\ child[k].status = "none"
                              /\ slot' = [slot EXCEPT ![s] = k]
                              /\ child' = [child EXCEPT ![k] = d]
    BY DEF Starts, Spare
  <1>2. /\ d \in Child /\ d.status = "live" /\ d.session = s /\ d.grant = g
        /\ d.audited = audited /\ ~d.old
    BY DEF Child
  <1> HIDE DEF d
  <1>3. /\ slot \in [Sessions -> Children \cup {NoChild}]
        /\ child \in [Children -> Child] /\ NoChild \notin Children
        /\ stopper = NoOp /\ NoOp \notin Ops
    BY SessionControlAssumption DEF Starts, IInv, Types, TypeOK
  <1>4. /\ slot' \in [Sessions -> Children \cup {NoChild}]
        /\ child' \in [Children -> Child]
        /\ slot'[s] = k /\ child'[k] = d
        /\ \A t \in Sessions \ {s} : slot'[t] = slot[t]
        /\ \A j \in Children \ {k} : child'[j] = child[j]
    BY <1>1, <1>2, <1>3
  <1>5. \A t \in Sessions : slot[t] # NoChild => slot[t] \in Children \ {k}
    BY <1>1, <1>3 DEF IInv, TableInv
  <1>6. UNCHANGED bound => OnlyChat(s)
    BY <1>4, <1>5 DEF OnlyChat
  <1>7. ASSUME NEW j \in Children, child'[j].status = "live"
        PROVE  slot'[child'[j].session] = j
    <2>1. CASE j = k
      BY <2>1, <1>2, <1>4
    <2>2. CASE j # k
      <3>1. /\ child'[j] = child[j] /\ slot[child[j].session] = j
            /\ child[j].session \in Sessions
        BY <2>2, <1>4, <1>7 DEF IInv, TableInv, NoLostChild
      <3>2. child[j].session # s
        BY <2>2, <3>1, <1>3, <1>7 DEF Active
      <3> QED
        BY <3>1, <3>2, <1>4
    <2> QED
      BY <2>1, <2>2
  <1>8. ASSUME NEW t \in Sessions, slot'[t] # NoChild
        PROVE  child'[slot'[t]].session = t /\ child'[slot'[t]].status \in {"live", "done"}
    <2>1. CASE t = s
      BY <2>1, <1>2, <1>4
    <2>2. CASE t # s
      BY <2>2, <1>4, <1>5, <1>8 DEF IInv, TableInv
    <2> QED
      BY <2>1, <2>2
  <1>9. \A j \in Children : child'[j].status # "none" => child'[j].session \in Sessions
    BY <1>2, <1>4 DEF IInv, TableInv
  <1>10. TableInv'
    BY <1>7, <1>8, <1>9 DEF TableInv, NoLostChild
  <1>11. \A j \in Children : child[j].status = "stopping" => child[j].old
    BY <1>3 DEF IInv, OldInv
  <1>12. OldInv'
    <2>1. OldChildrenStopped'
      BY <1>2, <1>4 DEF IInv, OldInv, OldChildrenStopped
    <2>2. \A j \in Children : child'[j].status = "stopping" => child'[j].old
      BY <1>2, <1>4, <1>11
    <2> QED
      BY <2>1, <2>2 DEF OldInv
  <1>13. Actives' = Actives \cup {s}
    BY <1>2, <1>3, <1>4, <1>5 DEF Actives, Active
  <1>14. IsFiniteSet(Actives') /\ Cardinality(Actives') <= MaxActive
    <2>1. IsFiniteSet(Actives) /\ s \notin Actives
      <3>1. Actives \in SUBSET Sessions
        BY DEF Actives
      <3> QED
        BY <3>1, FS_Subset, SessionControlAssumption DEF Actives
    <2>2. IsFiniteSet(Actives') /\ Cardinality(Actives') = Cardinality(Actives) + 1
      BY <2>1, <1>13, FS_AddElement
    <2>3. Cardinality(Actives) < MaxActive /\ Cardinality(Actives) \in Nat
      BY <2>1, FS_CardinalityType DEF Starts, Actives
    <2> QED
      BY <2>2, <2>3, SessionControlAssumption
  <1>15. IsFiniteSet(Running') /\ Cardinality(Running') <= MaxActive
    <2> DEFINE R == Running'
               A == Actives'
               f == [j \in R |-> child'[j].session]
    <2>1. \A j \in R : j \in Children /\ child'[j].status = "live"
      BY <1>2, <1>4, <1>11 DEF Running
    <2>2. \A j \in R : f[j] \in A /\ slot'[f[j]] = j
      <3>1. ASSUME NEW j \in R
            PROVE  child'[j].session \in A /\ slot'[child'[j].session] = j
        <4>1. j \in Children /\ child'[j].status = "live"
          BY <2>1
        <4>2. slot'[child'[j].session] = j
          BY <4>1, <1>7
        <4>3. child'[j].session \in Sessions
          BY <4>1, <1>9
        <4> QED
          BY <4>1, <4>2, <4>3, <1>3 DEF Actives, Active
      <3> QED
        BY <3>1
    <2>3. f \in [R -> A]
      BY <2>2
    <2> HIDE DEF f
    <2>4. f \in Injection(R, A)
      BY <2>2, <2>3 DEF Injection, IsInjective
    <2>5. IsFiniteSet(A) /\ Cardinality(A) <= MaxActive /\ Cardinality(A) \in Nat
      BY <1>14, FS_CardinalityType
    <2> HIDE DEF R, A
    <2>6. IsFiniteSet(R) /\ Cardinality(R) <= Cardinality(A)
      BY <2>4, <2>5, FS_Injection
    <2>7. Cardinality(R) \in Nat
      BY <2>6, FS_CardinalityType
    <2>8. IsFiniteSet(R) /\ Cardinality(R) <= MaxActive
      BY <2>5, <2>6, <2>7, SessionControlAssumption
    <2> QED
      BY <2>8 DEF R
  <1>16. LimitInv'
    BY <1>14, <1>15 DEF LimitInv
  <1> QED
    BY <1>2, <1>3, <1>4, <1>6, <1>10, <1>12, <1>16

(* An operation of ACTIVATE_SESSION or RESTORE_SESSION goes on only while  *)
(* the control connection is up.                                           *)
LEMMA UpWhileRestoring ==
    ASSUME IInv, NEW o \in Ops, Inside(o), Restores(op[o])
    PROVE  conn = "up"
  BY DEF IInv, ConnInv, Types, TypeOK, Busy, Inside, Restores

(* Who does not await a child's end, before and after, keeps ConnInv. *)
LEMMA StepConn ==
    ASSUME ConnInv, NEW o \in Ops, NEW next, Busy(o), Moved(o, next), Fits(o, next),
           op[o].phase # "ending", next.phase # "ending",
           UNCHANGED <<conn, stopper>>
    PROVE  ConnInv'
  BY DEF ConnInv, Moved, Fits, Busy, Idle

LEMMA StartChildKeeps ==
    ASSUME IInv, NEW o \in Ops, StartChild(o)
    PROVE  IInv'
  <1>1. op[o].phase = "start" /\ Inside(o)
    BY DEF StartChild, Inside
  <1>2. /\ Restores(op[o]) /\ op[o].fresh /\ ~Active(op[o].session)
        /\ op[o].grant \in DOMAIN grant
    BY <1>1, OpFacts DEF PhaseOK, Restores, Clear, Signed
  <1>3. PICK n \in Op :
          /\ n.phase = "auditing" /\ n.kind = op[o].kind
          /\ n.session = op[o].session /\ n.lock = op[o].lock
          /\ n.grant = op[o].grant /\ n.prev = op[o].prev
          /\ n.replaced = op[o].replaced /\ n.fresh
          /\ Awaits(o, n)
    <2> DEFINE m == [op[o] EXCEPT !.phase = "auditing"]
    <2>1. /\ m \in Op /\ m.phase = "auditing" /\ m.kind = op[o].kind
          /\ m.session = op[o].session /\ m.lock = op[o].lock
          /\ m.grant = op[o].grant /\ m.prev = op[o].prev
          /\ m.replaced = op[o].replaced /\ m.fresh
      BY <1>1, <1>2, OpFacts DEF Op, Phase
    <2>2. Awaits(o, m)
      BY DEF StartChild
    <2> HIDE DEF m
    <2> QED
      BY <2>1, <2>2
  <1>4. Busy(o) /\ Alone(o) /\ Moved(o, n) /\ Fits(o, n)
    BY <1>1, <1>3, InsideAlone, AwaitsMoves DEF IInv, Types, Fits
  <1>5. PICK s \in Sessions : s = op[o].session
    BY <1>1, OpFacts
  <1>6. PICK g \in Grants : g = op[o].grant
    BY <1>2, GrantSeq DEF IInv
  <1>7. Starts(s, g, FALSE)
    BY <1>5, <1>6 DEF StartChild
  <1>8. /\ slot' \in [Sessions -> Children \cup {NoChild}]
        /\ child' \in [Children -> Child]
        /\ child'[slot'[s]].grant = g
        /\ OnlyChat(s) /\ TableInv' /\ OldInv' /\ LimitInv'
    <2>1. conn = "up"
      BY <1>1, <1>2, UpWhileRestoring
    <2> QED
      BY <2>1, <1>2, <1>5, <1>7, StartsTable DEF StartChild
  <1>9. Settles(s, n)
    <2>1. PhaseOK(n)
      BY <1>1, <1>2, <1>3, OpFacts DEF PhaseOK, Restores
    <2>2. BoundTo(s)' = BoundTo(s) /\ BoundTo(s) \in {g, NoGrant}
      BY <1>1, <1>5, <1>6, OpFacts DEF StartChild, BoundTo, At, RecallsIf
    <2>3. ServesIf(s, BoundTo(s))'
      BY <1>8, <2>2 DEF ServesIf
    <2>4. RecallsIf(n, BoundTo(s))'
      BY <1>3, <1>5, <1>6, <1>8 DEF RecallsIf
    <2>5. Answers(n) /\ ~Clear(n)
      BY <1>2, <1>3 DEF Answers, Clear, Restores
    <2> QED
      BY <2>1, <2>3, <2>4, <2>5 DEF Settles
  <1>10. PhaseInv' /\ ClearInv' /\ AuditInv' /\ BindingInv'
    BY <1>4, <1>5, <1>8, <1>9, ChatStep DEF IInv, StartChild
  <1>11. Types'
    BY <1>1, <1>3, <1>4, <1>8, OpFacts, StepTypes DEF StartChild, IInv, Types, TypeOK
  <1>12. ConnInv'
    BY <1>1, <1>3, <1>4, StepConn DEF StartChild, IInv
  <1> QED
    BY <1>4, <1>8, <1>10, <1>11, <1>12 DEF IInv, Moved

LEMMA RestartKeeps ==
    ASSUME IInv, NEW o \in Ops, Restart(o)
    PROVE  IInv'
  <1>1. op[o].phase = "restart" /\ Inside(o) /\ Leaves(o)
    BY DEF Restart, Inside
  <1>2. /\ Restores(op[o]) /\ op[o].replaced = "audited" /\ ~Active(op[o].session)
        /\ op[o].prev \in DOMAIN grant
    BY <1>1, OpFacts DEF PhaseOK, Restores, Clear, Signed
  <1>3. Busy(o) /\ Alone(o) /\ Moved(o, Idle) /\ Fits(o, Idle)
    BY <1>1, InsideAlone, LeavesMoves DEF IInv, Types, Fits
  <1>4. PICK s \in Sessions : s = op[o].session
    BY <1>1, OpFacts
  <1>5. PICK g \in Grants : g = op[o].prev
    BY <1>2, GrantSeq DEF IInv
  <1>6. Starts(s, g, TRUE)
    BY <1>2, <1>4, <1>5 DEF Restart
  <1>7. /\ slot' \in [Sessions -> Children \cup {NoChild}]
        /\ child' \in [Children -> Child]
        /\ child'[slot'[s]].grant = g /\ child'[slot'[s]].audited
        /\ OnlyChat(s) /\ TableInv' /\ OldInv' /\ LimitInv'
    <2>1. conn = "up"
      BY <1>1, <1>2, UpWhileRestoring
    <2>2. child'[slot'[s]].audited = TRUE
      BY <2>1, <1>2, <1>4, <1>6, StartsTable DEF Restart
    <2> QED
      BY <2>1, <2>2, <1>2, <1>4, <1>6, StartsTable DEF Restart
  <1>8. Settles(s, Idle)
    <2>1. PhaseOK(Idle) /\ ~Clear(Idle)
      BY DEF PhaseOK, Restores, Clear, Idle
    <2>2. BoundTo(s)' = BoundTo(s) /\ BoundTo(s) \in {g, NoGrant}
      BY <1>1, <1>4, <1>5, OpFacts DEF Restart, BoundTo, At, RecallsIf
    <2>3. ServesIf(s, BoundTo(s))'
      BY <1>7, <2>2 DEF ServesIf
    <2> QED
      BY <1>7, <2>1, <2>3 DEF Settles
  <1>9. PhaseInv' /\ ClearInv' /\ AuditInv' /\ BindingInv'
    BY <1>3, <1>4, <1>7, <1>8, ChatStep DEF IInv, Restart
  <1>10. Idle.grant \in Signed /\ Idle.prev \in Signed /\ Idle.phase # "ending"
    BY DEF Idle, Signed
  <1>11. Types'
    BY <1>3, <1>7, <1>10, StepTypes DEF Restart, IInv, Types, TypeOK
  <1>12. ConnInv'
    BY <1>1, <1>3, <1>10, StepConn DEF Restart, IInv
  <1> QED
    BY <1>3, <1>7, <1>9, <1>11, <1>12 DEF IInv, Moved

LEMMA StartAuditedKeeps ==
    ASSUME IInv, NEW o \in Ops, StartAudited(o)
    PROVE  IInv'
  <1>1. op[o].phase = "auditing" /\ Restores(op[o]) /\ Inside(o) /\ Leaves(o)
    BY DEF StartAudited, Inside, Restores
  <1>2. Busy(o) /\ Alone(o) /\ Moved(o, Idle) /\ Fits(o, Idle)
    BY <1>1, InsideAlone, LeavesMoves DEF IInv, Types, Fits
  <1>3. PICK s \in Sessions : s = op[o].session
    BY <1>1, OpFacts
  <1>4. /\ slot \in [Sessions -> Children \cup {NoChild}]
        /\ child \in [Children -> Child] /\ slot' = slot /\ bound' = bound
        /\ stopper' = stopper /\ conn' = conn
    BY DEF StartAudited, IInv, Types, TypeOK
  <1>5. /\ child' \in [Children -> Child]
        /\ \A k \in Children : /\ child'[k].status = child[k].status
                               /\ child'[k].session = child[k].session
                               /\ child'[k].grant = child[k].grant
                               /\ child'[k].old = child[k].old
                               /\ k # slot[s] => child'[k] = child[k]
                               /\ k = slot[s] => child'[k].audited
    <2>1. CASE slot[s] = NoChild
      BY <2>1, <1>3, <1>4, SessionControlAssumption DEF StartAudited
    <2>2. CASE slot[s] # NoChild
      <3> DEFINE k == slot[s]
                 c == [child[k] EXCEPT !.audited = TRUE]
      <3>1. child' = [child EXCEPT ![k] = c] /\ k \in Children /\ child[k] \in Child
        BY <2>2, <1>3, <1>4 DEF StartAudited
      <3> HIDE DEF k
      <3>2. /\ c \in Child /\ c.status = child[k].status
            /\ c.session = child[k].session /\ c.grant = child[k].grant
            /\ c.old = child[k].old /\ c.audited
        BY <3>1 DEF Child
      <3> HIDE DEF c
      <3> QED
        BY <3>1, <3>2, <1>4 DEF k
    <2> QED
      BY <2>1, <2>2
  <1>6. Settles(s, Idle)
    <2>1. PhaseOK(Idle) /\ ~Clear(Idle)
      BY DEF PhaseOK, Restores, Clear, Idle
    <2>2. Active(s)' => child'[slot'[s]].audited
      BY <1>4, <1>5 DEF Active
    <2>3. BoundTo(s)' = BoundTo(s) /\ ServesIf(s, BoundTo(s))
      BY <1>1, <1>3, <1>4, OpFacts DEF BoundTo, At
    <2>4. ServesIf(s, BoundTo(s))'
      BY <2>3, <1>4, <1>5 DEF ServesIf, Active
    <2> QED
      BY <2>1, <2>2, <2>4 DEF Settles
  <1>7. OnlyChat(s)
    <2>1. ASSUME NEW t \in Sessions \ {s}, slot[t] # NoChild
          PROVE  slot[t] \in Children /\ slot[t] # slot[s]
      BY <2>1, <1>4 DEF IInv, TableInv
    <2> QED
      BY <2>1, <1>4, <1>5 DEF OnlyChat
  <1>8. PhaseInv' /\ ClearInv' /\ AuditInv' /\ BindingInv'
    BY <1>2, <1>3, <1>4, <1>6, <1>7, ChatStep DEF IInv
  <1>9. Idle.grant \in Signed /\ Idle.prev \in Signed /\ Idle.phase # "ending"
    BY DEF Idle, Signed
  <1>10. Types'
    BY ZenonT(40), <1>2, <1>4, <1>5, <1>9, StepTypes DEF StartAudited, IInv, Types, TypeOK
  <1>11. ConnInv'
    BY <1>1, <1>2, <1>4, <1>9, StepConn DEF IInv
  <1>12. TableInv'
    BY <1>4, <1>5 DEF IInv, TableInv, NoLostChild
  <1>13. OldInv'
    <2>1. \A k \in Children : child[k].status = "stopping" /\ ~child[k].old =>
            stopper \in Ops \ {o} /\ op[stopper].target = k
      BY <1>1 DEF IInv, OldInv, ConnInv
    <2> QED
      BY <2>1, <1>2, <1>4, <1>5 DEF IInv, OldInv, OldChildrenStopped, Ended, Moved
  <1>14. LimitInv'
    <2>1. Actives' = Actives
      BY <1>4, <1>5 DEF Actives, Active
    <2>2. Running' = Running
      BY <1>5 DEF Running
    <2> QED
      BY <2>1, <2>2 DEF IInv, LimitInv
  <1> QED
    BY <1>2, <1>8, <1>10, <1>11, <1>12, <1>13, <1>14 DEF IInv, Moved

(* The chat's child leaves the table and is stopped. *)
LEMMA StopsTable ==
    ASSUME IInv, NEW s \in Sessions, NEW k, k = slot[s], k # NoChild,
           slot' = [slot EXCEPT ![s] = NoChild],
           child' = [child EXCEPT ![k] = Stop(@)]
    PROVE  /\ k \in Children
           /\ slot' \in [Sessions -> Children \cup {NoChild}]
           /\ child' \in [Children -> Child]
           /\ slot'[s] = NoChild
           /\ \A t \in Sessions \ {s} : slot'[t] = slot[t] /\ slot[t] # k
           /\ \A j \in Children \ {k} : child'[j] = child[j]
           /\ child'[k].status # "live" /\ child'[k].old = child[k].old
           /\ Ended(k)' <=> Ended(k)
           /\ TableInv' /\ LimitInv'
  <1>1. /\ slot \in [Sessions -> Children \cup {NoChild}]
        /\ child \in [Children -> Child] /\ k \in Children
    BY DEF IInv, Types, TypeOK
  <1>2. /\ Stop(child[k]) \in Child
        /\ Stop(child[k]).session = child[k].session
        /\ Stop(child[k]).old = child[k].old
        /\ Stop(child[k]).status = IF child[k].status = "live" THEN "stopping"
                                                               ELSE child[k].status
    <2>1. child[k] \in Child
      BY <1>1
    <2>2. CASE child[k].status = "live"
      BY <2>1, <2>2, SessionControlAssumption DEF Stop, Child
    <2>3. CASE child[k].status # "live"
      BY <2>1, <2>3 DEF Stop
    <2> QED
      BY <2>2, <2>3
  <1>3. /\ slot' \in [Sessions -> Children \cup {NoChild}]
        /\ child' \in [Children -> Child]
        /\ slot'[s] = NoChild
        /\ \A t \in Sessions \ {s} : slot'[t] = slot[t] /\ slot[t] # k
        /\ \A j \in Children \ {k} : child'[j] = child[j]
        /\ child'[k] = Stop(child[k])
    <2>1. \A t \in Sessions \ {s} : slot[t] # k
      BY DEF IInv, TableInv
    <2> DEFINE c == Stop(child[k])
    <2>2. child' = [child EXCEPT ![k] = c] /\ c \in Child
      BY <1>2
    <2> HIDE DEF c
    <2>3. /\ child' \in [Children -> Child] /\ child'[k] = c
          /\ \A j \in Children \ {k} : child'[j] = child[j]
      BY <1>1, <2>2
    <2>4. /\ slot' \in [Sessions -> Children \cup {NoChild}]
          /\ slot'[s] = NoChild
          /\ \A t \in Sessions \ {s} : slot'[t] = slot[t]
      BY <1>1
    <2> QED
      BY <2>1, <2>3, <2>4 DEF c
  <1>4. child'[k].status # "live" /\ (Ended(k)' <=> Ended(k))
    BY <1>1, <1>2, <1>3 DEF Ended
  <1>5. ASSUME NEW j \in Children, child'[j].status = "live"
        PROVE  slot'[child'[j].session] = j
    <2>1. j # k /\ child[j].status = "live" /\ child'[j] = child[j]
      BY <1>3, <1>4, <1>5
    <2>2. slot[child[j].session] = j /\ child[j].session \in Sessions
      BY <2>1 DEF IInv, TableInv, NoLostChild
    <2> QED
      BY <2>1, <2>2, <1>3
  <1>6. ASSUME NEW t \in Sessions, slot'[t] # NoChild
        PROVE  child'[slot'[t]].session = t /\ child'[slot'[t]].status \in {"live", "done"}
    <2>1. t # s /\ slot'[t] = slot[t] /\ slot[t] \in Children \ {k}
      BY <1>1, <1>3, <1>6
    <2>2. child[slot[t]].session = t /\ child[slot[t]].status \in {"live", "done"}
      BY <2>1, <1>6 DEF IInv, TableInv
    <2> QED
      BY <2>1, <2>2, <1>3
  <1>7. \A j \in Children : child'[j].status # "none" => child'[j].session \in Sessions
    BY <1>1, <1>2, <1>3 DEF IInv, TableInv
  <1>8. TableInv'
    BY <1>5, <1>6, <1>7 DEF TableInv, NoLostChild
  <1>9. LimitInv'
    <2>1. Actives' \in SUBSET Actives /\ IsFiniteSet(Actives)
      <3>1. Actives \in SUBSET Sessions
        BY DEF Actives
      <3>2. IsFiniteSet(Actives)
        BY <3>1, FS_Subset, SessionControlAssumption
      <3>3. \A t \in Sessions : Active(t)' => Active(t)
        BY <1>1, <1>3 DEF Active
      <3> QED
        BY <3>2, <3>3 DEF Actives
    <2>2. Running' = Running
      BY <1>1, <1>2, <1>3 DEF Running
    <2>3. IsFiniteSet(Actives') /\ Cardinality(Actives') <= Cardinality(Actives)
      BY <2>1, FS_Subset
    <2>4. Cardinality(Actives') \in Nat /\ Cardinality(Actives) \in Nat
      BY <2>1, <2>3, FS_CardinalityType
    <2> QED
      BY <2>2, <2>3, <2>4, SessionControlAssumption DEF IInv, LimitInv
  <1> QED
    BY <1>1, <1>2, <1>3, <1>4, <1>8, <1>9

LEMMA StopBeginKeeps ==
    ASSUME IInv, NEW o \in Ops, StopBegin(o)
    PROVE  IInv'
  <1>1. op[o].phase = "stop" /\ Inside(o)
    BY DEF StopBegin, Inside
  <1>2. PICK s \in Sessions : s = op[o].session
    BY <1>1, OpFacts
  <1>3. PICK k \in Children : k = slot[s]
    BY <1>2 DEF StopBegin, IInv, Types, TypeOK
  <1>4. /\ k # NoChild /\ slot' = [slot EXCEPT ![s] = NoChild]
        /\ child' = [child EXCEPT ![k] = Stop(@)]
        /\ stopper = NoOp /\ stopper' = o /\ UNCHANGED <<conn, bound, grants>>
    BY <1>2, <1>3, SessionControlAssumption DEF StopBegin, HeldBy
  <1>5. /\ slot' \in [Sessions -> Children \cup {NoChild}]
        /\ child' \in [Children -> Child]
        /\ slot'[s] = NoChild
        /\ \A t \in Sessions \ {s} : slot'[t] = slot[t] /\ slot[t] # k
        /\ \A j \in Children \ {k} : child'[j] = child[j]
        /\ child'[k].status # "live" /\ child'[k].old = child[k].old
        /\ Ended(k)' <=> Ended(k)
        /\ TableInv' /\ LimitInv'
    BY <1>3, <1>4, StopsTable
  <1>6. PICK n \in Op :
          /\ n.phase = "ending" /\ n.kind = op[o].kind /\ n.target = k
          /\ n.session = op[o].session /\ n.lock = op[o].lock
          /\ n.grant = op[o].grant /\ n.prev = op[o].prev
          /\ n.replaced = op[o].replaced /\ n.fresh = op[o].fresh
          /\ n.why = op[o].why
          /\ Awaits(o, n)
    <2> DEFINE m == [op[o] EXCEPT !.phase = "ending", !.target = k]
    <2>1. /\ m \in Op /\ m.phase = "ending" /\ m.kind = op[o].kind /\ m.target = k
          /\ m.session = op[o].session /\ m.lock = op[o].lock
          /\ m.grant = op[o].grant /\ m.prev = op[o].prev
          /\ m.replaced = op[o].replaced /\ m.fresh = op[o].fresh
          /\ m.why = op[o].why
      BY <1>1, OpFacts DEF Op, Phase
    <2>2. Awaits(o, m)
      BY <1>2, <1>3 DEF StopBegin
    <2> HIDE DEF m
    <2> QED
      BY <2>1, <2>2
  <1>7. Busy(o) /\ Alone(o) /\ Moved(o, n) /\ Fits(o, n)
    BY <1>1, <1>6, InsideAlone, AwaitsMoves DEF IInv, Types, Fits
  <1>8. OnlyChat(s)
    <2>1. slot \in [Sessions -> Children \cup {NoChild}]
      BY DEF IInv, Types, TypeOK
    <2> QED
      BY <2>1, <1>4, <1>5 DEF OnlyChat
  <1>9. Settles(s, n)
    <2>1. PhaseOK(n)
      BY <1>1, <1>6, OpFacts DEF PhaseOK, Restores
    <2>2. ~Active(s)'
      BY <1>5 DEF Active
    <2>3. RecallsIf(n, BoundTo(s))'
      BY <1>6 DEF RecallsIf
    <2> QED
      BY <2>1, <2>2, <2>3 DEF Settles, ServesIf
  <1>10. PhaseInv' /\ ClearInv' /\ AuditInv' /\ BindingInv'
    BY <1>2, <1>4, <1>7, <1>8, <1>9, ChatStep DEF IInv
  <1>11. Types'
    BY <1>1, <1>4, <1>5, <1>6, <1>7, OpFacts, StepTypes DEF IInv, Types, TypeOK
  <1>12. ConnInv'
    <2>1. \A q \in Ops : op[q].phase # "ending"
      BY <1>4, SessionControlAssumption DEF IInv, ConnInv
    <2> QED
      BY <2>1, <1>4, <1>6, <1>7, SessionControlAssumption DEF IInv, ConnInv, Moved, Busy
  <1>13. OldInv'
    <2>1. \A j \in Children : child[j].status = "stopping" => child[j].old
      BY <1>4, SessionControlAssumption DEF IInv, OldInv
    <2>2. OldChildrenStopped'
      BY <1>4, <1>5 DEF IInv, OldInv, OldChildrenStopped
    <2>3. conn' # "up" => \A j \in Children : ~Ended(j)' => child'[j].old
      BY <1>4, <1>5 DEF IInv, OldInv, Ended
    <2>4. \A j \in Children : child'[j].status = "stopping" /\ ~child'[j].old =>
             stopper' \in Ops /\ op'[stopper'].target = j
      BY <2>1, <1>4, <1>5, <1>6, <1>7 DEF Moved
    <2> QED
      BY <2>2, <2>3, <2>4 DEF OldInv
  <1> QED
    BY <1>5, <1>7, <1>10, <1>11, <1>12, <1>13 DEF IInv, Moved

-----------------------------------------------------------------------------
(* An operation reaches its chat's lock *)

LEMMA ReachesLock ==
    ASSUME IInv, NEW o \in Ops, op[o] = Idle, NEW s \in Sessions, NEW l \in LockFor(s),
           NEW r \in Op, r.phase = "lock", r.session = s, r.lock = l,
           r.grant \in Signed, r.prev \in Signed, PhaseOK(r),
           conn = "up" \/ (conn = "draining" /\ r.kind = "reap"),
           op' = [op EXCEPT ![o] = r], registry' = [registry EXCEPT ![s] = l],
           UNCHANGED <<conn, stopper, bound, slot, child, grants>>
    PROVE  IInv'
  <1>1. /\ op' \in [Ops -> Op] /\ op'[o] = r
        /\ \A q \in Ops \ {o} : op'[q] = op[q]
    BY DEF IInv, Types, TypeOK
  <1>2. l \in Locks /\ registry \in [Sessions -> Locks \cup {NoLock}]
    BY DEF LockFor, IInv, Types, TypeOK
  <1>3. /\ registry' \in [Sessions -> Locks \cup {NoLock}] /\ registry'[s] = l
        /\ \A t \in Sessions \ {s} : registry'[t] = registry[t]
        /\ registry[s] # NoLock => registry[s] = l
        /\ l # NoLock
    BY <1>2, SessionControlAssumption DEF LockFor
  <1>4. \A q \in Ops : Busy(q)' <=> q = o \/ Busy(q)
    BY <1>1 DEF Busy
  <1>5. ~Busy(o) /\ ~Inside(o) /\ Idle.phase = "idle" /\ Idle.lock = NoLock
    BY DEF Busy, Inside, Idle
  <1>6. LockInv'
    <2>1. \A q \in Ops : ~Busy(q)' => op'[q] = Idle
      BY <1>1, <1>4 DEF IInv, LockInv
    <2>2. ASSUME NEW q \in Ops, Busy(q)'
          PROVE  /\ op'[q].session \in Sessions /\ op'[q].lock \in Locks
                 /\ registry'[op'[q].session] = op'[q].lock
      <3>1. CASE q = o
        BY <3>1, <1>1, <1>2, <1>3
      <3>2. CASE q # o
        <4>1. /\ op'[q] = op[q] /\ op[q].session \in Sessions /\ op[q].lock \in Locks
              /\ registry[op[q].session] = op[q].lock
          BY <3>2, <2>2, <1>1, <1>4 DEF IInv, LockInv
        <4>2. op[q].session = s => registry[s] # NoLock
          BY <4>1, SessionControlAssumption
        <4> QED
          BY <4>1, <4>2, <1>3
      <3> QED
        BY <3>1, <3>2
    <2>3. ASSUME NEW t \in Sessions, registry'[t] # NoLock
          PROVE  \E q \in Ops : Busy(q)' /\ op'[q].session = t
      <3>1. CASE t = s
        BY <3>1, <1>1, <1>4
      <3>2. CASE t # s
        <4>1. PICK q \in Ops : Busy(q) /\ op[q].session = t
          BY <3>2, <2>3, <1>3 DEF IInv, LockInv
        <4> QED
          BY <4>1, <1>1, <1>4, <1>5
      <3> QED
        BY <3>1, <3>2
    <2>4. ASSUME NEW t \in Sessions \ {s}
          PROVE  registry[t] # l
      <3>1. CASE registry[s] # NoLock
        BY <3>1, <1>3 DEF IInv, LockInv
      <3>2. CASE registry[s] = NoLock
        <4>1. \A q \in Ops : op[q].lock # l
          BY <3>2 DEF LockFor
        <4>2. registry[t] # NoLock => \E q \in Ops : op[q].lock = registry[t]
          BY DEF IInv, LockInv
        <4> QED
          BY <4>1, <4>2, <1>3
      <3> QED
        BY <3>1, <3>2
    <2>5. \A t, u \in Sessions : registry'[t] = registry'[u] /\ registry'[t] # NoLock => t = u
      BY <2>4, <1>3 DEF IInv, LockInv
    <2>6. \A p, q \in Ops : p # q /\ Inside(p)' /\ Inside(q)' => op'[p].lock # op'[q].lock
      BY <1>1 DEF IInv, LockInv, Inside
    <2> QED
      BY <2>1, <2>2, <2>3, <2>5, <2>6 DEF LockInv
  <1>7. Types'
    <2>1. TypeOK'
      BY <1>1, <1>3 DEF IInv, Types, TypeOK, grants
    <2>2. GrantsSigned'
      BY <1>1 DEF IInv, Types, GrantsSigned, Signed, grants
    <2>3. Distinct(bound)'
      BY DEF IInv, Types
    <2> QED
      BY <2>1, <2>2, <2>3 DEF Types
  <1>8. ConnInv'
    <2>1. \A q \in Ops : op'[q].phase = "ending" <=> op[q].phase = "ending"
      BY <1>1, <1>5
    <2> QED
      BY <2>1, <1>1, <1>4 DEF IInv, ConnInv
  <1>9. PhaseInv'
    BY <1>1 DEF IInv, PhaseInv
  <1>10. TableInv' /\ LimitInv'
    BY DEF IInv, TableInv, NoLostChild, LimitInv, Actives, Active, Running
  <1>11. \A t : (Active(t)' <=> Active(t)) /\ BoundTo(t)' = BoundTo(t)
    BY DEF Active, BoundTo, At
  <1>12. ClearInv'
    <2>1. ~Clear(r)
      BY DEF Clear
    <2> QED
      BY <2>1, <1>1, <1>11 DEF IInv, ClearInv
  <1>13. AuditInv'
    <2>1. ~Answers(op[o])
      BY DEF Answers, Restores, Idle
    <2>2. ASSUME conn = "up", NEW t \in Sessions, Active(t), ~child[slot[t]].audited
          PROVE  \E q \in Ops : op'[q].session = t /\ Answers(op'[q])
      <3>1. PICK q \in Ops : op[q].session = t /\ Answers(op[q])
        BY <2>2 DEF IInv, AuditInv
      <3> QED
        BY <2>1, <3>1, <1>1
    <2> QED
      BY <2>2, <1>11 DEF AuditInv
  <1>14. OldInv'
    <2>1. ASSUME NEW k \in Children, child[k].status = "stopping", ~child[k].old
          PROVE  stopper \in Ops \ {o} /\ op[stopper].target = k
      BY <2>1, <1>5 DEF IInv, OldInv, ConnInv
    <2> QED
      BY <2>1, <1>1 DEF IInv, OldInv, OldChildrenStopped, Ended
  <1>15. BindingInv'
    <2>1. \A t \in Sessions : ServesIf(t, BoundTo(t))'
      BY <1>11 DEF IInv, BindingInv, ServesIf
    <2>2. ASSUME NEW q \in Ops
          PROVE  RecallsIf(op[q], BoundTo(op[q].session))'
      <3>1. CASE q = o
        BY <3>1, <1>1 DEF RecallsIf
      <3>2. CASE q # o
        <4>1. PICK t : t = op[q].session
          OBVIOUS
        <4>2. RecallsIf(op[q], BoundTo(t))
          BY <4>1 DEF IInv, BindingInv
        <4> QED
          BY <3>2, <4>1, <4>2, <1>1, <1>11 DEF RecallsIf
      <3> QED
        BY <3>1, <3>2
    <2> QED
      BY <2>1, <2>2 DEF BindingInv
  <1> QED
    BY <1>6, <1>7, <1>8, <1>9, <1>10, <1>12, <1>13, <1>14, <1>15 DEF IInv

LEMMA RequestKeeps ==
    ASSUME IInv, NEW o \in Ops, NEW kind \in Kind \ {"reap"}, NEW s \in Sessions,
           Request(o, kind, s)
    PROVE  IInv'
  <1>1. PICK l \in LockFor(s),
             g \in IF kind = "restore"
                   THEN {h \in given : grant[h].session = s} ELSE {NoGrant} :
          /\ op' = [op EXCEPT ![o] = [Idle EXCEPT !.kind = kind, !.session = s,
                                        !.phase = "lock", !.lock = l, !.grant = g]]
          /\ registry' = [registry EXCEPT ![s] = l]
    BY DEF Request
  <1> DEFINE r == [Idle EXCEPT !.kind = kind, !.session = s, !.phase = "lock",
                               !.lock = l, !.grant = g]
  <1>2. g \in Signed /\ g \in Grants \cup {NoGrant} /\ (kind = "restore" => g # NoGrant)
    BY GrantSeq DEF IInv, Types, TypeOK, GrantsSigned, Signed
  <1>3. /\ r \in Op /\ r.phase = "lock" /\ r.session = s /\ r.lock = l
        /\ r.kind = kind /\ r.grant = g /\ r.prev = NoGrant /\ ~r.fresh
        /\ r.replaced = "no" /\ r.why = "none"
    <2>1. l \in Locks \cup {NoLock}
      BY DEF LockFor, IInv, Types, TypeOK
    <2> QED
      BY ZenonT(40), <1>2, <2>1, IdleIsOp DEF Op, Phase, Idle, Kind
  <1>4. op' = [op EXCEPT ![o] = r]
    BY <1>1
  <1> HIDE DEF r
  <1>5. PhaseOK(r)
    BY <1>2, <1>3 DEF PhaseOK, Restores, Kind
  <1>6. r.prev \in Signed
    BY <1>3 DEF Signed
  <1> QED
    BY <1>1, <1>2, <1>3, <1>4, <1>5, <1>6, ReachesLock DEF Request

LEMMA ReapKeeps ==
    ASSUME IInv, NEW o \in Ops, NEW s \in Sessions, Reap(o, s)
    PROVE  IInv'
  <1>1. PICK l \in LockFor(s) :
          /\ op' = [op EXCEPT ![o] = [Idle EXCEPT !.kind = "reap", !.session = s,
                                        !.phase = "lock", !.lock = l,
                                        !.target = slot[s]]]
          /\ registry' = [registry EXCEPT ![s] = l]
    BY DEF Reap
  <1> DEFINE r == [Idle EXCEPT !.kind = "reap", !.session = s, !.phase = "lock",
                               !.lock = l, !.target = slot[s]]
  <1>2. /\ r \in Op /\ r.phase = "lock" /\ r.session = s /\ r.lock = l
        /\ r.kind = "reap" /\ r.grant = NoGrant /\ r.prev = NoGrant /\ ~r.fresh
        /\ r.replaced = "no"
    <2>1. l \in Locks \cup {NoLock} /\ slot[s] \in Children \cup {NoChild}
      BY DEF LockFor, IInv, Types, TypeOK
    <2> QED
      BY <2>1, IdleIsOp DEF Op, Phase, Idle, Kind
  <1>3. op' = [op EXCEPT ![o] = r]
    BY <1>1
  <1> HIDE DEF r
  <1>4. PhaseOK(r) /\ r.grant \in Signed /\ r.prev \in Signed
    BY <1>2 DEF PhaseOK, Restores, Signed
  <1>5. conn = "up" \/ (conn = "draining" /\ r.kind = "reap")
    BY <1>2 DEF Reap, IInv, Types, TypeOK
  <1> QED
    BY <1>1, <1>2, <1>3, <1>4, <1>5, ReachesLock DEF Reap

-----------------------------------------------------------------------------
(* Children end *)

(* A step of none of the operations after which a chat that still has an   *)
(* active child has the one it had.                                        *)
LEMMA LessActive ==
    ASSUME IInv, UNCHANGED <<conn, op, bound>>,
           \A t \in Sessions : Active(t)' =>
              /\ Active(t) /\ slot'[t] = slot[t]
              /\ child'[slot[t]] = child[slot[t]]
    PROVE  /\ PhaseInv' /\ ClearInv' /\ AuditInv' /\ BindingInv'
           /\ Cardinality(Actives') <= MaxActive
  <1>1. \A t : BoundTo(t)' = BoundTo(t)
    BY DEF BoundTo, At
  <1>2. \A o \in Ops : Inside(o) => op[o].session \in Sessions
    BY DEF IInv, LockInv, Busy, Inside
  <1>3. PhaseInv'
    BY DEF IInv, PhaseInv
  <1>4. ASSUME NEW o \in Ops, Clear(op[o])
        PROVE  ~Active(op[o].session)'
    <2>1. Inside(o)
      BY <1>4 DEF Clear, Inside
    <2>2. PICK t \in Sessions : t = op[o].session
      BY <2>1, <1>2
    <2>3. ~Active(t)'
      BY <2>2, <1>4 DEF IInv, ClearInv
    <2> QED
      BY <2>2, <2>3
  <1>5. ClearInv'
    BY <1>4 DEF ClearInv
  <1>6. AuditInv'
    BY DEF IInv, AuditInv
  <1>7. \A t \in Sessions : ServesIf(t, BoundTo(t))'
    BY <1>1 DEF IInv, BindingInv, ServesIf
  <1>8. ASSUME NEW o \in Ops
        PROVE  RecallsIf(op[o], BoundTo(op[o].session))'
    <2>1. CASE ~Inside(o)
      BY <2>1 DEF RecallsIf, Inside
    <2>2. CASE Inside(o)
      <3>1. PICK t \in Sessions : t = op[o].session
        BY <2>2, <1>2
      <3>2. RecallsIf(op[o], BoundTo(t))
        BY <3>1 DEF IInv, BindingInv
      <3> QED
        BY <3>1, <3>2, <1>1 DEF RecallsIf
    <2> QED
      BY <2>1, <2>2
  <1>9. BindingInv'
    BY <1>7, <1>8 DEF BindingInv
  <1>10. Cardinality(Actives') <= MaxActive
    <2>1. Actives' \in SUBSET Actives /\ Actives \in SUBSET Sessions
      BY DEF Actives
    <2>2. IsFiniteSet(Actives)
      BY <2>1, FS_Subset, SessionControlAssumption
    <2>3. Cardinality(Actives') <= Cardinality(Actives) /\ IsFiniteSet(Actives')
      BY <2>1, <2>2, FS_Subset
    <2>4. Cardinality(Actives') \in Nat /\ Cardinality(Actives) \in Nat
      BY <2>2, <2>3, FS_CardinalityType
    <2> QED
      BY <2>3, <2>4, SessionControlAssumption DEF IInv, LimitInv
  <1> QED
    BY <1>3, <1>5, <1>6, <1>9, <1>10

(* A child that ends, or whose end is over, takes no other child along.    *)
LEMMA ChildStep ==
    ASSUME IInv, NEW k \in Children, NEW c \in Child,
           UNCHANGED <<conn, op, registry, stopper, bound, grants>>,
           child' = [child EXCEPT ![k] = c],
           c.status \in {"none", "done"},
           c.status # "none" => c.session = child[k].session /\ child[k].status # "none",
           slot' \in [Sessions -> Children \cup {NoChild}],
           \A t \in Sessions : slot'[t] = slot[t] \/ (slot'[t] = NoChild /\ slot[t] = k),
           c.status = "none" => \A t \in Sessions : slot'[t] # k
    PROVE  IInv'
  <1>1. /\ slot \in [Sessions -> Children \cup {NoChild}]
        /\ child \in [Children -> Child] /\ NoChild \notin Children
    BY SessionControlAssumption DEF IInv, Types, TypeOK
  <1>2. /\ child' \in [Children -> Child] /\ child'[k] = c
        /\ \A j \in Children \ {k} : child'[j] = child[j]
    BY <1>1
  <1>3. \A j \in Children \ {k}, t \in Sessions : slot'[t] = j <=> slot[t] = j
    BY <1>1
  <1>4. \A t \in Sessions : Active(t)' =>
           Active(t) /\ slot'[t] = slot[t] /\ child'[slot[t]] = child[slot[t]]
    <2>1. ASSUME NEW t \in Sessions, Active(t)'
          PROVE  Active(t) /\ slot'[t] = slot[t] /\ child'[slot[t]] = child[slot[t]]
      <3>1. slot'[t] \in Children \ {k} /\ slot'[t] = slot[t]
        BY <2>1, <1>1, <1>2 DEF Active
      <3> QED
        BY <2>1, <3>1, <1>2 DEF Active
    <2> QED
      BY <2>1
  <1>5. PhaseInv' /\ ClearInv' /\ AuditInv' /\ BindingInv'
        /\ Cardinality(Actives') <= MaxActive
    BY <1>4, LessActive
  <1>6. Types'
    BY <1>2 DEF IInv, Types, TypeOK, GrantsSigned, Signed, Distinct, grants
  <1>7. LockInv' /\ ConnInv'
    BY DEF IInv, LockInv, ConnInv, Busy, Inside
  <1>8. TableInv'
    <2>1. ASSUME NEW j \in Children, child'[j].status = "live"
          PROVE  slot'[child'[j].session] = j
      <3>1. j # k /\ child'[j] = child[j] /\ slot[child[j].session] = j
            /\ child[j].session \in Sessions
        BY <2>1, <1>2 DEF IInv, TableInv, NoLostChild
      <3> QED
        BY <3>1, <1>3
    <2>2. ASSUME NEW t \in Sessions, slot'[t] # NoChild
          PROVE  child'[slot'[t]].session = t /\ child'[slot'[t]].status \in {"live", "done"}
      <3>1. slot'[t] = slot[t] /\ slot[t] # NoChild
        BY <2>2
      <3>2. child[slot[t]].session = t /\ child[slot[t]].status \in {"live", "done"}
        BY <3>1 DEF IInv, TableInv
      <3>3. CASE slot[t] = k
        BY <3>1, <3>2, <3>3, <1>2
      <3>4. CASE slot[t] # k
        BY <3>1, <3>2, <3>4, <1>1, <1>2
      <3> QED
        BY <3>3, <3>4
    <2>3. \A j \in Children : child'[j].status # "none" => child'[j].session \in Sessions
      BY <1>2 DEF IInv, TableInv
    <2> QED
      BY <2>1, <2>2, <2>3 DEF TableInv, NoLostChild
  <1>9. OldInv'
    <2>1. \A j \in Children : child'[j].status \in {"live", "stopping"} =>
             j # k /\ child'[j] = child[j]
      BY <1>2
    <2>2. \A j \in Children : ~Ended(j)' => child'[j] = child[j]
      BY <1>2 DEF Ended
    <2>3. OldChildrenStopped'
      BY <2>1 DEF IInv, OldInv, OldChildrenStopped
    <2>4. \A j \in Children : ~Ended(j)' => ~Ended(j)
      BY <2>2 DEF Ended
    <2> QED
      BY <2>1, <2>2, <2>3, <2>4 DEF IInv, OldInv
  <1>10. LimitInv'
    <2>1. Running' \in SUBSET Running
      BY <1>2 DEF Running
    <2>2. IsFiniteSet(Running') /\ Cardinality(Running') <= Cardinality(Running)
      BY <2>1, FS_Subset DEF IInv, LimitInv
    <2>3. Cardinality(Running') \in Nat /\ Cardinality(Running) \in Nat
      BY <2>2, FS_CardinalityType DEF IInv, LimitInv
    <2> QED
      BY <1>5, <2>2, <2>3, SessionControlAssumption DEF IInv, LimitInv
  <1> QED
    BY <1>5, <1>6, <1>7, <1>8, <1>9, <1>10 DEF IInv

LEMMA ChildEndsKeeps ==
    ASSUME IInv, NEW k \in Children, ChildEnds(k)
    PROVE  IInv'
  <1> DEFINE c == End(child[k])
  <1>1. child[k] \in Child /\ child[k].status \in {"live", "stopping"}
    BY DEF ChildEnds, IInv, Types, TypeOK
  <1>2. c \in Child /\ c.status = "done" /\ c.session = child[k].session
    <2>1. Stop(child[k]) \in Child /\ Stop(child[k]).session = child[k].session
      <3>1. CASE child[k].status = "live"
        BY <1>1, <3>1, SessionControlAssumption DEF Stop, Child
      <3>2. CASE child[k].status # "live"
        BY <1>1, <3>2 DEF Stop
      <3> QED
        BY <3>1, <3>2
    <2> DEFINE d == Stop(child[k])
    <2>2. c = [d EXCEPT !.status = "done", !.old = FALSE]
      BY DEF End
    <2> HIDE DEF d, c
    <2>3. d \in Child /\ d.session = child[k].session
      BY <2>1 DEF d
    <2> QED
      BY <2>2, <2>3 DEF Child
  <1>3. child' = [child EXCEPT ![k] = c]
    BY DEF ChildEnds
  <1>4. slot' = slot /\ slot \in [Sessions -> Children \cup {NoChild}]
    BY DEF ChildEnds, IInv, Types, TypeOK
  <1> HIDE DEF c
  <1> QED
    BY <1>1, <1>2, <1>3, <1>4, ChildStep DEF ChildEnds

LEMMA ChildFinishedKeeps ==
    ASSUME IInv, NEW k \in Children, ChildFinished(k)
    PROVE  IInv'
  <1>1. /\ slot \in [Sessions -> Children \cup {NoChild}]
        /\ child[k].status = "done" /\ child[k].session \in Sessions
        /\ NoChild \notin Children
    BY SessionControlAssumption DEF ChildFinished, IInv, Types, TypeOK, TableInv
  <1>2. NoDaemon \in Child /\ NoDaemon.status = "none"
    BY DEF NoDaemon, Child
  <1>3. \A t \in Sessions : slot[t] = k => t = child[k].session
    BY <1>1 DEF IInv, TableInv
  <1>4. /\ slot' \in [Sessions -> Children \cup {NoChild}]
        /\ \A t \in Sessions : slot'[t] = slot[t] \/ (slot'[t] = NoChild /\ slot[t] = k)
        /\ \A t \in Sessions : slot'[t] # k
    <2>1. CASE InTable(k)
      <3>1. slot' = [slot EXCEPT ![child[k].session] = NoChild]
        BY <2>1 DEF ChildFinished
      <3> QED
        BY <2>1, <3>1, <1>1, <1>3 DEF InTable
    <2>2. CASE ~InTable(k)
      <3>1. slot' = slot
        BY <2>2 DEF ChildFinished
      <3> QED
        BY <2>2, <3>1, <1>1, <1>3 DEF InTable
    <2> QED
      BY <2>1, <2>2
  <1>5. child' = [child EXCEPT ![k] = NoDaemon]
    BY DEF ChildFinished
  <1> QED
    BY <1>1, <1>2, <1>4, <1>5, ChildStep DEF ChildFinished

-----------------------------------------------------------------------------
(* The control connection *)

(* Operations are cancelled, and children are marked as of the connection  *)
(* that was lost.                                                          *)
LEMMA CancelKeeps ==
    ASSUME IInv, conn # "down", NEW which \in SUBSET Ops, Cancelled(which),
           conn' \in {"draining", "down"},
           conn' = "draining" => \A o \in Ops \ which : op[o].kind = "reap",
           conn' = "down" => which = Ops,
           child' \in [Children -> Child],
           \A k \in Children : /\ child'[k].status = child[k].status
                               /\ child'[k].session = child[k].session
                               /\ child'[k].grant = child[k].grant
                               /\ child'[k].audited = child[k].audited
                               /\ ~Ended(k) => child'[k].old,
           UNCHANGED <<bound, slot, grants>>
    PROVE  IInv'
  <1>1. /\ op' \in [Ops -> Op]
        /\ \A o \in which : op'[o] = Idle
        /\ \A o \in Ops \ which : op'[o] = op[o]
    BY IdleIsOp DEF Cancelled, IInv, Types, TypeOK
  <1>2. /\ registry \in [Sessions -> Locks \cup {NoLock}]
        /\ registry' \in [Sessions -> Locks \cup {NoLock}]
        /\ \A s \in Sessions :
             registry'[s] = IF \E o \in Ops \ which : op[o].lock # NoLock /\
                                                      op[o].lock = registry[s]
                            THEN registry[s] ELSE NoLock
    BY DEF Cancelled, IInv, Types, TypeOK
  <1>3. \A o \in Ops : Busy(o)' => o \notin which /\ Busy(o)
    BY <1>1 DEF Busy, Idle
  <1>4. Idle.phase = "idle" /\ Idle.lock = NoLock /\ NoLock \notin Locks
    BY SessionControlAssumption DEF Idle
  <1>5. LockInv'
    <2>1. \A o \in Ops : ~Busy(o)' => op'[o] = Idle
      BY <1>1 DEF IInv, LockInv, Busy
    <2>2. ASSUME NEW o \in Ops, Busy(o)'
          PROVE  /\ op'[o].session \in Sessions /\ op'[o].lock \in Locks
                 /\ registry'[op'[o].session] = op'[o].lock
      <3>1. /\ o \in Ops \ which /\ op'[o] = op[o] /\ op[o].session \in Sessions
            /\ op[o].lock \in Locks /\ registry[op[o].session] = op[o].lock
        BY <2>2, <1>1, <1>3 DEF IInv, LockInv
      <3> QED
        BY <3>1, <1>2, <1>4
    <2>3. ASSUME NEW s \in Sessions, registry'[s] # NoLock
          PROVE  \E o \in Ops : Busy(o)' /\ op'[o].session = s
      <3>1. PICK o \in Ops \ which : op[o].lock # NoLock /\ op[o].lock = registry[s]
        BY <2>3, <1>2
      <3>2. Busy(o)
        BY <3>1, <1>4 DEF IInv, LockInv
      <3>3. op[o].session = s
        BY <3>1, <3>2 DEF IInv, LockInv
      <3> QED
        BY <3>1, <3>2, <3>3, <1>1 DEF Busy
    <2>4. \A s, t \in Sessions : registry'[s] = registry'[t] /\ registry'[s] # NoLock => s = t
      BY <1>2 DEF IInv, LockInv
    <2>5. \A o, q \in Ops : o # q /\ Inside(o)' /\ Inside(q)' => op'[o].lock # op'[q].lock
      BY <1>1, <1>4 DEF IInv, LockInv, Inside
    <2> QED
      BY <2>1, <2>2, <2>3, <2>4, <2>5 DEF LockInv
  <1>6. stopper \notin Children
    BY DEF IInv, ConnInv
  <1>7. /\ stopper' \in Ops \cup {NoOp} /\ NoOp \notin Ops
        /\ \A o \in Ops : stopper' = o <=> stopper = o /\ o \notin which
    BY <1>6, SessionControlAssumption DEF Cancelled, IInv, Types, TypeOK
  <1>8. ConnInv'
    <2>1. \A o \in Ops : op'[o].phase = "ending" <=> stopper' = o
      BY <1>1, <1>4, <1>7 DEF IInv, ConnInv
    <2>2. stopper' \notin Children
      BY <1>7, SessionControlAssumption
    <2>3. conn' = "draining" => \A o \in Ops : Busy(o)' => op'[o].kind = "reap"
      BY <1>1, <1>3
    <2>4. conn' = "down" => \A o \in Ops : ~Busy(o)'
      BY <1>3
    <2> QED
      BY <2>1, <2>2, <2>3, <2>4 DEF ConnInv
  <1>9. Types'
    <2>1. TypeOK'
      BY <1>1, <1>2, <1>7 DEF IInv, Types, TypeOK, grants
    <2>2. Idle.grant \in Signed /\ Idle.prev \in Signed
      BY DEF Idle, Signed
    <2>3. GrantsSigned'
      BY <1>1, <2>2 DEF IInv, Types, GrantsSigned, Signed, grants
    <2>4. Distinct(bound)'
      BY DEF IInv, Types
    <2> QED
      BY <2>1, <2>3, <2>4 DEF Types
  <1>10. PhaseInv'
    <2>1. PhaseOK(Idle)
      BY DEF PhaseOK, Restores, Idle
    <2> QED
      BY <2>1, <1>1 DEF IInv, PhaseInv
  <1>11. TableInv'
    <2>1. \A s \in Sessions : slot[s] # NoChild => slot[s] \in Children
      BY DEF IInv, Types, TypeOK
    <2> QED
      BY <2>1 DEF IInv, TableInv, NoLostChild
  <1>12. \A s \in Sessions : slot[s] # NoChild => slot[s] \in Children
    BY DEF IInv, Types, TypeOK
  <1>13. \A s \in Sessions : /\ Active(s)' <=> Active(s)
                             /\ BoundTo(s)' = BoundTo(s)
                             /\ Active(s) => child'[slot'[s]].grant = child[slot[s]].grant
    BY <1>12 DEF Active, BoundTo, At
  <1>14. ClearInv'
    <2>1. ASSUME NEW o \in Ops, Clear(op'[o])
          PROVE  ~Active(op[o].session)'
      <3>1. o \notin which
        BY <2>1, <1>1 DEF Clear, Idle
      <3>2. Clear(op[o]) /\ Inside(o) /\ op'[o] = op[o]
        BY <2>1, <3>1, <1>1 DEF Clear, Inside
      <3>3. PICK s \in Sessions : s = op[o].session
        BY <3>2 DEF IInv, LockInv, Inside, Busy
      <3> QED
        BY <3>2, <3>3, <1>13 DEF IInv, ClearInv
    <2> QED
      BY <2>1 DEF ClearInv
  <1>15. AuditInv'
    BY DEF AuditInv
  <1>16. OldInv'
    <2>1. \A k \in Children : Ended(k)' <=> Ended(k)
      BY DEF Ended
    <2>2. \A k \in Children : child'[k].status = "stopping" => child'[k].old
      BY DEF Ended
    <2> QED
      BY <2>1, <2>2 DEF OldInv, OldChildrenStopped
  <1>17. LimitInv'
    <2>1. Actives' = Actives
      BY <1>13 DEF Actives
    <2>2. Running' = {}
      BY DEF Running, Ended
    <2> QED
      BY <2>1, <2>2, FS_EmptySet, SessionControlAssumption DEF IInv, LimitInv
  <1>18. BindingInv'
    <2>1. \A s \in Sessions : ServesIf(s, BoundTo(s))'
      BY <1>13 DEF IInv, BindingInv, ServesIf
    <2>2. ASSUME NEW o \in Ops
          PROVE  RecallsIf(op[o], BoundTo(op[o].session))'
      <3>1. CASE ~Inside(o)'
        BY <3>1 DEF RecallsIf, Inside
      <3>2. CASE Inside(o)'
        <4>1. op'[o] = op[o] /\ Inside(o)
          BY <3>2, <1>1, <1>4 DEF Inside
        <4>2. PICK s \in Sessions : s = op[o].session
          BY <4>1 DEF IInv, LockInv, Inside, Busy
        <4>3. RecallsIf(op[o], BoundTo(s))
          BY <4>2 DEF IInv, BindingInv
        <4> QED
          BY <4>1, <4>2, <4>3, <1>13 DEF RecallsIf
      <3> QED
        BY <3>1, <3>2
    <2> QED
      BY <2>1, <2>2 DEF BindingInv
  <1> QED
    BY <1>5, <1>8, <1>9, <1>10, <1>11, <1>14, <1>15, <1>16, <1>17, <1>18 DEF IInv

LEMMA DropKeeps ==
    ASSUME IInv, Drop
    PROVE  IInv'
  <1> DEFINE which == {o \in Ops : op[o].kind # "reap"}
             Lost(k) == [child[k] EXCEPT !.old = TRUE]
  <1>1. child \in [Children -> Child]
    BY DEF IInv, Types, TypeOK
  <1>2. child' = [k \in Children |-> IF Ended(k) THEN child[k] ELSE Lost(k)]
    BY DEF Drop
  <1>3. ASSUME NEW k \in Children
        PROVE  /\ Lost(k) \in Child /\ Lost(k).status = child[k].status
               /\ Lost(k).session = child[k].session
               /\ Lost(k).grant = child[k].grant
               /\ Lost(k).audited = child[k].audited /\ Lost(k).old
    <2>1. child[k] \in Child
      BY <1>1
    <2> QED
      BY <2>1 DEF Child
  <1> HIDE DEF Lost
  <1>4. /\ child' \in [Children -> Child]
        /\ \A k \in Children : /\ child'[k].status = child[k].status
                               /\ child'[k].session = child[k].session
                               /\ child'[k].grant = child[k].grant
                               /\ child'[k].audited = child[k].audited
                               /\ ~Ended(k) => child'[k].old
    BY <1>1, <1>2, <1>3
  <1>5. which \in SUBSET Ops /\ Cancelled(which)
    BY DEF Drop
  <1> QED
    BY <1>4, <1>5, CancelKeeps DEF Drop

LEMMA DrainDoneKeeps ==
    ASSUME IInv, DrainDone
    PROVE  IInv'
  <1>1. child' = child /\ child \in [Children -> Child] /\ Cancelled(Ops)
    BY DEF DrainDone, IInv, Types, TypeOK
  <1>2. \A k \in Children : ~Ended(k) => child[k].old
    BY DEF DrainDone, IInv, OldInv
  <1> QED
    BY <1>1, <1>2, CancelKeeps DEF DrainDone

LEMMA ShutdownBeginKeeps ==
    ASSUME IInv, NEW s \in Sessions, ShutdownBegin(s)
    PROVE  IInv'
  <1>1. PICK k \in Children : k = slot[s]
    BY DEF ShutdownBegin, IInv, Types, TypeOK
  <1>2. /\ k # NoChild /\ slot' = [slot EXCEPT ![s] = NoChild]
        /\ child' = [child EXCEPT ![k] = Stop(@)] /\ stopper' = k
        /\ conn = "down" /\ UNCHANGED <<conn, op, registry, bound, grants>>
    BY <1>1 DEF ShutdownBegin
  <1>3. /\ slot' \in [Sessions -> Children \cup {NoChild}]
        /\ child' \in [Children -> Child]
        /\ slot'[s] = NoChild
        /\ \A t \in Sessions \ {s} : slot'[t] = slot[t] /\ slot[t] # k
        /\ \A j \in Children \ {k} : child'[j] = child[j]
        /\ child'[k].status # "live" /\ child'[k].old = child[k].old
        /\ Ended(k)' <=> Ended(k)
        /\ TableInv' /\ LimitInv'
    BY <1>1, <1>2, StopsTable
  <1>4. PhaseInv' /\ ClearInv' /\ AuditInv' /\ BindingInv'
    <2>1. slot \in [Sessions -> Children \cup {NoChild}]
      BY DEF IInv, Types, TypeOK
    <2>2. \A t \in Sessions : Active(t)' =>
             Active(t) /\ slot'[t] = slot[t] /\ child'[slot[t]] = child[slot[t]]
      BY <2>1, <1>3 DEF Active
    <2> QED
      BY <2>2, <1>2, LessActive
  <1>5. Types'
    BY <1>2, <1>3 DEF IInv, Types, TypeOK, GrantsSigned, Signed, Distinct, grants
  <1>6. LockInv'
    BY <1>2 DEF IInv, LockInv, Busy, Inside
  <1>7. ConnInv'
    <2>1. \A o \in Ops : ~Busy(o) /\ stopper' # o
      BY <1>2, SessionControlAssumption DEF IInv, ConnInv
    <2> QED
      BY <2>1, <1>2 DEF ConnInv, Busy
  <1>8. OldInv'
    <2>1. \A j \in Children : ~Ended(j)' => child'[j].old
      BY <1>2, <1>3 DEF IInv, OldInv, Ended
    <2> QED
      BY <2>1, <1>2 DEF OldInv, OldChildrenStopped, Ended
  <1> QED
    BY <1>3, <1>4, <1>5, <1>6, <1>7, <1>8 DEF IInv

LEMMA ShutdownEndKeeps ==
    ASSUME IInv, ShutdownEnd
    PROVE  IInv'
  <1>1. /\ stopper \in Children /\ stopper' = NoOp /\ conn = "down"
        /\ NoOp \notin Ops \cup Children /\ stopper \notin Ops
        /\ UNCHANGED <<conn, op, registry, bound, slot, child, grants>>
    BY SessionControlAssumption DEF ShutdownEnd, IInv, ConnInv
  <1>2. Types' /\ LockInv' /\ PhaseInv' /\ TableInv'
    BY <1>1 DEF IInv, Types, TypeOK, GrantsSigned, Signed, Distinct, grants,
                LockInv, Busy, Inside, PhaseInv, TableInv, NoLostChild
  <1>3. ConnInv'
    BY <1>1 DEF IInv, ConnInv, Busy
  <1>4. OldInv'
    BY <1>1 DEF IInv, OldInv, OldChildrenStopped, Ended
  <1>5. ClearInv' /\ AuditInv' /\ BindingInv'
    <2>1. \A t \in Sessions : Active(t)' => Active(t)
      BY <1>1 DEF Active
    <2> QED
      BY <2>1, <1>1, LessActive
  <1>6. LimitInv'
    BY <1>1 DEF IInv, LimitInv, Actives, Active, Running
  <1> QED
    BY <1>2, <1>3, <1>4, <1>5, <1>6 DEF IInv

LEMMA ReconnectKeeps ==
    ASSUME IInv, Reconnect
    PROVE  IInv'
  <1>1. /\ conn = "down" /\ conn' = "up" /\ stopper = NoOp
        /\ \A s \in Sessions : slot[s] = NoChild
        /\ NoOp \notin Ops \cup Children /\ NoChild \notin Children
        /\ UNCHANGED <<op, registry, stopper, bound, slot, child, grants>>
    BY SessionControlAssumption DEF Reconnect, TableEmpty
  <1>2. \A s \in Sessions : ~Active(s) /\ ~Active(s)'
    BY <1>1 DEF Active
  <1>3. \A o \in Ops : ~Inside(o) /\ ~Busy(o)
    BY <1>1 DEF IInv, ConnInv, Busy, Inside
  <1>4. Types' /\ LockInv' /\ PhaseInv' /\ TableInv'
    BY <1>1 DEF IInv, Types, TypeOK, GrantsSigned, Signed, Distinct, grants,
                LockInv, Busy, Inside, PhaseInv, TableInv, NoLostChild
  <1>5. ConnInv'
    BY <1>1 DEF IInv, ConnInv, Busy
  <1>6. OldInv'
    <2>1. \A k \in Children : child[k].status # "live"
      BY <1>1 DEF IInv, TableInv, NoLostChild
    <2> QED
      BY <2>1, <1>1 DEF IInv, OldInv, OldChildrenStopped
  <1>7. LimitInv'
    BY <1>1 DEF IInv, LimitInv, Actives, Active, Running
  <1>8. ClearInv' /\ AuditInv'
    BY <1>1, <1>2, <1>3 DEF ClearInv, AuditInv, Clear, Inside
  <1>9. BindingInv'
    BY <1>1, <1>2, <1>3 DEF BindingInv, ServesIf, RecallsIf, Inside
  <1> QED
    BY <1>4, <1>5, <1>6, <1>7, <1>8, <1>9 DEF IInv

-----------------------------------------------------------------------------
(* Every state *)

LEMMA InitHolds == Init => IInv
  <1> SUFFICES ASSUME Init
               PROVE  IInv
    OBVIOUS
  <1>1. /\ \A o \in Ops : op[o] = Idle
        /\ \A k \in Children : child[k] = NoDaemon
        /\ \A s \in Sessions : slot[s] = NoChild /\ registry[s] = NoLock
        /\ bound = <<>> /\ stopper = NoOp /\ conn = "up"
        /\ NoOp \notin Ops \cup Children
    BY SessionControlAssumption DEF Init
  <1>2. /\ Idle.phase = "idle" /\ Idle.grant = NoGrant /\ Idle.prev = NoGrant
        /\ NoDaemon.status = "none" /\ NoDaemon \in Child /\ PhaseOK(Idle)
    BY DEF Idle, NoDaemon, Child, PhaseOK, Restores
  <1>3. grant \in Seq(Grant) /\ Len(grant) <= MaxGrants /\ given = DOMAIN grant
    BY SessionControlAssumption DEF Init
  <1>4. given \in SUBSET Grants
    BY <1>3, SessionControlAssumption DEF Grants
  <1>5. TypeOK
    <2>1. op \in [Ops -> Op] /\ child \in [Children -> Child]
      BY <1>2, IdleIsOp DEF Init
    <2>2. bound \in Seq(Binding) /\ Len(bound) <= MaxBindings
      BY <1>1, SessionControlAssumption
    <2> QED
      BY <1>3, <1>4, <2>1, <2>2 DEF Init, TypeOK
  <1>6. Types
    BY <1>1, <1>2, <1>3, <1>5 DEF Types, GrantsSigned, Signed, Distinct
  <1>7. LockInv /\ ConnInv /\ PhaseInv
    BY <1>1, <1>2 DEF LockInv, ConnInv, PhaseInv, Busy, Inside
  <1>8. \A s \in Sessions : ~Active(s)
    BY <1>1 DEF Active
  <1>9. TableInv /\ AuditInv /\ OldInv
    BY <1>1, <1>2, <1>8 DEF TableInv, NoLostChild, AuditInv, OldInv, OldChildrenStopped, Ended
  <1>10. ClearInv /\ BindingInv
    BY <1>1, <1>2, <1>8 DEF ClearInv, Clear, BindingInv, ServesIf, RecallsIf, Idle, Restores
  <1>11. LimitInv
    <2>1. Actives = {} /\ Running = {}
      BY <1>1, <1>2, <1>8 DEF Actives, Running
    <2> QED
      BY <2>1, FS_EmptySet, SessionControlAssumption DEF LimitInv
  <1> QED
    BY <1>6, <1>7, <1>9, <1>10, <1>11 DEF IInv

LEMMA StutterKeeps ==
    ASSUME IInv, UNCHANGED vars
    PROVE  IInv'
  <1>1. UNCHANGED <<conn, op, registry, stopper, bound, slot, child, grant, given>>
    BY DEF vars, grants
  <1>2. Types' /\ LockInv' /\ ConnInv' /\ PhaseInv'
    BY <1>1 DEF IInv, Types, TypeOK, GrantsSigned, Signed, Distinct, LockInv,
                ConnInv, PhaseInv, Busy, Inside
  <1>3. TableInv' /\ OldInv' /\ LimitInv'
    BY <1>1 DEF IInv, TableInv, NoLostChild, OldInv, OldChildrenStopped, Ended,
                LimitInv, Actives, Active, Running
  <1>4. ClearInv' /\ AuditInv' /\ BindingInv'
    <2>1. \A t \in Sessions : Active(t)' => Active(t)
      BY <1>1 DEF Active
    <2> QED
      BY <2>1, <1>1, LessActive
  <1> QED
    BY <1>2, <1>3, <1>4 DEF IInv

LEMMA EntersKeeps ==
    ASSUME IInv, NEW o \in Ops, Enters(o)
    PROVE  IInv'
  BY AttachEntersKeeps, ActivateEntersKeeps, RestoreEntersKeeps,
     DetachEntersKeeps, ReapEntersKeeps DEF Enters

LEMMA ReturnsKeeps ==
    ASSUME IInv, NEW o \in Ops, Returns(o)
    PROVE  IInv'
  BY AttachResolvedKeeps, AttachAuditedKeeps, ActivateVerifiedKeeps,
     RestoreVerifiedKeeps, StartAuditedKeeps, StartFailsKeeps,
     DetachAuditedKeeps, ReapAuditedKeeps, RefusalsKeep DEF Returns

LEMMA TurnKeeps ==
    ASSUME IInv, NEW o \in Ops, Turn(o)
    PROVE  IInv'
  BY StartChildKeeps, StartFailsKeeps, RestartKeeps, RefusalsKeep,
     StopNothingKeeps, StopBeginKeeps DEF Turn

LEMMA NextKeeps == IInv /\ [Next]_vars => IInv'
  <1> SUFFICES ASSUME IInv, [Next]_vars
               PROVE  IInv'
    OBVIOUS
  <1>1. ASSUME NEW o \in Ops, NEW s \in Sessions, NEW kind \in Kinds \ {"reap"},
               Request(o, kind, s)
        PROVE  IInv'
    <2>1. kind \in Kind \ {"reap"}
      BY SessionControlAssumption DEF Kind
    <2> QED
      BY <1>1, <2>1, RequestKeeps
  <1>2. ASSUME NEW o \in Ops, NEW s \in Sessions, Reap(o, s)
        PROVE  IInv'
    BY <1>2, ReapKeeps
  <1>3. ASSUME NEW o \in Ops, Enters(o) \/ Returns(o) \/ Turn(o) \/ StopEnd(o)
        PROVE  IInv'
    BY <1>3, EntersKeeps, ReturnsKeeps, TurnKeeps, StopEndKeeps
  <1>4. ASSUME NEW k \in Children, ChildEnds(k) \/ ChildFinished(k)
        PROVE  IInv'
    BY <1>4, ChildEndsKeeps, ChildFinishedKeeps
  <1>5. CASE Drop
    BY <1>5, DropKeeps
  <1>6. CASE DrainDone
    BY <1>6, DrainDoneKeeps
  <1>7. ASSUME NEW s \in Sessions, ShutdownBegin(s)
        PROVE  IInv'
    BY <1>7, ShutdownBeginKeeps
  <1>8. CASE ShutdownEnd
    BY <1>8, ShutdownEndKeeps
  <1>9. CASE Reconnect
    BY <1>9, ReconnectKeeps
  <1>10. CASE UNCHANGED vars
    BY <1>10, StutterKeeps
  <1> QED
    BY <1>1, <1>2, <1>3, <1>4, <1>5, <1>6, <1>7, <1>8, <1>9, <1>10 DEF Next

(* The invariant holds in every state of every behaviour. *)
THEOREM Invariance == Spec => []IInv
  BY InitHolds, NextKeeps, PTL DEF Spec

-----------------------------------------------------------------------------
(* What follows *)

(* Every variable has its type: no operation, binding or child names what  *)
(* does not exist, and the table of bindings never exceeds its limit       *)
(* (_remember_binding).                                                    *)
THEOREM TypeCorrect == Spec => []TypeOK
  <1>1. IInv => TypeOK
    BY DEF IInv, Types
  <1> QED
    BY <1>1, Invariance, PTL

(* Two operations never work on one chat at the same time                  *)
(* (_session_lock).                                                        *)
THEOREM OneOperationPerChat == Spec => []LockExcludes
  <1>1. IInv => LockExcludes
    BY DEF IInv, LockInv, LockExcludes, Inside, Busy
  <1> QED
    BY <1>1, Invariance, PTL

(* A child that is not being stopped is found in the table                 *)
(* (_child_finished).                                                      *)
THEOREM TheTableHasEveryChild == Spec => []NoLostChild
  <1>1. IInv => NoLostChild
    BY DEF IInv, TableInv
  <1> QED
    BY <1>1, Invariance, PTL

(* The child of a chat serves the directory the chat is bound to           *)
(* (_handle_restore_session_locked).                                       *)
THEOREM TheBoundRootServes == Spec => []BoundRootServes
  <1>1. IInv => BoundRootServes
    BY DEF IInv, BindingInv, ServesIf, BoundRootServes
  <1> QED
    BY <1>1, Invariance, PTL

(* A child that runs when no operation works on its chat was audited       *)
(* (_handle_activate_session_locked).                                      *)
THEOREM EveryStartIsAudited == Spec => []NothingServesUnaudited
  <1>1. IInv => NothingServesUnaudited
    BY DEF IInv, AuditInv, NothingServesUnaudited, Settled, Answers, Inside
  <1> QED
    BY <1>1, Invariance, PTL

(* A control connection serves with no child of an earlier one             *)
(* (_run_session, _shutdown_children).                                     *)
THEOREM OldChildrenAreStopped == Spec => []OldChildrenStopped
  <1>1. IInv => OldChildrenStopped
    BY DEF IInv, OldInv
  <1> QED
    BY <1>1, Invariance, PTL

(* The limit on children holds while they end (_start_child_session).      *)
THEOREM TheLimitHolds == Spec => []ChildrenWithinLimit
  <1>1. IInv => ChildrenWithinLimit
    BY DEF IInv, LimitInv, Running, ChildrenWithinLimit
  <1> QED
    BY <1>1, Invariance, PTL

(* A detached chat has no binding and no child that serves                 *)
(* (_handle_detach_session_locked).                                        *)
THEOREM ADetachLeavesNothing == Spec => DetachLeavesNothing
  <1>1. ASSUME IInv, NEW o \in Ops, NEW s \in Sessions, DetachAudited(o),
               op[o].session = s
        PROVE  /\ BoundTo(s)' = NoGrant
               /\ \A k \in Children : child'[k].status = "live" => child'[k].session # s
    <2>1. op[o].kind = "detach" /\ op[o].phase = "auditing" /\ child' = child
      BY <1>1 DEF DetachAudited
    <2>2. BoundTo(s)' = NoGrant
      BY <1>1, ForgetRebinds DEF DetachAudited, IInv, Rebinds
    <2>3. ~Active(s)
      BY <1>1, <2>1 DEF IInv, ClearInv, Clear
    <2>4. ASSUME NEW k \in Children, child[k].status = "live", child[k].session = s
          PROVE  FALSE
      <3>1. slot[s] = k
        BY <1>1, <2>4 DEF IInv, TableInv, NoLostChild
      <3>2. k # NoChild
        BY SessionControlAssumption
      <3> QED
        BY <2>3, <2>4, <3>1, <3>2 DEF Active
    <2> QED
      BY <2>1, <2>2, <2>4
  <1>2. IInv /\ [Next]_vars =>
          [\A o \in Ops, s \in Sessions : DetachAudited(o) /\ op[o].session = s =>
             /\ BoundTo(s)' = NoGrant
             /\ \A k \in Children :
                  child'[k].status = "live" => child'[k].session # s]_vars
    BY <1>1
  <1> QED
    BY <1>2, Invariance, PTL DEF Spec, DetachLeavesNothing

-----------------------------------------------------------------------------
(* What an operation waits for                                             *)

(* o goes on by itself: it has a lock it waits for when it is its turn, a  *)
(* thread or an audit write returns, a child that was stopped ends.        *)
Advances(o) ==
    \/ LockFree(o)
    \/ op[o].phase \in {"resolving", "issuing", "verifying", "auditing"}
    \/ op[o].phase \in {"stop", "start", "restart"} /\ stopper = NoOp
    \/ op[o].phase = "ending" /\ child[op[o].target].status # "live"

(* o waits for a lock that q holds: its chat's, or _children_lock.         *)
WaitsFor(o, q) ==
    \/ op[o].phase = "lock" /\ Inside(q) /\ op[q].session = op[o].session
    \/ op[o].phase \in {"stop", "start", "restart"} /\ stopper = q

(* Who waits for a lock is at most two locks away from one that goes on.   *)
WaitsAreShort ==
    \A o \in Ops : Busy(o) =>
        \/ Advances(o)
        \/ \E q \in Ops \ {o} :
              /\ WaitsFor(o, q)
              /\ Advances(q) \/ \E p \in Ops \ {o, q} : WaitsFor(q, p) /\ Advances(p)

(* The child whose end is awaited was told to stop, and is not started     *)
(* again meanwhile.                                                        *)
AwaitedInv ==
    \A o \in Ops : op[o].phase = "ending" =>
        op[o].target \in Children /\ child[op[o].target].status # "live"

(* o goes on to something else than a child's end; the others stay.        *)
Elsewhere(o) == op'[o].phase # "ending" /\ \A q \in Ops \ {o} : op'[q] = op[q]

LEMMA AwaitedStays ==
    ASSUME AwaitedInv,
           \A o \in Ops : op'[o].phase = "ending" =>
               op[o].phase = "ending" /\ op'[o].target = op[o].target,
           \A k \in Children : child'[k].status = "live" =>
               child[k].status = "live" \/ \A o \in Ops : op[o].target # k
    PROVE  AwaitedInv'
  BY DEF AwaitedInv

LEMMA LeavesElsewhere ==
    ASSUME op \in [Ops -> Op], NEW o \in Ops, Leaves(o)
    PROVE  Elsewhere(o)
  BY DEF Leaves, Elsewhere, Idle

LEMMA AwaitsElsewhere ==
    ASSUME op \in [Ops -> Op], NEW o \in Ops, NEW next, Awaits(o, next), next.phase # "ending"
    PROVE  Elsewhere(o)
  BY DEF Awaits, Elsewhere

(* What o may hold next.                                                   *)
LEMMA NextPhase ==
    ASSUME op \in [Ops -> Op], NEW o \in Ops
    PROVE  /\ [op[o] EXCEPT !.phase = "resolving"].phase # "ending"
           /\ \A g : [op[o] EXCEPT !.phase = "issuing", !.grant = g].phase # "ending"
           /\ \A g : [op[o] EXCEPT !.phase = "verifying", !.grant = g].phase # "ending"
           /\ [op[o] EXCEPT !.phase = "verifying"].phase # "ending"
           /\ [op[o] EXCEPT !.phase = "auditing"].phase # "ending"
           /\ \A why : ToStop(o, why).phase # "ending"
  <1>1. op[o] \in Op
    OBVIOUS
  <1> QED
    BY <1>1 DEF Op, ToStop

LEMMA UndoneElsewhere ==
    ASSUME op \in [Ops -> Op], NEW o \in Ops, Undone(o)
    PROVE  Elsewhere(o)
  <1>1. op[o] \in Op
    OBVIOUS
  <1>2. [op[o] EXCEPT !.phase = "restart", !.why = "none", !.target = NoChild].phase # "ending"
    BY <1>1 DEF Op
  <1> QED
    BY <1>2, LeavesElsewhere, AwaitsElsewhere DEF Undone

LEMMA StoppedElsewhere ==
    ASSUME op \in [Ops -> Op], NEW o \in Ops, Stopped(o)
    PROVE  Elsewhere(o)
  <1>1. op[o] \in Op
    OBVIOUS
  <1>2. [op[o] EXCEPT !.phase = "start", !.fresh = TRUE,
                      !.why = "none", !.target = NoChild].phase # "ending"
    BY <1>1 DEF Op
  <1>3. [op[o] EXCEPT !.phase = "auditing", !.why = "none",
                      !.target = NoChild].phase # "ending"
    BY <1>1 DEF Op
  <1> QED
    BY <1>2, <1>3, LeavesElsewhere, AwaitsElsewhere, UndoneElsewhere DEF Stopped

LEMMA BindsElsewhere ==
    ASSUME op \in [Ops -> Op], NEW o \in Ops, NEW prev, NEW fresh, Binds(o, prev, fresh)
    PROVE  Elsewhere(o)
  <1> DEFINE next == [op[o] EXCEPT !.prev = prev, !.fresh = fresh,
                                   !.phase = IF fresh THEN "start" ELSE "auditing"]
  <1>1. op[o] \in Op /\ Awaits(o, next)
    BY DEF Binds
  <1>2. next.phase # "ending"
    BY <1>1 DEF Op
  <1> HIDE DEF next
  <1> QED
    BY <1>1, <1>2, AwaitsElsewhere

(* A step of o that starts no child.                                       *)
LEMMA AwaitedKept ==
    ASSUME AwaitedInv, NEW o \in Ops, Elsewhere(o),
           \A k \in Children : child'[k].status = "live" => child[k].status = "live"
    PROVE  AwaitedInv'
  BY AwaitedStays DEF Elsewhere

LEMMA EntersAwaited ==
    ASSUME IInv, AwaitedInv, NEW o \in Ops, Enters(o)
    PROVE  AwaitedInv'
  <1>1. op \in [Ops -> Op]
    BY DEF IInv, Types, TypeOK
  <1>2. Elsewhere(o)
    <2>1. CASE AttachEnters(o)
      BY <1>1, <2>1, NextPhase, LeavesElsewhere, AwaitsElsewhere DEF AttachEnters
    <2>2. CASE ActivateEnters(o)
      BY <1>1, <2>2, NextPhase, LeavesElsewhere, AwaitsElsewhere DEF ActivateEnters
    <2>3. CASE RestoreEnters(o)
      BY <1>1, <2>3, NextPhase, AwaitsElsewhere DEF RestoreEnters
    <2>4. CASE DetachEnters(o)
      BY <1>1, <2>4, NextPhase, AwaitsElsewhere DEF DetachEnters
    <2>5. CASE ReapEnters(o)
      BY <1>1, <2>5, NextPhase, LeavesElsewhere, AwaitsElsewhere DEF ReapEnters
    <2> QED
      BY <2>1, <2>2, <2>3, <2>4, <2>5 DEF Enters
  <1>3. child' = child
    BY DEF Enters, AttachEnters, ActivateEnters, RestoreEnters, DetachEnters, ReapEnters
  <1> QED
    BY <1>2, <1>3, AwaitedKept

LEMMA ReturnsAwaited ==
    ASSUME IInv, AwaitedInv, NEW o \in Ops, Returns(o)
    PROVE  AwaitedInv'
  <1>1. op \in [Ops -> Op]
    BY DEF IInv, Types, TypeOK
  <1>2. CASE AttachResolved(o)
    <2>1. Elsewhere(o) /\ child' = child
      BY <1>1, <1>2, NextPhase, AwaitsElsewhere DEF AttachResolved
    <2> QED
      BY <2>1, AwaitedKept
  <1>3. CASE AttachRefused(o) \/ AttachAudited(o) \/ AttachUnaudited(o) \/ VerifyFails(o)
             \/ RestoreOutdated(o) \/ DetachAudited(o) \/ StopUnaudited(o)
    <2>1. Leaves(o) /\ child' = child
      BY <1>3 DEF AttachRefused, AttachAudited, AttachUnaudited, VerifyFails,
                  RestoreOutdated, DetachAudited, StopUnaudited
    <2> QED
      BY <1>1, <2>1, LeavesElsewhere, AwaitedKept
  <1>4. CASE ActivateVerified(o)
    <2>1. Elsewhere(o) /\ child' = child
      BY <1>1, <1>4, BindsElsewhere DEF ActivateVerified
    <2> QED
      BY <2>1, AwaitedKept
  <1>5. CASE RestoreVerified(o)
    <2> DEFINE s == op[o].session
               was == IF child[slot[s]].audited THEN "audited" ELSE "unaudited"
    <2>1. op[o] \in Op
      BY <1>1
    <2>2. [ToStop(o, "replace") EXCEPT !.prev = BoundTo(s), !.replaced = was].phase # "ending"
      BY <2>1 DEF Op, ToStop
    <2>3. CASE Replaces(s, op[o].grant)
      <3>1. Awaits(o, [ToStop(o, "replace") EXCEPT !.prev = BoundTo(s), !.replaced = was])
        BY <1>5, <2>3 DEF RestoreVerified
      <3> QED
        BY <1>1, <1>5, <2>2, <3>1, AwaitsElsewhere, AwaitedKept DEF RestoreVerified
    <2>4. CASE ~Replaces(s, op[o].grant)
      BY <1>1, <1>5, <2>4, BindsElsewhere, AwaitedKept DEF RestoreVerified
    <2> QED
      BY <2>3, <2>4
  <1>6. CASE StartAudited(o)
    <2>1. Elsewhere(o)
      BY <1>1, <1>6, LeavesElsewhere DEF StartAudited
    <2>2. ASSUME NEW k \in Children PROVE child'[k].status = child[k].status
      <3>1. child \in [Children -> Child] /\ child[k] \in Child
        BY DEF IInv, Types, TypeOK
      <3>2. [child[k] EXCEPT !.audited = TRUE].status = child[k].status
        BY <3>1 DEF Child
      <3> QED
        BY <1>6, <3>1, <3>2 DEF StartAudited
    <2> QED
      BY <2>1, <2>2, AwaitedKept
  <1>7. CASE StartFails(o)
    <2>1. Elsewhere(o)
      BY <1>1, <1>7, NextPhase, AwaitsElsewhere, UndoneElsewhere DEF StartFails
    <2>2. child' = child
      BY <1>7 DEF StartFails
    <2> QED
      BY <2>1, <2>2, AwaitedKept
  <1>8. CASE ReapAudited(o)
    <2>1. Elsewhere(o) /\ child' = child
      BY <1>1, <1>8, NextPhase, AwaitsElsewhere DEF ReapAudited
    <2> QED
      BY <2>1, AwaitedKept
  <1> QED
    BY <1>2, <1>3, <1>4, <1>5, <1>6, <1>7, <1>8 DEF Returns

(* No identity whose end is awaited goes to a new child.                   *)
LEMMA StartsAwaited ==
    ASSUME IInv, AwaitedInv, NEW o \in Ops, NEW s, NEW g, NEW audited,
           Starts(s, g, audited), Elsewhere(o)
    PROVE  AwaitedInv'
  <1>1. PICK k \in Children :
            /\ Spare(k)
            /\ child' = [child EXCEPT ![k] = [status |-> "live", session |-> s, grant |-> g,
                                              audited |-> audited, old |-> FALSE]]
    BY DEF Starts
  <1>2. child \in [Children -> Child]
    BY DEF IInv, Types, TypeOK
  <1>3. \A j \in Children \ {k} : child'[j] = child[j]
    BY <1>1, <1>2
  <1>4. \A q \in Ops : op[q].target # k
    BY <1>1 DEF Spare
  <1> QED
    BY <1>3, <1>4, AwaitedStays DEF Elsewhere

LEMMA StopIs ==
    ASSUME NEW c \in Child
    PROVE  Stop(c).status # "live" /\ End(c).status = "done"
  BY DEF Child, Stop, End

(* The child that is stopped is no longer live.                            *)
LEMMA StopBeginAwaited ==
    ASSUME IInv, AwaitedInv, NEW o \in Ops, StopBegin(o)
    PROVE  AwaitedInv'
  <1> DEFINE k == slot[op[o].session]
             next == [op[o] EXCEPT !.phase = "ending", !.target = k]
  <1>1. op \in [Ops -> Op] /\ op[o] \in Op /\ child \in [Children -> Child]
    BY DEF IInv, Types, TypeOK
  <1>2. op[o].phase = "stop" /\ k # NoChild
    BY DEF StopBegin
  <1>3. k \in Children
    <2>1. op[o].session \in Sessions
      BY <1>2 DEF IInv, LockInv, Busy
    <2> QED
      BY <1>2, <2>1 DEF IInv, Types, TypeOK
  <1>4. /\ op' = [op EXCEPT ![o] = next]
        /\ child' = [child EXCEPT ![k] = Stop(child[k])]
    BY DEF StopBegin, Awaits
  <1>5. next.target = k
    BY <1>1 DEF Op
  <1> HIDE DEF next, k
  <1>6. /\ op'[o] = next /\ \A q \in Ops \ {o} : op'[q] = op[q]
        /\ child'[k] = Stop(child[k]) /\ \A j \in Children \ {k} : child'[j] = child[j]
    BY <1>1, <1>3, <1>4
  <1>7. child'[k].status # "live"
    BY <1>1, <1>3, <1>6, StopIs
  <1> QED
    BY <1>3, <1>5, <1>6, <1>7 DEF AwaitedInv

LEMMA TurnAwaited ==
    ASSUME IInv, AwaitedInv, NEW o \in Ops, Turn(o)
    PROVE  AwaitedInv'
  <1>1. op \in [Ops -> Op]
    BY DEF IInv, Types, TypeOK
  <1>2. CASE StartChild(o)
    BY <1>1, <1>2, NextPhase, AwaitsElsewhere, StartsAwaited DEF StartChild
  <1>3. CASE StartFails(o)
    BY <1>3, ReturnsAwaited DEF Returns
  <1>4. CASE Restart(o)
    BY <1>1, <1>4, LeavesElsewhere, StartsAwaited DEF Restart
  <1>5. CASE RestartFails(o)
    BY <1>1, <1>5, LeavesElsewhere, AwaitedKept DEF RestartFails
  <1>6. CASE StopNothing(o)
    BY <1>1, <1>6, StoppedElsewhere, AwaitedKept DEF StopNothing
  <1>7. CASE StopBegin(o)
    BY <1>7, StopBeginAwaited
  <1> QED
    BY <1>2, <1>3, <1>4, <1>5, <1>6, <1>7 DEF Turn

LEMMA ChildAwaited ==
    ASSUME IInv, AwaitedInv, NEW k \in Children, ChildEnds(k) \/ ChildFinished(k)
    PROVE  AwaitedInv'
  <1>1. child \in [Children -> Child] /\ op' = op
    BY DEF IInv, Types, TypeOK, ChildEnds, ChildFinished
  <1>2. child'[k].status # "live" /\ \A j \in Children \ {k} : child'[j] = child[j]
    <2>1. CASE ChildEnds(k)
      BY <1>1, <2>1, StopIs DEF ChildEnds
    <2>2. CASE ChildFinished(k)
      BY <1>1, <2>2 DEF ChildFinished, NoDaemon
    <2> QED
      BY <2>1, <2>2
  <1> QED
    BY <1>1, <1>2, AwaitedStays

(* A request comes, or the reaper: it waits for a lock.                    *)
LEMMA ComesAwaited ==
    ASSUME IInv, AwaitedInv, NEW o \in Ops, NEW s, NEW kind, Request(o, kind, s) \/ Reap(o, s)
    PROVE  AwaitedInv'
  <1>1. op \in [Ops -> Op] /\ child' = child
    <2>1. op \in [Ops -> Op]
      BY DEF IInv, Types, TypeOK
    <2>2. child' = child
      BY Zenon DEF Request, Reap
    <2> QED
      BY <2>1, <2>2
  <1>2. Elsewhere(o)
    <2>1. CASE Request(o, kind, s)
      <3>1. PICK l, g : op' = [op EXCEPT ![o] = [Idle EXCEPT !.kind = kind, !.session = s,
                                          !.phase = "lock", !.lock = l, !.grant = g]]
        BY <2>1, Zenon DEF Request
      <3> QED
        BY <1>1, <3>1 DEF Elsewhere, Idle
    <2>2. CASE Reap(o, s)
      <3>1. PICK l : op' = [op EXCEPT ![o] = [Idle EXCEPT !.kind = "reap", !.session = s,
                                       !.phase = "lock", !.lock = l, !.target = slot[s]]]
        BY <2>2, Zenon DEF Reap
      <3> QED
        BY <1>1, <3>1 DEF Elsewhere, Idle
    <2> QED
      BY <2>1, <2>2
  <1> QED
    BY <1>1, <1>2, AwaitedKept

LEMMA CancelledAwaited ==
    ASSUME IInv, AwaitedInv, NEW which, Cancelled(which),
           \A k \in Children : child'[k].status = child[k].status
    PROVE  AwaitedInv'
  <1>1. \A o \in Ops : op'[o] = op[o] \/ op'[o].phase = "idle"
    BY DEF Cancelled, Idle
  <1> QED
    BY <1>1, AwaitedStays

LEMMA ConnectionAwaited ==
    ASSUME IInv, AwaitedInv,
           \/ Drop \/ DrainDone \/ ShutdownEnd \/ Reconnect
           \/ \E s \in Sessions : ShutdownBegin(s)
    PROVE  AwaitedInv'
  <1>1. child \in [Children -> Child]
    BY DEF IInv, Types, TypeOK
  <1>2. CASE Drop
    <2>1. ASSUME NEW k \in Children PROVE child'[k].status = child[k].status
      <3>1. [child[k] EXCEPT !.old = TRUE].status = child[k].status
        BY <1>1 DEF Child
      <3> QED
        BY <1>2, <3>1 DEF Drop
    <2> QED
      BY <1>2, <2>1, CancelledAwaited DEF Drop
  <1>3. CASE DrainDone
    BY <1>3, CancelledAwaited DEF DrainDone
  <1>4. CASE ShutdownEnd \/ Reconnect
    BY <1>4, AwaitedStays DEF ShutdownEnd, Reconnect
  <1>5. ASSUME NEW s \in Sessions, ShutdownBegin(s)
        PROVE  AwaitedInv'
    <2>1. slot[s] \in Children
      BY <1>5 DEF ShutdownBegin, IInv, Types, TypeOK
    <2>2. \A k \in Children : child'[k].status = "live" => child[k].status = "live"
      BY <1>1, <1>5, <2>1, StopIs DEF ShutdownBegin
    <2> QED
      BY <1>5, <2>2, AwaitedStays DEF ShutdownBegin
  <1> QED
    BY <1>2, <1>3, <1>4, <1>5

LEMMA AwaitedStep ==
    ASSUME IInv, AwaitedInv, [Next]_vars
    PROVE  AwaitedInv'
  <1>1. ASSUME NEW o \in Ops, StopEnd(o)
        PROVE  AwaitedInv'
    BY <1>1, StoppedElsewhere, AwaitedKept DEF StopEnd, IInv, Types, TypeOK
  <1>2. CASE UNCHANGED vars
    BY <1>2, AwaitedStays DEF vars
  <1> QED
    BY <1>1, <1>2, ComesAwaited, EntersAwaited, ReturnsAwaited, TurnAwaited, ChildAwaited,
       ConnectionAwaited DEF Next

(* How the waits hang together.                                            *)
LEMMA ShortWaits ==
    ASSUME IInv, AwaitedInv
    PROVE  WaitsAreShort
  <1>1. op \in [Ops -> Op] /\ stopper \in Ops \cup Children \cup {NoOp}
    BY DEF IInv, Types, TypeOK
  (* One that has its chat's lock waits at most for _children_lock. *)
  <1>2. ASSUME NEW q \in Ops, Inside(q), ~Advances(q)
        PROVE  \E p \in Ops \ {q} : WaitsFor(q, p) /\ Advances(p) /\ op[p].phase = "ending"
    <2>1. op[q].phase \in Phase \ {"idle", "lock"}
      BY <1>1, <1>2 DEF Op, Inside
    <2>2. op[q].phase \in {"stop", "start", "restart"} /\ stopper # NoOp
      BY <1>2, <2>1 DEF Phase, Advances, AwaitedInv
    <2>3. stopper \in Ops
      <3>1. conn # "down"
        BY <2>2 DEF IInv, ConnInv, Busy
      <3> QED
        BY <1>1, <2>2, <3>1 DEF IInv, ConnInv
    <2>4. op[stopper].phase = "ending"
      BY <2>3 DEF IInv, ConnInv
    <2>5. Advances(stopper)
      BY <2>3, <2>4 DEF Advances, AwaitedInv
    <2> QED
      BY <2>2, <2>3, <2>4, <2>5 DEF WaitsFor
  <1>3. ASSUME NEW o \in Ops, op[o].phase = "lock", ~LockFree(o)
        PROVE  \E q \in Ops \ {o} : WaitsFor(o, q) /\ Inside(q)
    <2>1. PICK q \in Ops : Inside(q) /\ op[q].lock = op[o].lock
      BY <1>3 DEF LockFree
    <2>2. q # o
      BY <1>3, <2>1 DEF Inside
    <2>3. op[q].session = op[o].session
      <3>1. Busy(o) /\ Busy(q)
        BY <1>3, <2>1 DEF Busy, Inside
      <3>2. /\ op[o].session \in Sessions /\ op[q].session \in Sessions
            /\ registry[op[o].session] = op[o].lock /\ op[o].lock \in Locks
            /\ registry[op[q].session] = op[q].lock
        BY <3>1 DEF IInv, LockInv
      <3> QED
        BY <2>1, <3>2, SessionControlAssumption DEF IInv, LockInv
    <2> QED
      BY <1>3, <2>1, <2>2, <2>3 DEF WaitsFor
  <1>4. ASSUME NEW o \in Ops, Busy(o), ~Advances(o)
        PROVE  \E q \in Ops \ {o} :
                  /\ WaitsFor(o, q)
                  /\ Advances(q) \/ \E p \in Ops \ {o, q} : WaitsFor(q, p) /\ Advances(p)
    <2>1. CASE Inside(o)
      BY <1>2, <1>4, <2>1
    <2>2. CASE op[o].phase = "lock"
      <3>1. PICK q \in Ops \ {o} : WaitsFor(o, q) /\ Inside(q)
        BY <1>3, <1>4, <2>2 DEF Advances
      <3>2. CASE Advances(q)
        BY <3>1, <3>2
      <3>3. CASE ~Advances(q)
        <4>1. PICK p \in Ops \ {q} : WaitsFor(q, p) /\ Advances(p) /\ op[p].phase = "ending"
          BY <1>2, <3>1, <3>3
        <4>2. p # o
          BY <2>2, <4>1
        <4> QED
          BY <3>1, <4>1, <4>2
      <3> QED
        BY <3>2, <3>3
    <2> QED
      BY <1>4, <2>1, <2>2 DEF Busy, Inside
  <1> QED
    BY <1>4 DEF WaitsAreShort

(* Every operation that waits for a lock is at most two locks away from    *)
(* one that goes on by itself: no two operations wait for each other, and  *)
(* nobody waits for a child that was not told to stop, for any number of   *)
(* chats, operations and children (_session_lock, _children_lock).         *)
THEOREM NobodyWaitsInVain == Spec => []WaitsAreShort
  <1>1. Init => AwaitedInv
    BY DEF Init, AwaitedInv, Idle
  <1>2. IInv /\ AwaitedInv /\ [Next]_vars => AwaitedInv'
    BY AwaitedStep
  <1>3. IInv /\ AwaitedInv => WaitsAreShort
    BY ShortWaits
  <1> QED
    BY <1>1, <1>2, <1>3, Invariance, PTL DEF Spec

=============================================================================
