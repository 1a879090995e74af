----------------------------- MODULE RepliesProofs -----------------------------
(***************************************************************************)
(* What Replies promises of every reply, for any folder, output and        *)
(* result and any limits, proved: a listing, an output or a result that is *)
(* cut says so, and no more images go out in a minute than may.            *)
(*                                                                         *)
(* The walk of a folder and the size of a result are recursive functions;  *)
(* what they are is proved by induction on how far they have come, with    *)
(* sets of numbers in place of predicates (UpTo).  Of the images, the      *)
(* invariant says that the limiter's events are the last of those sent,    *)
(* and that the others are older than its window.                          *)
(***************************************************************************)
EXTENDS Replies, SequenceTheorems, FiniteSetTheorems, NaturalsInduction, TLAPS

(* The walk of a folder, and the set of what it knows at every turn.       *)
Walker == [listed : SUBSET Nat, bytes : Nat, over : BOOLEAN]

-----------------------------------------------------------------------------
(* Numbers, and functions on numbers                                       *)

(* A non-empty set of numbers has a least one.                             *)
LEMMA LeastOf ==
    ASSUME NEW s \in SUBSET Nat, s # {}
    PROVE  \E m \in s : \A n \in s : m <= n
  <1> DEFINE R == OpToRel(<, Nat)
  <1>1. IsWellFoundedOn(R, Nat)
    BY NatLessThanWellFounded
  <1>2. PICK m \in s : \A n \in s : ~(<<n, m>> \in R)
    <2> HIDE DEF R
    <2> QED
      BY <1>1, WFMin
  <1>3. \A n \in s : ~(n < m)
    BY <1>2 DEF OpToRel
  <1> QED
    BY <1>3

(* Induction up to n, on a set of numbers.                                 *)
LEMMA UpTo ==
    ASSUME NEW n \in Nat, NEW s \in SUBSET (0..n), 0 \in s,
           \A k \in 1..n : k - 1 \in s => k \in s
    PROVE  s = 0..n
  <1> SUFFICES ASSUME (0..n) \ s # {} PROVE FALSE
    OBVIOUS
  <1>1. PICK m \in (0..n) \ s : \A k \in (0..n) \ s : m <= k
    <2>1. (0..n) \ s \in SUBSET Nat
      OBVIOUS
    <2> QED
      BY <2>1, LeastOf
  <1>2. m \in 1..n /\ m - 1 \in 0..n /\ ~(m <= m - 1)
    BY <1>1
  <1>3. m - 1 \in s
    BY <1>1, <1>2
  <1> QED
    BY <1>1, <1>2, <1>3

(* A function can be made step by step.                                    *)
Goes(g, n, W, first, step) ==
    g \in [0..n -> W] /\ g[0] = first /\ \A k \in 1..n : g[k] = step[k][g[k - 1]]

LEMMA StepByStep ==
    ASSUME NEW n \in Nat, NEW W, NEW first \in W, NEW step \in [1..n -> [W -> W]]
    PROVE  \E g : Goes(g, n, W, first, step)
  <1> DEFINE Made(g, m) == g[0] = first /\ \A k \in 1..m : g[k] = step[k][g[k - 1]]
             s == {m \in 0..n : \E g \in [0..m -> W] : Made(g, m)}
  <1>1. 0 \in s
    <2>1. [k \in 0..0 |-> first] \in [0..0 -> W] /\ Made([k \in 0..0 |-> first], 0)
      OBVIOUS
    <2>2. \E g \in [0..0 -> W] : Made(g, 0)
      <3> HIDE DEF Made
      <3> QED
        BY <2>1
    <2> QED
      BY <2>2
  <1>2. ASSUME NEW m \in 1..n, m - 1 \in s
        PROVE  m \in s
    <2>1. PICK g \in [0..(m - 1) -> W] : Made(g, m - 1)
      BY <1>2
    <2> DEFINE h == [k \in 0..m |-> IF k = m THEN step[m][g[m - 1]] ELSE g[k]]
    <2>2. m \in Nat /\ m # 0 /\ 0 \in 0..m /\ m - 1 \in 0..(m - 1)
      OBVIOUS
    <2>3. g[m - 1] \in W /\ step[m] \in [W -> W] /\ step[m][g[m - 1]] \in W
      BY <2>2
    <2>4. \A k \in 0..m : k = m \/ k \in 0..(m - 1)
      OBVIOUS
    <2>5. h \in [0..m -> W]
      BY <2>3, <2>4
    <2>6. h[0] = first
      BY <2>1, <2>2
    <2>7. ASSUME NEW k \in 1..m
          PROVE  h[k] = step[k][h[k - 1]]
      <3>1. k - 1 \in 0..m /\ k - 1 # m /\ h[k - 1] = g[k - 1]
        BY <2>2
      <3>2. CASE k = m
        BY <3>1, <3>2
      <3>3. CASE k # m
        <4>1. k \in 1..(m - 1) /\ k \in 0..m
          BY <3>3
        <4> QED
          BY <2>1, <3>1, <3>3, <4>1
      <3> QED
        BY <3>2, <3>3
    <2> HIDE DEF h
    <2>8. Made(h, m)
      BY <2>6, <2>7
    <2>9. \E f \in [0..m -> W] : Made(f, m)
      <3> HIDE DEF Made
      <3> QED
        BY <2>5, <2>8
    <2> HIDE DEF Made
    <2> QED
      BY <2>9
  <1>3. s = 0..n
    <2>1. s \in SUBSET (0..n)
      OBVIOUS
    <2> HIDE DEF s
    <2> QED
      BY <1>1, <1>2, <2>1, UpTo
  <1>4. n \in s
    BY SMTT(30), <1>3
  <1>5. PICK g \in [0..n -> W] : Made(g, n)
    BY <1>4
  <1> QED
    BY <1>5 DEF Goes

-----------------------------------------------------------------------------
(* Parts of a sequence                                                     *)

(* A finite set of numbers has its numbers in order.                       *)
LEMMA SortedIs ==
    ASSUME NEW s \in SUBSET Nat, IsFiniteSet(s)
    PROVE  /\ Cardinality(s) \in Nat /\ Sorted(s) \in [1..Cardinality(s) -> s]
           /\ \A i, k \in 1..Cardinality(s) : i < k => Sorted(s)[i] < Sorted(s)[k]
  <1> DEFINE n == Cardinality(s)
             below(x) == {y \in s : y < x}
             rank == [x \in s |-> Cardinality(below(x)) + 1]
  <1>1. n \in Nat /\ n = Cardinality(s) /\ s \subseteq Nat
    BY FS_CardinalityType
  <1> HIDE DEF n
  <1>2. \A x \in s : IsFiniteSet(below(x)) /\ Cardinality(below(x)) \in Nat
    BY FS_Subset, FS_CardinalityType
  <1>3. \A x, y \in s : x < y => rank[x] < rank[y]
    <2> SUFFICES ASSUME NEW x \in s, NEW y \in s, x < y PROVE rank[x] < rank[y]
      OBVIOUS
    <2>1. x \notin below(x) /\ below(x) \cup {x} \subseteq below(y)
      <3>1. \A z \in s : z \in Nat
        BY <1>1
      <3>2. x \notin below(x)
        BY <3>1
      <3>3. ASSUME NEW z \in s, z < x PROVE z < y
        <4>1. x \in Nat /\ y \in Nat /\ z \in Nat
          BY <3>1
        <4> QED
          BY <3>3, <4>1
      <3> QED
        BY <3>2, <3>3
    <2>2. Cardinality(below(x) \cup {x}) = Cardinality(below(x)) + 1
      BY <1>2, <2>1, FS_AddElement
    <2>3. Cardinality(below(x) \cup {x}) <= Cardinality(below(y))
      BY <1>2, <2>1, FS_Subset
    <2> HIDE DEF below
    <2> QED
      BY <1>2, <2>2, <2>3
  <1>4. rank \in [s -> 1..n]
    <2> SUFFICES ASSUME NEW x \in s PROVE Cardinality(below(x)) + 1 \in 1..n
      OBVIOUS
    <2>1. below(x) \subseteq s \ {x}
      OBVIOUS
    <2>2. IsFiniteSet(s \ {x}) /\ Cardinality(s \ {x}) = n - 1
      BY <1>1, FS_RemoveElement
    <2>3. Cardinality(below(x)) <= n - 1
      BY <2>1, <2>2, FS_Subset
    <2> HIDE DEF below
    <2> QED
      BY <1>1, <1>2, <2>3
  <1> HIDE DEF rank, below
  <1>5. \A x, y \in s : rank[x] = rank[y] => x = y
    <2> SUFFICES ASSUME NEW x \in s, NEW y \in s, rank[x] = rank[y], x # y PROVE FALSE
      OBVIOUS
    <2>1. rank[x] \in Nat /\ rank[y] \in Nat /\ x \in Nat /\ y \in Nat
      BY <1>4
    <2>2. x < y \/ y < x
      BY <2>1
    <2> QED
      BY <1>3, <2>1, <2>2
  <1>6. \A i \in 1..n : \E x \in s : rank[x] = i
    <2>1. IsFiniteSet(1..n) /\ Cardinality(1..n) = n
      BY <1>1, FS_Interval
    <2>2. rank \in Injection(s, 1..n)
      BY <1>4, <1>5 DEF Injection, IsInjective
    <2>3. rank \in Surjection(s, 1..n)
      BY <1>1, <2>1, <2>2, FS_Injection
    <2> QED
      BY <2>3 DEF Surjection
  <1> DEFINE f == [i \in 1..n |-> CHOOSE x \in s : rank[x] = i]
  <1>7. f \in [1..n -> s] /\ \A i \in 1..n : rank[f[i]] = i
    BY <1>6
  <1> HIDE DEF f
  <1>8. \A i, k \in 1..n : i < k => f[i] < f[k]
    <2> SUFFICES ASSUME NEW i \in 1..n, NEW k \in 1..n, i < k PROVE f[i] < f[k]
      OBVIOUS
    <2>1. f[i] \in s /\ f[k] \in s /\ rank[f[i]] = i /\ rank[f[k]] = k
      BY <1>7
    <2>5. i \in Nat /\ k \in Nat
      BY <1>1
    <2>6. f[i] \in Nat /\ f[k] \in Nat
      <3> HIDE <1>7
      <3> QED
        BY <1>1, <2>1
    <2>2. f[i] \in Nat /\ f[k] \in Nat /\ i \in Nat /\ k \in Nat
      BY <2>5, <2>6
    <2>3. f[i] = f[k] => FALSE
      BY <2>1, <2>2
    <2>4. f[k] < f[i] => FALSE
      BY <1>3, <2>1, <2>2
    <2> QED
      BY <2>2, <2>3, <2>4
  <1>9. \A g \in [1..n -> s] : DOMAIN g = 1..n
    OBVIOUS
  <1>10. Sorted(s) = CHOOSE g \in [1..n -> s] : \A i, k \in DOMAIN g : i < k => g[i] < g[k]
    BY <1>1 DEF Sorted
  <1> QED
    BY <1>1, <1>7, <1>8, <1>9, <1>10

(* Every number of the set has its place.                                  *)
LEMMA SortedIsOnto ==
    ASSUME NEW s \in SUBSET Nat, IsFiniteSet(s)
    PROVE  /\ Sorted(s) \in Bijection(1..Cardinality(s), s)
           /\ \A i, k \in 1..Cardinality(s) : Sorted(s)[i] = Sorted(s)[k] => i = k
           /\ \A x \in s : \E i \in 1..Cardinality(s) : Sorted(s)[i] = x
  <1> DEFINE n == Cardinality(s)  f == Sorted(s)
  <1>1. /\ n \in Nat /\ f \in [1..n -> s] /\ \A i, k \in 1..n : i < k => f[i] < f[k]
        /\ n = Cardinality(s) /\ s \subseteq Nat
    BY SortedIs
  <1> HIDE DEF f, n
  <1>2. ASSUME NEW i \in 1..n, NEW k \in 1..n, f[i] = f[k] PROVE i = k
    <2>3. f[i] \in s /\ f[k] \in s
      BY <1>1
    <2>4. n \in Nat /\ \A x \in s : x \in Nat
      BY <1>1
    <2>5. i \in Nat /\ k \in Nat
      BY <2>4
    <2>1. f[i] \in Nat /\ f[k] \in Nat /\ i \in Nat /\ k \in Nat
      BY <2>3, <2>4, <2>5
    <2>2. ~(i < k) /\ ~(k < i)
      <3>1. i < k => f[i] < f[k]
        BY <1>1
      <3>2. k < i => f[k] < f[i]
        BY <1>1
      <3> QED
        BY <1>2, <2>1, <3>1, <3>2
    <2> QED
      BY <2>1, <2>2
  <1>3. IsFiniteSet(1..n) /\ Cardinality(1..n) = n
    BY <1>1, FS_Interval
  <1>4. f \in Injection(1..n, s)
    BY <1>1, <1>2 DEF Injection, IsInjective
  <1>5. f \in Surjection(1..n, s)
    BY <1>1, <1>3, <1>4, FS_Injection
  <1>6. f \in Bijection(1..n, s) /\ \A x \in s : \E i \in 1..n : f[i] = x
    BY <1>4, <1>5 DEF Bijection, Surjection
  <1> QED
    BY <1>1, <1>2, <1>6 DEF f, n

LEMMA LargestIs ==
    ASSUME NEW s \in SUBSET Nat, IsFiniteSet(s), s # {}
    PROVE  Max(s) \in s /\ \A y \in s : Max(s) >= y
  <1> DEFINE n == Cardinality(s)  f == Sorted(s)
  <1>1. /\ n \in Nat /\ f \in [1..n -> s] /\ \A i, k \in 1..n : i < k => f[i] < f[k]
        /\ n = Cardinality(s) /\ s \subseteq Nat
    BY SortedIs
  <1>2. n # 0
    BY FS_EmptySet
  <1>3. \A y \in s : \E i \in 1..n : f[i] = y
    BY SortedIsOnto
  <1> HIDE DEF f, n
  <1>4. \A y \in s : f[n] >= y
    <2> SUFFICES ASSUME NEW y \in s PROVE f[n] >= y
      OBVIOUS
    <2>1. PICK i \in 1..n : f[i] = y
      BY <1>3
    <2>2. i < n \/ i = n
      BY <1>1
    <2>4. n \in 1..n
      BY <1>1, <1>2
    <2>5. f[n] \in s
      BY <1>1, <2>4
    <2>3. f[n] \in Nat /\ y \in Nat /\ n \in 1..n
      BY <1>1, <2>4, <2>5
    <2> QED
      BY <1>1, <2>1, <2>2, <2>3
  <1>5. f[n] \in s
    BY <1>1, <1>2
  <1> QED
    BY <1>4, <1>5 DEF Max

LEMMA SmallerOfTwo ==
    ASSUME NEW a \in Nat, NEW b \in Nat
    PROVE  Min({a, b}) = IF a < b THEN a ELSE b
  <1>1. \E x \in {a, b} : \A y \in {a, b} : x =< y
    OBVIOUS
  <1>2. Min({a, b}) \in {a, b} /\ \A y \in {a, b} : Min({a, b}) =< y
    BY <1>1 DEF Min
  <1> QED
    BY <1>2

(* The smallest n numbers are in order as they are.                        *)
LEMMA SortedInterval ==
    ASSUME NEW n \in Nat
    PROVE  \A i \in 1..n : Sorted(1..n)[i] = i
  <1> DEFINE f == Sorted(1..n)
             wrong == {i \in 1..n : f[i] # i}
  <1>1. IsFiniteSet(1..n) /\ Cardinality(1..n) = n /\ 1..n \in SUBSET Nat
    BY FS_Interval
  <1>2. /\ f \in [1..n -> 1..n] /\ \A i, k \in 1..n : i < k => f[i] < f[k]
        /\ \A x \in 1..n : \E i \in 1..n : f[i] = x
    BY <1>1, SortedIs, SortedIsOnto
  <1> HIDE DEF f
  <1>3. wrong = {}
    <2> SUFFICES ASSUME wrong # {} PROVE FALSE
      OBVIOUS
    <2>1. PICK m \in wrong : \A k \in wrong : m <= k
      <3>1. wrong \in SUBSET Nat
        OBVIOUS
      <3> HIDE DEF wrong
      <3> QED
        BY <3>1, LeastOf
    <2>2. m \in 1..n /\ f[m] # m /\ f[m] \in 1..n
      BY <1>2, <2>1
    <2>3. \A k \in 1..n : k < m => f[k] = k
      <3> SUFFICES ASSUME NEW k \in 1..n, k < m, f[k] # k PROVE FALSE
        OBVIOUS
      <3>1. m <= k
        BY <2>1
      <3> QED
        BY <2>2, <3>1
    <2>4. f[m] > m
      <3> SUFFICES ASSUME f[m] < m PROVE FALSE
        BY <2>2
      <3>1. f[f[m]] = f[m] /\ f[f[m]] < f[m]
        BY <1>2, <2>2, <2>3
      <3> QED
        BY <2>2, <3>1
    <2>5. PICK k \in 1..n : f[k] = m
      BY <1>2, <2>2
    <2>6. ~(k < m) /\ k # m
      BY <2>2, <2>3, <2>5
    <2>7. f[m] < f[k]
      BY <1>2, <2>2, <2>6
    <2> QED
      BY <2>2, <2>4, <2>5, <2>7
  <1> QED
    BY <1>3 DEF f

(* What is selected of a sequence is a sequence of what is at the places.  *)
LEMMA SelectedIs ==
    ASSUME NEW T, NEW seq \in Seq(T), NEW places \in SUBSET (1..Len(seq))
    PROVE  /\ IsFiniteSet(places) /\ Cardinality(places) \in Nat
           /\ Selected(seq, places) \in Seq(T)
           /\ Len(Selected(seq, places)) = Cardinality(places)
           /\ \A i \in 1..Cardinality(places) :
                  /\ Sorted(places)[i] \in places
                  /\ Selected(seq, places)[i] = seq[Sorted(places)[i]]
  <1> DEFINE n == Cardinality(places)  at == Sorted(places)
  <1>1. IsFiniteSet(1..Len(seq)) /\ 1..Len(seq) \subseteq Nat
    BY FS_Interval
  <1>2. IsFiniteSet(places) /\ places \in SUBSET Nat
    BY <1>1, FS_Subset
  <1>3. n \in Nat /\ at \in [1..n -> places]
    BY <1>2, SortedIs
  <1>4. Selected(seq, places) = [i \in 1..n |-> seq[at[i]]]
    BY <1>3 DEF Selected
  <1> HIDE DEF n, at
  <1>5. \A i \in 1..n : at[i] \in 1..Len(seq) /\ seq[at[i]] \in T
    <2>1. \A i \in 1..n : at[i] \in 1..Len(seq)
      BY <1>3
    <2>2. \A k \in 1..Len(seq) : seq[k] \in T
      OBVIOUS
    <2> QED
      BY <2>1, <2>2
  <1>6. [i \in 1..n |-> seq[at[i]]] \in Seq(T) /\ Len([i \in 1..n |-> seq[at[i]]]) = n
    BY <1>3, <1>5
  <1> QED
    BY <1>2, <1>3, <1>4, <1>6 DEF n, at

LEMMA BoundedIs ==
    ASSUME NEW T, NEW n \in Nat, NEW seq \in BoundedSeq(T, n)
    PROVE  seq \in Seq(T)
  <1>1. PICK m \in 0..n : seq \in [1..m -> T]
    BY DEF BoundedSeq, SeqOf
  <1>2. m \in Nat
    OBVIOUS
  <1> QED
    BY <1>1, <1>2

(* All of a sequence is the sequence.                                      *)
LEMMA SelectedAll ==
    ASSUME NEW T, NEW seq \in Seq(T)
    PROVE  Selected(seq, DOMAIN seq) = seq
  <1>1. DOMAIN seq = 1..Len(seq) /\ Len(seq) \in Nat
    OBVIOUS
  <1>2. Cardinality(1..Len(seq)) = Len(seq)
    BY <1>1, FS_Interval
  <1>3. /\ Selected(seq, DOMAIN seq) \in Seq(T) /\ Len(Selected(seq, DOMAIN seq)) = Len(seq)
        /\ \A i \in 1..Len(seq) : Selected(seq, DOMAIN seq)[i] = seq[i]
    BY <1>1, <1>2, SelectedIs, SortedInterval
  <1> QED
    BY <1>1, <1>3

-----------------------------------------------------------------------------
(* Blocks of a result                                                      *)

LEMMA PlacesAre ==
    ASSUME NEW T, NEW blocks \in Seq(T), NEW kind
    PROVE  /\ Places(kind, blocks) \in SUBSET (1..Len(blocks))
           /\ IsFiniteSet(Places(kind, blocks)) /\ Count(kind, blocks) \in Nat
  <1>1. Places(kind, blocks) \in SUBSET (1..Len(blocks)) /\ Len(blocks) \in Nat
    BY DEF Places
  <1>2. IsFiniteSet(1..Len(blocks))
    BY <1>1, FS_Interval
  <1> QED
    BY <1>1, <1>2, FS_Subset, FS_CardinalityType DEF Count

(* Of a kind, as many are selected as there are at the places.             *)
LEMMA CountSelected ==
    ASSUME NEW T, NEW blocks \in Seq(T), NEW places \in SUBSET (1..Len(blocks)), NEW kind
    PROVE  Count(kind, Selected(blocks, places)) = Cardinality(places \cap Places(kind, blocks))
  <1> DEFINE part == Selected(blocks, places)
             at   == Sorted(places)
             n    == Cardinality(places)
             here == Places(kind, part)
             all  == places \cap Places(kind, blocks)
             f    == [i \in here |-> at[i]]
  <1>1. /\ n \in Nat /\ part \in Seq(T) /\ Len(part) = n
        /\ \A i \in 1..n : at[i] \in places /\ part[i] = blocks[at[i]]
        /\ IsFiniteSet(places)
    BY SelectedIs
  <1>2. /\ \A i, k \in 1..n : at[i] = at[k] => i = k
        /\ \A x \in places : \E i \in 1..n : at[i] = x
    <2>1. places \in SUBSET Nat
      OBVIOUS
    <2> QED
      BY <1>1, <2>1, SortedIsOnto
  <1> HIDE DEF part, at, n
  <1>3. here = {i \in 1..n : part[i].kind = kind}
    BY <1>1 DEF Places
  <1>4. all = {x \in places : blocks[x].kind = kind}
    <2>1. DOMAIN blocks = 1..Len(blocks)
      OBVIOUS
    <2> QED
      BY <2>1 DEF Places
  <1> HIDE DEF here, all
  <1>5. f \in [here -> all]
    BY <1>1, <1>3, <1>4
  <1>6. \A i, k \in here : f[i] = f[k] => i = k
    BY <1>2, <1>3
  <1>7. \A x \in all : \E i \in here : f[i] = x
    <2> SUFFICES ASSUME NEW x \in all PROVE \E i \in here : f[i] = x
      OBVIOUS
    <2>1. PICK i \in 1..n : at[i] = x
      BY <1>2, <1>4
    <2>2. i \in here
      BY <1>1, <1>3, <1>4, <2>1
    <2> QED
      BY <2>1, <2>2
  <1> HIDE DEF f
  <1>8. f \in Bijection(here, all)
    BY <1>5, <1>6, <1>7 DEF Bijection, Injection, Surjection, IsInjective
  <1>9. IsFiniteSet(here)
    <2>1. IsFiniteSet(1..n) /\ here \subseteq 1..n
      BY <1>1, <1>3, FS_Interval
    <2> QED
      BY <2>1, FS_Subset
  <1>10. Cardinality(all) = Cardinality(here)
    <2>1. ExistsBijection(here, all)
      BY <1>8 DEF ExistsBijection
    <2> QED
      BY <1>9, <2>1, FS_Bijection
  <1> QED
    BY <1>10 DEF Count, here, all, part

(* The size of a result is a number, that of its only block if it has one. *)
LEMMA TotalIs ==
    ASSUME NEW T, NEW blocks \in Seq(T), \A i \in 1..Len(blocks) : blocks[i].size \in Nat
    PROVE  /\ TotalSize(blocks) \in Nat
           /\ Len(blocks) = 0 => TotalSize(blocks) = 0
           /\ Len(blocks) = 1 => TotalSize(blocks) = blocks[1].size
  <1> DEFINE n == Len(blocks)
             size == [k \in 1..n |-> blocks[k].size]
             Next(g, k) == IF k = 0 THEN 0 ELSE g[k - 1] + blocks[k].size
             total == CHOOSE g : g = [k \in 0..n |-> Next(g, k)]
  <1>1. n \in Nat /\ \A i \in 1..n : blocks[i].size \in Nat
    OBVIOUS
  <1>2. TotalSize(blocks) = total[n]
    BY DEF TotalSize
  <1> HIDE DEF n
  <1>3. \E g : g = [k \in 0..n |-> Next(g, k)]
    <2> DEFINE step == [k \in 1..n |-> [m \in Nat |-> m + blocks[k].size]]
    <2>1. n \in Nat /\ 0 \in Nat /\ step \in [1..n -> [Nat -> Nat]]
      BY <1>1
    <2>2. \A k \in 1..n : \A m \in Nat : step[k][m] = m + blocks[k].size
      OBVIOUS
    <2> HIDE DEF step
    <2>5. PICK g : Goes(g, n, Nat, 0, step)
      BY <2>1, StepByStep
    <2>3. g \in [0..n -> Nat] /\ g[0] = 0 /\ \A k \in 1..n : g[k] = step[k][g[k - 1]]
      BY <2>5 DEF Goes
    <2>4. ASSUME NEW k \in 0..n PROVE g[k] = Next(g, k)
      <3>1. CASE k = 0
        BY <2>3, <3>1
      <3>2. CASE k # 0
        <4>1. k \in 1..n /\ k - 1 \in 0..n
          BY <1>1, <3>2
        <4>3. g[k - 1] \in Nat
          BY <2>3, <4>1
        <4>2. step[k][g[k - 1]] = g[k - 1] + blocks[k].size
          BY <2>2, <4>1, <4>3
        <4> QED
          BY <2>3, <3>2, <4>1, <4>2
      <3> QED
        BY <3>1, <3>2
    <2>6. g = [k \in 0..n |-> g[k]]
      BY <2>3
    <2> HIDE DEF Next
    <2>7. g = [k \in 0..n |-> Next(g, k)]
      BY <2>4, <2>6
    <2> QED
      BY <2>7
  <1>4. total = [k \in 0..n |-> Next(total, k)]
    <2> HIDE DEF Next
    <2> QED
      BY <1>3
  <1> HIDE DEF total
  <1>5. total[0] = 0 /\ \A k \in 1..n : total[k] = total[k - 1] + blocks[k].size
    <2>1. \A k \in 0..n : total[k] = Next(total, k)
      <3> HIDE DEF Next
      <3> QED
        BY <1>4
    <2> QED
      BY <1>1, <2>1
  <1> DEFINE good == {k \in 0..n : total[k] \in Nat}
  <1>6. good = 0..n
    <2>1. 0 \in good /\ \A k \in 1..n : k - 1 \in good => k \in good
      BY <1>1, <1>5
    <2>2. good \in SUBSET (0..n)
      OBVIOUS
    <2> HIDE DEF good
    <2> QED
      BY <1>1, <2>1, <2>2, UpTo
  <1>7. n \in good
    BY <1>1, <1>6
  <1>8. n = 1 => total[1] = blocks[1].size
    BY <1>1, <1>5
  <1> QED
    BY <1>1, <1>2, <1>5, <1>7, <1>8 DEF n

-----------------------------------------------------------------------------
(* Listings                                                                *)

(* What of the first k candidates there is to list.                        *)
Wanted(seen, k) == {i \in 1..k : seen[i] \in {"file", "folder", "unsure"}}

(* After k candidates the walk lists all there is to list of them, unless  *)
(* it is over; and it is over only because something is left out, or is    *)
(* lost, or was not looked at.                                             *)
WalkInv(w, seen, k, limit) ==
    /\ w \in Walker /\ w.listed \subseteq Wanted(seen, k)
    /\ Cardinality(w.listed) <= limit /\ w.bytes <= ReplyBudget
    /\ ~w.over => w.listed = Wanted(seen, k)
    /\ w.over => w.listed # Wanted(seen, k) \/ k > MaxScanned
                    \/ \E i \in 1..k : seen[i] = "lost"

LEMMA LimitsAreNat ==
    /\ MaxEntries \in Nat /\ MaxScanned \in Nat /\ ReplyBudget \in Nat
    /\ \A e \in Entry : Size(e) \in Nat
  BY RepliesAssumption DEF Size

(* The two ways a turn changes the walk.                                   *)
LEMMA CutIs ==
    ASSUME NEW w \in Walker
    PROVE  LET cut == [w EXCEPT !.over = TRUE]
           IN  /\ w.listed \in SUBSET Nat /\ w.bytes \in Nat /\ w.over \in BOOLEAN
               /\ cut \in Walker /\ cut.listed = w.listed /\ cut.bytes = w.bytes /\ cut.over
  BY DEF Walker

LEMMA MoreIs ==
    ASSUME NEW w \in Walker, NEW k \in Nat, NEW size \in Nat
    PROVE  LET more == [w EXCEPT !.bytes = @ + size, !.listed = @ \cup {k}]
           IN  /\ more \in Walker /\ more.listed = w.listed \cup {k}
               /\ more.bytes = w.bytes + size /\ more.over = w.over
  <1> DEFINE fuller == [w EXCEPT !.bytes = @ + size]
             more == [w EXCEPT !.bytes = @ + size, !.listed = @ \cup {k}]
  <1>1. w \in Walker /\ w.bytes + size \in Nat /\ w.listed \cup {k} \in SUBSET Nat
    BY DEF Walker
  <1>2. /\ fuller \in Walker /\ fuller.listed = w.listed /\ fuller.over = w.over
        /\ fuller.bytes = w.bytes + size
    BY ONLY <1>1 DEF Walker
  <1>3. more = [fuller EXCEPT !.listed = w.listed \cup {k}]
    OBVIOUS
  <1> HIDE DEF fuller, more
  <1>4. /\ more \in Walker /\ more.listed = w.listed \cup {k}
        /\ more.bytes = fuller.bytes /\ more.over = fuller.over
    BY ONLY <1>1, <1>2, <1>3 DEF Walker
  <1> QED
    BY <1>2, <1>4 DEF more

(* One turn of _walk.                                                      *)
LEMMA LookKeeps ==
    ASSUME NEW seen \in Seq(Entry), NEW limit \in Nat, NEW k \in 1..Len(seen), NEW w,
           WalkInv(w, seen, k - 1, limit)
    PROVE  WalkInv(Look(w, k, seen[k], limit), seen, k, limit)
  <1> DEFINE e == seen[k]
             before == Wanted(seen, k - 1)
             now_ == Wanted(seen, k)
             cut == [w EXCEPT !.over = TRUE]
             more == [w EXCEPT !.bytes = @ + Size(e), !.listed = @ \cup {k}]
             last == Look(w, k, e, limit)
  <1>1. k \in Nat /\ Len(seen) \in Nat /\ e \in Entry /\ k - 1 \in Nat /\ k \in 1..k
    OBVIOUS
  <1>2. /\ w \in Walker /\ w.listed \subseteq before /\ Cardinality(w.listed) <= limit
        /\ w.bytes <= ReplyBudget /\ (~w.over => w.listed = before)
        /\ w.over => w.listed # before \/ k - 1 > MaxScanned
                        \/ \E i \in 1..k - 1 : seen[i] = "lost"
    BY DEF WalkInv
  <1>3. /\ w.listed \in SUBSET Nat /\ w.bytes \in Nat /\ w.over \in BOOLEAN
        /\ cut \in Walker /\ cut.listed = w.listed /\ cut.bytes = w.bytes /\ cut.over
    BY <1>2, CutIs
  <1>4. /\ more \in Walker /\ more.listed = w.listed \cup {k}
        /\ more.bytes = w.bytes + Size(e) /\ more.over = w.over
    <2>1. Size(e) \in Nat
      BY <1>1, LimitsAreNat
    <2> HIDE DEF e
    <2> QED
      BY <1>1, <1>2, <2>1, MoreIs
  <1>5. /\ before \subseteq now_ /\ k \notin before
        /\ now_ = IF e \in {"file", "folder", "unsure"} THEN before \cup {k} ELSE before
    <2>1. \A i \in 1..k : i = k \/ i \in 1..k - 1
      BY <1>1
    <2>2. \A i \in 1..k - 1 : i \in 1..k /\ i # k
      BY <1>1
    <2> QED
      BY <1>1, <2>1, <2>2 DEF Wanted
  <1>6. /\ MaxScanned \in Nat /\ ReplyBudget \in Nat /\ Size(e) \in Nat
        /\ IsFiniteSet(before) /\ IsFiniteSet(w.listed) /\ Cardinality(w.listed) \in Nat
    <2>1. before \subseteq 1..k - 1 /\ IsFiniteSet(1..k - 1)
      BY <1>1, FS_Interval DEF Wanted
    <2>2. IsFiniteSet(before)
      BY <2>1, FS_Subset
    <2> QED
      BY <1>1, <1>2, <2>2, FS_Subset, FS_CardinalityType, LimitsAreNat
  <1>7. \/ last = w /\ w.over
        \/ last = cut /\ ~w.over /\ k > MaxScanned
        \/ last = w /\ ~w.over /\ e \in {"other", "passed"}
        \/ last = cut /\ ~w.over /\ e \in {"file", "folder", "unsure", "lost"}
        \/ last = w /\ ~w.over /\ e = "lost"
        \/ /\ last = more /\ ~w.over /\ e \in {"file", "folder", "unsure"}
           /\ ~(Cardinality(w.listed) >= limit) /\ ~(w.bytes + Size(e) > ReplyBudget)
    <2>1. e \in {"file", "folder", "unsure", "passed", "lost", "other"}
      BY <1>1 DEF Entry
    <2>2. (k > MaxScanned) = ~(k <= MaxScanned)
      BY <1>1, <1>6
    <2> HIDE DEF e, cut, more
    <2> QED
      BY <1>3, <2>1, <2>2 DEF Look, cut, more
  <1> HIDE DEF last, cut, more, before, now_, e
  <1> SUFFICES WalkInv(last, seen, k, limit)
    BY DEF last, e
  <1>8. CASE w.over
    <2>1. last = w
      BY <1>7, <1>8
    <2>2. w.listed \subseteq now_
      BY <1>2, <1>5
    <2>3. w.listed # now_ \/ k > MaxScanned \/ \E i \in 1..k : seen[i] = "lost"
      BY <1>1, <1>2, <1>5, <1>6, <1>8
    <2> QED
      BY <1>2, <1>8, <2>1, <2>2, <2>3 DEF WalkInv, now_
  <1>9. CASE last = cut /\ ~w.over
    <2>1. w.listed \subseteq now_
      BY <1>2, <1>5
    <2>2. w.listed # now_ \/ k > MaxScanned \/ \E i \in 1..k : seen[i] = "lost"
      <3>1. k > MaxScanned \/ e \in {"file", "folder", "unsure", "lost"}
        BY <1>3, <1>7, <1>9
      <3>2. e = "lost" => \E i \in 1..k : seen[i] = "lost"
        BY <1>1 DEF e
      <3>3. e \in {"file", "folder", "unsure"} => w.listed # now_
        BY <1>2, <1>5
      <3> QED
        BY <3>1, <3>2, <3>3
    <2> QED
      BY <1>2, <1>3, <1>9, <2>1, <2>2 DEF WalkInv, now_
  <1>10. CASE last = w /\ ~w.over /\ e \in {"other", "passed", "lost"}
    <2>1. now_ = before
      BY <1>5, <1>10
    <2> QED
      BY <1>2, <1>10, <2>1 DEF WalkInv, now_
  <1>11. CASE /\ last = more /\ ~w.over /\ e \in {"file", "folder", "unsure"}
              /\ ~(Cardinality(w.listed) >= limit) /\ ~(w.bytes + Size(e) > ReplyBudget)
    <2>1. more.listed = now_
      BY <1>2, <1>4, <1>5, <1>11
    <2>2. Cardinality(more.listed) <= limit
      <3>1. Cardinality(w.listed \cup {k}) = Cardinality(w.listed) + 1
        BY <1>2, <1>5, <1>6, FS_AddElement
      <3> QED
        BY <1>4, <1>6, <1>11, <3>1
    <2>3. more.bytes <= ReplyBudget
      BY <1>3, <1>4, <1>6, <1>11
    <2> QED
      BY <1>4, <1>11, <2>1, <2>2, <2>3 DEF WalkInv, now_
  <1> QED
    BY <1>7, <1>8, <1>9, <1>10, <1>11

(* Every turn of the walk makes one of the other.                          *)
LEMMA LookIs ==
    ASSUME NEW w \in Walker, NEW k \in Nat, NEW e \in Entry, NEW limit
    PROVE  Look(w, k, e, limit) \in Walker
  <1>1. MaxScanned \in Nat /\ Size(e) \in Nat
    BY LimitsAreNat
  <1>2. w.listed \in SUBSET Nat /\ w.bytes \in Nat /\ w.over \in BOOLEAN
    BY CutIs
  <1> DEFINE cut == [w EXCEPT !.over = TRUE]
             more == [w EXCEPT !.bytes = @ + Size(e), !.listed = @ \cup {k}]
  <1>3. cut \in Walker /\ more \in Walker
    BY <1>1, CutIs, MoreIs
  <1>4. Look(w, k, e, limit) \in {w, cut, more}
    <2>1. e \in {"file", "folder", "unsure", "passed", "lost", "other"}
      BY DEF Entry
    <2>2. (k > MaxScanned) = ~(k <= MaxScanned)
      BY <1>1
    <2> HIDE DEF cut, more
    <2> QED
      BY <1>2, <2>1, <2>2 DEF Look, cut, more
  <1> QED
    BY <1>3, <1>4

(* The walk of every folder keeps what a turn keeps.                       *)
LEMMA WalkedIs ==
    ASSUME NEW seen \in Seq(Entry), NEW limit \in Nat
    PROVE  WalkInv(Walked(seen, limit)[Len(seen)], seen, Len(seen), limit)
  <1> DEFINE n == Len(seen)
             first == [listed |-> {}, bytes |-> 0, over |-> FALSE]
             Next(g, k) == IF k = 0 THEN first ELSE Look(g[k - 1], k, seen[k], limit)
             walk == CHOOSE g : g = [k \in 0..n |-> Next(g, k)]
  <1>1. n \in Nat /\ \A k \in 1..n : seen[k] \in Entry /\ k \in Nat
    OBVIOUS
  <1>2. Walked(seen, limit) = walk
    BY DEF Walked
  <1>3. first \in Walker /\ first.listed = {} /\ first.bytes = 0 /\ first.over = FALSE
    BY DEF Walker
  <1>4. n = Len(seen)
    OBVIOUS
  <1> HIDE DEF n, first
  <1>5. \E g : g = [k \in 0..n |-> Next(g, k)]
    <2> DEFINE step == [k \in 1..n |-> [w \in Walker |-> Look(w, k, seen[k], limit)]]
    <2>1. step \in [1..n -> [Walker -> Walker]]
      BY <1>1, LookIs
    <2>2. \A k \in 1..n : \A w \in Walker : step[k][w] = Look(w, k, seen[k], limit)
      OBVIOUS
    <2> HIDE DEF step
    <2>3. PICK g : Goes(g, n, Walker, first, step)
      BY <1>1, <1>3, <2>1, StepByStep
    <2>4. /\ g \in [0..n -> Walker] /\ g[0] = first
          /\ \A k \in 1..n : g[k] = step[k][g[k - 1]]
      BY <2>3 DEF Goes
    <2>5. ASSUME NEW k \in 0..n PROVE g[k] = Next(g, k)
      <3>1. CASE k = 0
        BY <2>4, <3>1
      <3>2. CASE k # 0
        <4>1. k \in 1..n /\ k - 1 \in 0..n
          BY <1>1, <3>2
        <4>2. g[k - 1] \in Walker
          BY <2>4, <4>1
        <4>3. step[k][g[k - 1]] = Look(g[k - 1], k, seen[k], limit)
          BY <2>2, <4>1, <4>2
        <4> QED
          BY <2>4, <3>2, <4>1, <4>3
      <3> QED
        BY <3>1, <3>2
    <2>6. g = [k \in 0..n |-> g[k]]
      BY <2>4
    <2> HIDE DEF Next
    <2>7. g = [k \in 0..n |-> Next(g, k)]
      BY <2>5, <2>6
    <2> QED
      BY <2>7
  <1>6. walk = [k \in 0..n |-> Next(walk, k)]
    <2> HIDE DEF Next
    <2> QED
      BY <1>5
  <1> HIDE DEF walk
  <1>7. walk[0] = first /\ \A k \in 1..n : walk[k] = Look(walk[k - 1], k, seen[k], limit)
    <2>1. \A k \in 0..n : walk[k] = Next(walk, k)
      <3> HIDE DEF Next
      <3> QED
        BY <1>6
    <2> QED
      BY <1>1, <2>1
  <1> DEFINE good == {k \in 0..n : WalkInv(walk[k], seen, k, limit)}
  <1>8. 0 \in good
    <2>1. Wanted(seen, 0) = {}
      BY DEF Wanted
    <2>2. Cardinality({}) = 0 /\ ReplyBudget \in Nat
      BY FS_EmptySet, LimitsAreNat
    <2>3. WalkInv(first, seen, 0, limit)
      BY <1>3, <2>1, <2>2 DEF WalkInv
    <2> QED
      BY <1>1, <1>7, <2>3
  <1>9. ASSUME NEW k \in 1..n, k - 1 \in good
        PROVE  k \in good
    <2>1. WalkInv(walk[k - 1], seen, k - 1, limit) /\ k \in 0..n /\ k \in 1..Len(seen)
      BY <1>1, <1>4, <1>9
    <2>2. WalkInv(Look(walk[k - 1], k, seen[k], limit), seen, k, limit)
      BY <2>1, LookKeeps
    <2> QED
      BY <1>7, <2>1, <2>2
  <1>10. good = 0..n
    <2>1. good \in SUBSET (0..n)
      OBVIOUS
    <2> HIDE DEF good
    <2> QED
      BY <1>1, <1>8, <1>9, <2>1, UpTo
  <1>11. n \in good
    BY <1>1, <1>10
  <1> QED
    BY <1>2, <1>4, <1>11

(* A listing says what it leaves out.                                      *)
LEMMA ListSaysSo ==
    ASSUME NEW tree \in Trees, NEW limit \in 0..MaxEntries, List(tree, limit)
    PROVE  ListingsSaySo'
  <1> DEFINE seen == Candidates(tree)
             end  == Walked(seen, limit)[Len(seen)]
  <1>1. tree.base \in Seq(Entry) /\ tree.below \in Seq(Entry) /\ tree.readable \in BOOLEAN
    <2>1. MaxFolder \in Nat /\ MaxBelow \in Nat
      BY RepliesAssumption
    <2>2. /\ tree.base \in BoundedSeq(Entry, MaxFolder) /\ tree.below \in BoundedSeq(Entry, MaxBelow)
          /\ tree.readable \in BOOLEAN
      BY DEF Trees
    <2> QED
      BY <2>1, <2>2, BoundedIs
  <1>2. seen \in Seq(Entry) /\ limit \in Nat /\ DOMAIN seen = 1..Len(seen) /\ Len(seen) \in Nat
    <2>1. seen \in Seq(Entry)
      BY <1>1 DEF Candidates
    <2> HIDE DEF seen
    <2> QED
      BY <2>1, LimitsAreNat
  <1>3. answer' = [to |-> "list", tree |-> tree, limit |-> limit, listed |-> end.listed,
                   bytes |-> end.bytes, truncated |-> end.over \/ ~tree.readable]
    BY DEF List, Walk, Truncates
  <1>4. Candidates(tree) = seen
    OBVIOUS
  <1> HIDE DEF end, seen
  <1>5. WalkInv(end, seen, Len(seen), limit)
    BY <1>2, WalkedIs DEF end
  <1>6. /\ answer'.tree = tree /\ answer'.limit = limit /\ answer'.listed = end.listed
        /\ answer'.bytes = end.bytes /\ (answer'.truncated <=> end.over \/ ~tree.readable)
    BY <1>3
  <1>7. /\ end.listed \subseteq Wanted(seen, Len(seen)) /\ Cardinality(end.listed) <= limit
        /\ end.bytes <= ReplyBudget /\ (~end.over => end.listed = Wanted(seen, Len(seen)))
        /\ end.over => end.listed # Wanted(seen, Len(seen)) \/ Len(seen) > MaxScanned
                          \/ \E i \in DOMAIN seen : seen[i] = "lost"
    BY <1>2, <1>5 DEF WalkInv
  <1>8. {k \in DOMAIN seen : seen[k] \in {"file", "folder", "unsure"}} = Wanted(seen, Len(seen))
    BY <1>2 DEF Wanted
  <1> QED
    BY <1>4, <1>6, <1>7, <1>8 DEF ListingsSaySo

-----------------------------------------------------------------------------
(* The output of a command                                                 *)

Output == [to : {"command"}, limit : Nat, stdout : Nat, stderr : Nat, fed : Nat, unread : Nat,
           truncated : BOOLEAN, marker : Nat, finished : BOOLEAN]

(* What is kept keeps to the limit, and is known to be all or not.         *)
OutputInv(a) ==
    /\ a \in Output
    /\ ~a.finished => /\ a.stdout + a.stderr <= a.limit /\ a.stdout + a.stderr <= a.fed
                      /\ a.truncated <=> a.stdout + a.stderr < a.fed
    /\ a.finished =>
          /\ a.stdout + a.stderr + a.marker <= a.limit
          /\ (a.stdout + a.stderr < a.fed) <=> a.truncated
          /\ a.truncated /\ a.limit > 0 /\ MarkerLength > 0 => a.marker > 0

CommandInv == answer.to = "command" => OutputInv(answer)

LEMMA OutputIs ==
    ASSUME NEW a \in Output
    PROVE  /\ a.to = "command" /\ a.limit \in Nat /\ a.stdout \in Nat /\ a.stderr \in Nat
           /\ a.fed \in Nat /\ a.truncated \in BOOLEAN /\ a.marker \in Nat
           /\ a.finished \in BOOLEAN
  BY DEF Output

LEMMA CollectKeeps ==
    ASSUME NEW limit \in 0..MaxOutput, Collect(limit)
    PROVE  CommandInv'
  <1>1. limit \in Nat
    BY RepliesAssumption
  <1> DEFINE a == [to |-> "command", limit |-> limit, stdout |-> 0, stderr |-> 0, fed |-> 0, unread |-> 0,
                   truncated |-> FALSE, marker |-> 0, finished |-> FALSE]
  <1>2. a \in Output
    BY <1>1 DEF Output
  <1>3. OutputInv(a)
    BY <1>1, <1>2 DEF OutputInv
  <1>4. answer' = a
    BY DEF Collect
  <1> QED
    BY <1>3, <1>4 DEF CommandInv

(* A chunk of output goes to its channel.                                  *)
Fed(a, channel, kept, n, cut) ==
    [a EXCEPT ![channel] = @ + kept, !.fed = @ + n, !.truncated = @ \/ cut]

LEMMA FedIs ==
    ASSUME NEW a \in Output, NEW channel \in {"stdout", "stderr"}, NEW kept \in Nat, NEW n \in Nat,
           NEW cut \in BOOLEAN
    PROVE  LET b == Fed(a, channel, kept, n, cut)
           IN  /\ b \in Output /\ b.limit = a.limit /\ b.finished = a.finished
               /\ b.fed = a.fed + n /\ (b.truncated <=> a.truncated \/ cut)
               /\ b.stdout + b.stderr = a.stdout + a.stderr + kept
  <1> DEFINE fed == [a EXCEPT ![channel] = @ + kept]
             told == [fed EXCEPT !.fed = @ + n]
             b == Fed(a, channel, kept, n, cut)
  <1>1. /\ a.stdout \in Nat /\ a.stderr \in Nat /\ a.fed \in Nat /\ a.fed + n \in Nat
        /\ a.truncated \in BOOLEAN /\ (a.truncated \/ cut) \in BOOLEAN
        /\ a.stdout + kept \in Nat /\ a.stderr + kept \in Nat
    BY OutputIs
  <1>2. /\ fed \in Output /\ fed.limit = a.limit /\ fed.finished = a.finished
        /\ fed.fed = a.fed /\ fed.truncated = a.truncated
        /\ fed.stdout + fed.stderr = a.stdout + a.stderr + kept
    <2>1. CASE channel = "stdout"
      <3>1. fed = [a EXCEPT !.stdout = @ + kept]
        BY <2>1
      <3> HIDE DEF fed
      <3>2. /\ fed \in Output /\ fed.limit = a.limit /\ fed.finished = a.finished
            /\ fed.fed = a.fed /\ fed.truncated = a.truncated
            /\ fed.stdout = a.stdout + kept /\ fed.stderr = a.stderr
        BY <1>1, <3>1 DEF Output
      <3> QED
        BY <1>1, <3>2
    <2>2. CASE channel = "stderr"
      <3>1. fed = [a EXCEPT !.stderr = @ + kept]
        BY <2>2
      <3> HIDE DEF fed
      <3>2. /\ fed \in Output /\ fed.limit = a.limit /\ fed.finished = a.finished
            /\ fed.fed = a.fed /\ fed.truncated = a.truncated
            /\ fed.stderr = a.stderr + kept /\ fed.stdout = a.stdout
        BY <1>1, <3>1 DEF Output
      <3> QED
        BY <1>1, <3>2
    <2> QED
      BY <2>1, <2>2
  <1>3. b = [told EXCEPT !.truncated = a.truncated \/ cut]
    <2>1. channel # "fed" /\ channel # "truncated"
      OBVIOUS
    <2> QED
      BY <2>1 DEF Fed
  <1>4. told = [fed EXCEPT !.fed = a.fed + n]
    BY <1>2
  <1> HIDE DEF fed, told, b
  <1>5. /\ told \in Output /\ told.limit = fed.limit /\ told.finished = fed.finished
        /\ told.fed = a.fed + n /\ told.truncated = fed.truncated
        /\ told.stdout = fed.stdout /\ told.stderr = fed.stderr
    BY <1>1, <1>2, <1>4 DEF Output
  <1>6. /\ b \in Output /\ b.limit = told.limit /\ b.finished = told.finished
        /\ b.fed = told.fed /\ b.truncated = (a.truncated \/ cut)
        /\ b.stdout = told.stdout /\ b.stderr = told.stderr
    BY ONLY <1>1, <1>5, <1>3 DEF Output
  <1> QED
    BY <1>2, <1>5, <1>6 DEF b

LEMMA FeedKeeps ==
    ASSUME CommandInv, NEW channel \in {"stdout", "stderr"}, NEW n \in 1..MaxOutput,
           Feed(channel, n)
    PROVE  CommandInv' /\ answer'.to = "command"
  <1> DEFINE room == answer.limit - answer.stdout - answer.stderr
             kept == Min({n, room})
  <1>1. OutputInv(answer) /\ ~answer.finished /\ n \in Nat
    <2>1. answer.to = "command" /\ ~answer.finished
      BY DEF Feed, Collecting
    <2>2. n \in Nat
      BY RepliesAssumption
    <2> QED
      BY <2>1, <2>2 DEF CommandInv
  <1>2. answer \in Output
    BY <1>1 DEF OutputInv
  <1>3. /\ answer.limit \in Nat /\ answer.stdout \in Nat /\ answer.stderr \in Nat
        /\ answer.fed \in Nat /\ answer.truncated \in BOOLEAN
    BY <1>2, OutputIs
  <1>4. /\ answer.stdout + answer.stderr <= answer.limit
        /\ answer.stdout + answer.stderr <= answer.fed
        /\ answer.truncated <=> answer.stdout + answer.stderr < answer.fed
    BY <1>1 DEF OutputInv
  <1>5. room \in Nat
    BY <1>3, <1>4
  <1> HIDE DEF room
  <1>6. kept = IF n < room THEN n ELSE room
    BY <1>1, <1>5, SmallerOfTwo
  <1> DEFINE cut == kept # n
             b == Fed(answer, channel, kept, n, cut)
  <1>7. answer' = b
    BY DEF Feed, Fed, kept, room
  <1> HIDE DEF kept
  <1>8. kept \in Nat /\ kept <= n /\ kept <= room /\ cut \in BOOLEAN
    BY <1>1, <1>5, <1>6
  <1>9. /\ b \in Output /\ b.limit = answer.limit /\ b.finished = answer.finished
        /\ b.fed = answer.fed + n /\ (b.truncated <=> answer.truncated \/ cut)
        /\ b.stdout + b.stderr = answer.stdout + answer.stderr + kept
    <2> HIDE DEF cut
    <2> QED
      BY <1>1, <1>2, <1>8, FedIs
  <1> HIDE DEF b
  <1>10. b.stdout + b.stderr <= b.limit
    BY <1>3, <1>5, <1>8, <1>9 DEF room
  <1>11. b.stdout + b.stderr <= b.fed /\ (b.truncated <=> b.stdout + b.stderr < b.fed)
    BY <1>1, <1>3, <1>4, <1>8, <1>9
  <1>12. OutputInv(b)
    BY <1>1, <1>9, <1>10, <1>11 DEF OutputInv
  <1>13. b.to = "command"
    BY <1>9, OutputIs
  <1> QED
    BY <1>7, <1>12, <1>13 DEF CommandInv

(* The marker's place is taken from stdout, then from stderr.              *)
Finished(a, marker, excess, unread) ==
    [Trim(a, marker, excess) EXCEPT !.finished = TRUE, !.unread = unread]

LEMMA TrimIs ==
    ASSUME NEW a \in Output, NEW marker \in Nat, NEW excess \in Nat, NEW unread \in Nat,
           excess <= a.stdout + a.stderr
    PROVE  LET b == Finished(a, marker, excess, unread)
           IN  /\ b \in Output /\ b.limit = a.limit /\ b.fed = a.fed /\ b.finished
               /\ b.truncated = a.truncated /\ b.marker = marker
               /\ b.stdout + b.stderr = a.stdout + a.stderr - excess
  <1> DEFINE first == Min({excess, a.stdout})
             then_ == Min({excess - first, a.stderr})
             less == [a EXCEPT !.stdout = a.stdout - first]
             least == [less EXCEPT !.stderr = a.stderr - then_]
             trim == [least EXCEPT !.marker = marker]
             done == [trim EXCEPT !.finished = TRUE]
             b == Finished(a, marker, excess, unread)
  <1>1. a.stdout \in Nat /\ a.stderr \in Nat /\ a.marker \in Nat
    BY OutputIs
  <1>2. /\ first \in Nat /\ first <= excess /\ first <= a.stdout
        /\ first = IF excess < a.stdout THEN excess ELSE a.stdout
    BY <1>1, SmallerOfTwo
  <1> HIDE DEF first
  <1>3. excess - first \in Nat
    BY <1>1, <1>2
  <1>4. then_ = excess - first
    <2>1. then_ = IF excess - first < a.stderr THEN excess - first ELSE a.stderr
      BY <1>1, <1>3, SmallerOfTwo
    <2>2. excess - first <= a.stderr
      BY <1>1, <1>2
    <2> HIDE DEF then_
    <2> QED
      BY <1>1, <1>2, <1>3, <2>1, <2>2
  <1>5. Trim(a, marker, excess) = trim
    <2>1. Trim(a, marker, excess)
            = [a EXCEPT !.stdout = a.stdout - first, !.stderr = a.stderr - then_, !.marker = marker]
      BY DEF Trim, first
    <2> HIDE DEF then_
    <2> QED
      BY <2>1
  <1>6. a.stdout - first \in Nat /\ a.stderr - then_ \in Nat
    <2> HIDE DEF then_
    <2> QED
      BY <1>1, <1>2, <1>3, <1>4
  <1> HIDE DEF then_
  <1>7. /\ less \in Output /\ less.limit = a.limit /\ less.fed = a.fed
        /\ less.truncated = a.truncated /\ less.stdout = a.stdout - first /\ less.stderr = a.stderr
    BY <1>6 DEF Output
  <1> HIDE DEF less
  <1>8. /\ least \in Output /\ least.limit = less.limit /\ least.fed = less.fed
        /\ least.truncated = less.truncated /\ least.stdout = less.stdout
        /\ least.stderr = a.stderr - then_
    BY <1>6, <1>7 DEF Output
  <1> HIDE DEF least
  <1>9. /\ trim \in Output /\ trim.limit = least.limit /\ trim.fed = least.fed
        /\ trim.truncated = least.truncated /\ trim.stdout = least.stdout
        /\ trim.stderr = least.stderr /\ trim.marker = marker
    BY <1>8 DEF Output
  <1> HIDE DEF trim
  <1>12. /\ done \in Output /\ done.limit = trim.limit /\ done.fed = trim.fed /\ done.finished
         /\ done.truncated = trim.truncated /\ done.stdout = trim.stdout
         /\ done.stderr = trim.stderr /\ done.marker = trim.marker
    BY <1>9 DEF Output
  <1>13. b = [done EXCEPT !.unread = unread]
    BY <1>5 DEF Finished
  <1> HIDE DEF done, b
  <1>10. /\ b \in Output /\ b.limit = trim.limit /\ b.fed = trim.fed /\ b.finished
         /\ b.truncated = trim.truncated /\ b.stdout = trim.stdout
         /\ b.stderr = trim.stderr /\ b.marker = trim.marker
    BY ONLY <1>12, <1>13, unread \in Nat DEF Output
  <1> HIDE DEF b
  <1>11. b.stdout + b.stderr = a.stdout + a.stderr - excess
    BY <1>1, <1>2, <1>3, <1>4, <1>7, <1>8, <1>9, <1>10
  <1> QED
    BY <1>7, <1>8, <1>9, <1>10, <1>11 DEF b

LEMMA FinishKeeps ==
    ASSUME CommandInv, FinishOutput
    PROVE  CommandInv' /\ answer'.to = "command"
  <1> DEFINE a == answer
             marker == IF answer.truncated THEN Min({MarkerLength, answer.limit}) ELSE 0
             total  == answer.stdout + answer.stderr + marker
             excess == IF total > answer.limit THEN total - answer.limit ELSE 0
  <1>1. OutputInv(a) /\ ~a.finished
    BY DEF FinishOutput, Collecting, CommandInv
  <1>2. a \in Output /\ MarkerLength \in Nat
    BY <1>1, RepliesAssumption DEF OutputInv
  <1>3. /\ a.limit \in Nat /\ a.stdout \in Nat /\ a.stderr \in Nat
        /\ a.fed \in Nat /\ a.truncated \in BOOLEAN
    BY <1>2, OutputIs
  <1>4. /\ a.stdout + a.stderr <= a.limit /\ a.stdout + a.stderr <= a.fed
        /\ a.truncated <=> a.stdout + a.stderr < a.fed
    BY <1>1 DEF OutputInv
  <1>5. PICK unread \in 0..(MaxOutput - answer.fed) :
           answer' = Finished(answer, marker, excess, unread)
    BY DEF FinishOutput, Finished
  <1>14. unread \in Nat
    BY <1>3, RepliesAssumption
  <1> DEFINE b == Finished(a, marker, excess, unread)
  <1>15. answer' = b
    BY <1>5
  <1>6. /\ marker \in Nat /\ marker <= a.limit /\ (~a.truncated => marker = 0)
        /\ a.truncated /\ a.limit > 0 /\ MarkerLength > 0 => marker > 0
    BY <1>2, <1>3, SmallerOfTwo
  <1> HIDE DEF marker
  <1>7. /\ excess \in Nat /\ excess <= a.stdout + a.stderr /\ (~a.truncated => excess = 0)
        /\ a.stdout + a.stderr - excess + marker <= a.limit
    BY <1>3, <1>4, <1>6
  <1> HIDE DEF excess
  <1>8. /\ b \in Output /\ b.limit = a.limit /\ b.fed = a.fed /\ b.finished
        /\ b.truncated = a.truncated /\ b.marker = marker
        /\ b.stdout + b.stderr = a.stdout + a.stderr - excess
    BY <1>2, <1>6, <1>7, <1>14, TrimIs
  <1> HIDE DEF b
  <1>9. b.stdout + b.stderr + b.marker <= b.limit
    BY <1>3, <1>6, <1>7, <1>8
  <1>10. (b.stdout + b.stderr < b.fed) <=> b.truncated
    BY <1>3, <1>4, <1>7, <1>8
  <1>11. b.truncated /\ b.limit > 0 /\ MarkerLength > 0 => b.marker > 0
    BY <1>6, <1>8
  <1>12. OutputInv(b)
    BY <1>8, <1>9, <1>10, <1>11 DEF OutputInv
  <1>13. b.to = "command"
    BY <1>8, OutputIs
  <1> QED
    BY <1>12, <1>13, <1>15 DEF CommandInv

-----------------------------------------------------------------------------
(* The result of a computer tool                                           *)

AnyBlock == [kind : {"text", "image", "odd", "junk"}, size : Nat]

LEMMA ResultIs ==
    ASSUME NEW r \in Results
    PROVE  r.blocks \in Seq(AnyBlock) /\ Structured(r) \in Nat
  <1>1. MaxBlocks \in Nat /\ BlockSizes \subseteq Nat /\ PartSizes \subseteq Nat
    BY RepliesAssumption
  <1>2. \A x \in Block : x \in AnyBlock
    <2> SUFFICES ASSUME NEW x \in Block PROVE x \in AnyBlock
      OBVIOUS
    <2>1. CASE x \in [kind : {"text", "image"}, size : BlockSizes]
      BY <1>1, <2>1 DEF AnyBlock
    <2>2. CASE x \in [kind : {"odd", "junk"}, size : {0}]
      BY <2>2 DEF AnyBlock
    <2> QED
      BY <2>1, <2>2 DEF Block
  <1>3. r.blocks \in BoundedSeq(Block, MaxBlocks) /\ r.structured \in PartSizes
    BY DEF Results
  <1>4. r.blocks \in Seq(Block)
    BY <1>1, <1>3, BoundedIs
  <1>5. r.blocks \in Seq(AnyBlock)
    BY <1>2, <1>4
  <1> QED
    BY <1>1, <1>3, <1>5 DEF Structured

LEMMA SizeIs ==
    ASSUME NEW blocks \in Seq(AnyBlock)
    PROVE  /\ TotalSize(blocks) \in Nat
           /\ Len(blocks) = 0 => TotalSize(blocks) = 0
           /\ Len(blocks) = 1 => TotalSize(blocks) = blocks[1].size
           /\ \A i \in 1..Len(blocks) : blocks[i] \in AnyBlock
  <1>1. \A i \in 1..Len(blocks) : blocks[i] \in AnyBlock
    OBVIOUS
  <1>2. \A b \in AnyBlock : b.size \in Nat
    BY DEF AnyBlock
  <1> QED
    BY <1>1, <1>2, TotalIs

LEMMA TextsAre ==
    ASSUME NEW blocks \in Seq(AnyBlock)
    PROVE  /\ Texts(blocks) \in Seq(AnyBlock) /\ Count("image", Texts(blocks)) = 0
           /\ /\ Count("image", blocks) = 0 /\ Count("odd", blocks) = 0
              /\ Count("junk", blocks) = 0
              => Texts(blocks) = blocks
  <1>1. Places("text", blocks) \in SUBSET (1..Len(blocks))
    BY PlacesAre
  <1>2. Texts(blocks) \in Seq(AnyBlock)
    BY <1>1, SelectedIs DEF Texts
  <1>3. Places("text", blocks) \cap Places("image", blocks) = {}
    BY DEF Places
  <1>4. Count("image", Texts(blocks)) = 0
    BY <1>1, <1>3, CountSelected, FS_EmptySet DEF Texts
  <1>5. ASSUME Count("image", blocks) = 0, Count("odd", blocks) = 0, Count("junk", blocks) = 0
        PROVE  Texts(blocks) = blocks
    <2>1. /\ Places("image", blocks) = {} /\ Places("odd", blocks) = {}
          /\ Places("junk", blocks) = {}
      BY <1>5, PlacesAre, FS_EmptySet DEF Count
    <2>2. \A i \in DOMAIN blocks : blocks[i].kind \in {"text", "image", "odd", "junk"}
      BY SizeIs DEF AnyBlock
    <2>3. Places("text", blocks) = DOMAIN blocks
      BY <2>1, <2>2 DEF Places
    <2> QED
      BY <2>3, SelectedAll DEF Texts
  <1> QED
    BY <1>2, <1>4, <1>5

(* No more images than there is room for are admitted, and where nothing   *)
(* is left out everything is.                                              *)
LEMMA AdmittedIs ==
    ASSUME NEW blocks \in Seq(AnyBlock), Room \in Nat
    PROVE  /\ Admitted(blocks) \in Seq(AnyBlock) /\ Count("image", Admitted(blocks)) \in Nat
           /\ Count("image", Admitted(blocks)) <= Room
           /\ Count("odd", Admitted(blocks)) = 0 /\ Count("junk", Admitted(blocks)) = 0
           /\ /\ Count("odd", blocks) = 0
              /\ ~(Count("image", blocks) > Count("image", Admitted(blocks)))
              => Admitted(blocks) = Objects(blocks)
  <1> DEFINE images(k) == Cardinality(Places("image", blocks) \cap 1..k)
             shown == {k \in Places("image", blocks) : images(k) <= Room}
             kept  == Places("text", blocks) \cup shown
  <1>1. Admitted(blocks) = Selected(blocks, kept)
    BY DEF Admitted
  <1>2. /\ Places("text", blocks) \in SUBSET (1..Len(blocks))
        /\ Places("image", blocks) \in SUBSET (1..Len(blocks))
        /\ IsFiniteSet(Places("image", blocks)) /\ Len(blocks) \in Nat
        /\ Count("odd", blocks) \in Nat /\ Count("image", blocks) \in Nat
        /\ IsFiniteSet(Places("odd", blocks))
    BY PlacesAre
  <1>3. shown \subseteq Places("image", blocks)
    OBVIOUS
  <1>4. \A k \in shown : images(k) <= Room
    OBVIOUS
  <1> HIDE DEF images
  <1>5. kept \in SUBSET (1..Len(blocks))
    BY <1>2
  <1>6. kept \cap Places("image", blocks) = shown /\ kept \cap Places("odd", blocks) = {}
        /\ kept \cap Places("junk", blocks) = {}
    BY DEF Places
  <1> HIDE DEF shown
  <1>7. IsFiniteSet(shown) /\ Cardinality(shown) \in Nat /\ shown \in SUBSET Nat
    BY <1>2, <1>3, FS_Subset, FS_CardinalityType
  <1>8. Cardinality(shown) <= Room
    <2>1. CASE shown = {}
      BY <2>1, FS_EmptySet
    <2>2. CASE shown # {}
      <3> DEFINE m == Max(shown)
      <3>1. m \in shown /\ \A y \in shown : m >= y
        BY <1>7, <2>2, LargestIs
      <3> HIDE DEF m
      <3> DEFINE upto == Places("image", blocks) \cap 1..m
      <3>2. shown \subseteq upto
        <4>1. \A y \in shown : y \in 1..Len(blocks)
          BY <1>2, <1>3
        <4>2. \A y \in shown : y \in 1..m
          BY <1>2, <3>1, <4>1
        <4> QED
          BY <1>3, <4>2
      <3>3. IsFiniteSet(upto)
        BY <1>2, FS_Subset
      <3>4. Cardinality(shown) <= Cardinality(upto) /\ Cardinality(upto) \in Nat
        BY <3>2, <3>3, FS_Subset, FS_CardinalityType
      <3>5. Cardinality(upto) <= Room
        BY <1>4, <3>1 DEF images
      <3> HIDE DEF upto
      <3> QED
        BY <1>7, <3>4, <3>5
    <2> QED
      BY <2>1, <2>2
  <1> HIDE DEF kept
  <1>9. /\ Admitted(blocks) \in Seq(AnyBlock) /\ Count("image", Admitted(blocks)) = Cardinality(shown)
        /\ Count("odd", Admitted(blocks)) = 0 /\ Count("junk", Admitted(blocks)) = 0
    <2>1. Count("image", Selected(blocks, kept)) = Cardinality(kept \cap Places("image", blocks))
      BY <1>5, CountSelected
    <2>2. Count("odd", Selected(blocks, kept)) = Cardinality(kept \cap Places("odd", blocks))
      BY <1>5, CountSelected
    <2>3. Selected(blocks, kept) \in Seq(AnyBlock)
      BY <1>5, SelectedIs
    <2>4. Count("junk", Selected(blocks, kept)) = Cardinality(kept \cap Places("junk", blocks))
      BY <1>5, CountSelected
    <2> QED
      BY <1>1, <1>6, <2>1, <2>2, <2>3, <2>4, FS_EmptySet
  <1>10. ASSUME Count("odd", blocks) = 0, ~(Count("image", blocks) > Cardinality(shown))
         PROVE  Admitted(blocks) = Objects(blocks)
    <2>1. Places("odd", blocks) = {}
      BY <1>2, <1>10, FS_EmptySet DEF Count
    <2>2. Cardinality(shown) <= Count("image", blocks)
      BY <1>2, <1>3, FS_Subset DEF Count
    <2>3. Cardinality(shown) = Count("image", blocks)
      BY <1>2, <1>7, <1>10, <2>2
    <2>4. shown = Places("image", blocks)
      BY <1>2, <1>3, <2>3, FS_Subset DEF Count
    <2>5. \A i \in DOMAIN blocks : blocks[i].kind \in {"text", "image", "odd", "junk"}
      BY SizeIs DEF AnyBlock
    <2>6. kept = DOMAIN blocks \ Places("junk", blocks)
      BY <2>1, <2>4, <2>5 DEF Places, kept
    <2> QED
      BY <1>1, <2>6 DEF Objects
  <1> QED
    BY <1>7, <1>8, <1>9, <1>10

(* What fits has no more images, and is everything where nothing is left   *)
(* out.                                                                    *)
LEMMA FittingIs ==
    ASSUME NEW blocks \in Seq(AnyBlock), NEW structured \in Nat, Count("odd", blocks) = 0,
           Count("junk", blocks) = 0
    PROVE  LET fitting == Fitting(blocks, structured)
           IN  /\ Count("image", fitting[1]) \in Nat
               /\ Count("image", fitting[1]) <= Count("image", blocks)
               /\ TotalSize(fitting[1]) + fitting[2] <= ResultBudget
               /\ /\ ~(Count("image", blocks) > Count("image", fitting[1]))
                  /\ ~(TotalSize(Texts(blocks)) + structured > ResultBudget)
                  => fitting[1] = blocks /\ fitting[2] = structured
  <1> DEFINE texts == Texts(blocks)
             size  == TotalSize(blocks) + structured
             textSize == TotalSize(texts) + structured
             short == [kind |-> "text", size |-> Min({TextLimit, Head(texts).size})]
             fitting == Fitting(blocks, structured)
             rest == IF texts = <<>> THEN <<>> ELSE <<short>>
  <1>1. /\ texts \in Seq(AnyBlock) /\ Count("image", texts) = 0
        /\ Count("image", blocks) = 0 => texts = blocks
    BY TextsAre
  <1>2. size \in Nat /\ textSize \in Nat /\ Count("image", blocks) \in Nat
    BY <1>1, SizeIs, PlacesAre
  <1>3. ResultBudget \in Nat /\ TextLimit \in Nat /\ TextLimit <= ResultBudget
    BY RepliesAssumption
  <1>4. \/ size <= ResultBudget /\ fitting = <<blocks, structured>>
        \/ size > ResultBudget /\ textSize <= ResultBudget /\ fitting = <<texts, structured>>
        \/ size > ResultBudget /\ textSize > ResultBudget /\ fitting = <<rest, 0>>
    <2>1. fitting = IF size <= ResultBudget THEN <<blocks, structured>>
                    ELSE IF textSize <= ResultBudget THEN <<texts, structured>> ELSE <<rest, 0>>
      BY DEF Fitting
    <2> HIDE DEF fitting, size, textSize, rest, texts
    <2>2. (size > ResultBudget) = ~(size <= ResultBudget)
          /\ (textSize > ResultBudget) = ~(textSize <= ResultBudget)
      BY <1>2, <1>3
    <2> QED
      BY <2>1, <2>2
  <1>5. /\ Count("image", rest) = 0 /\ TotalSize(rest) \in Nat
        /\ TotalSize(rest) <= ResultBudget
    <2>1. CASE texts = <<>>
      <3>1. rest = <<>> /\ <<>> \in Seq(AnyBlock) /\ Len(<<>>) = 0
        BY <2>1
      <3>2. Places("image", <<>>) = {}
        BY DEF Places
      <3> HIDE DEF rest
      <3>3. TotalSize(<<>>) = 0
        BY <3>1, SizeIs
      <3>4. Count("image", <<>>) = 0
        BY <3>2, FS_EmptySet DEF Count
      <3> QED
        BY <1>3, <3>1, <3>3, <3>4
    <2>2. CASE texts # <<>>
      <3>1. rest = <<short>>
        BY <2>2
      <3>2. Head(texts).size \in Nat
        <4>1. Head(texts) \in AnyBlock
          BY <1>1, <2>2
        <4> QED
          BY <4>1 DEF AnyBlock
      <3>3. /\ short.size = Min({TextLimit, Head(texts).size}) /\ short.kind = "text"
            /\ short.size \in Nat /\ short.size <= TextLimit
        BY <1>3, <3>2, SmallerOfTwo
      <3>4. short \in AnyBlock
        BY <3>3 DEF AnyBlock
      <3> HIDE DEF short, texts
      <3>5. <<short>> \in Seq(AnyBlock) /\ Len(<<short>>) = 1 /\ <<short>>[1] = short
        BY <3>4
      <3>6. Places("image", <<short>>) = {}
        BY <3>3, <3>5 DEF Places
      <3>7. TotalSize(<<short>>) = short.size
        BY <3>5, SizeIs
      <3> HIDE DEF rest
      <3>8. Count("image", <<short>>) = 0
        BY <3>6, FS_EmptySet DEF Count
      <3> QED
        BY <1>3, <3>1, <3>3, <3>7, <3>8
    <2> QED
      BY <2>1, <2>2
  <1> HIDE DEF rest
  <1> SUFFICES /\ Count("image", fitting[1]) \in Nat
               /\ Count("image", fitting[1]) <= Count("image", blocks)
               /\ TotalSize(fitting[1]) + fitting[2] <= ResultBudget
               /\ /\ ~(Count("image", blocks) > Count("image", fitting[1]))
                  /\ ~(textSize > ResultBudget)
                  => fitting[1] = blocks /\ fitting[2] = structured
    OBVIOUS
  <1>6. CASE size <= ResultBudget /\ fitting = <<blocks, structured>>
    <2>1. fitting[1] = blocks /\ fitting[2] = structured
      BY <1>6
    <2> HIDE DEF fitting
    <2> QED
      BY <1>2, <1>6, <2>1
  <1>7. CASE size > ResultBudget /\ textSize <= ResultBudget /\ fitting = <<texts, structured>>
    <2>1. fitting[1] = texts /\ fitting[2] = structured
      BY <1>7
    <2>2. ~(Count("image", blocks) > 0) => texts = blocks
      BY <1>1, <1>2
    <2> HIDE DEF fitting, texts
    <2> QED
      BY <1>1, <1>2, <1>7, <2>1, <2>2
  <1>8. CASE size > ResultBudget /\ textSize > ResultBudget /\ fitting = <<rest, 0>>
    <2>1. fitting[1] = rest /\ fitting[2] = 0
      BY <1>8
    <2> HIDE DEF fitting, textSize
    <2> QED
      BY <1>2, <1>3, <1>5, <1>8, <2>1
  <1> QED
    BY <1>4, <1>6, <1>7, <1>8

(* A result is whole or has a note, and no more images are sent than there *)
(* is room for.                                                            *)
LEMMA ResultSaysSo ==
    ASSUME NEW r \in Results, ToolResult(r), Room \in Nat
    PROVE  LET admitted == Admitted(r.blocks)
               fitting  == Fitting(admitted, Structured(r))
           IN  /\ ResultsSaySo'
               /\ Count("image", fitting[1]) \in 0..Room
  <1> DEFINE admitted == Admitted(r.blocks)
             fitting  == Fitting(admitted, Structured(r))
             notes    == Notes(r, admitted, fitting)
             images   == Count("image", fitting[1])
  <1>1. r.blocks \in Seq(AnyBlock) /\ Structured(r) \in Nat
    BY ResultIs
  <1>2. /\ admitted \in Seq(AnyBlock) /\ Count("image", admitted) \in Nat
        /\ Count("image", admitted) <= Room /\ Count("odd", admitted) = 0
        /\ Count("junk", admitted) = 0
        /\ /\ Count("odd", r.blocks) = 0 /\ ~(Count("image", r.blocks) > Count("image", admitted))
           => admitted = Objects(r.blocks)
    BY <1>1, AdmittedIs
  <1>3. answer' = [to |-> "tool", result |-> r, blocks |-> fitting[1],
                   structured |-> fitting[2], notes |-> notes]
    BY DEF ToolResult
  <1> HIDE DEF admitted
  <1>4. /\ images \in Nat /\ images <= Count("image", admitted)
        /\ TotalSize(fitting[1]) + fitting[2] <= ResultBudget
        /\ /\ ~(Count("image", admitted) > images)
           /\ ~(TotalSize(Texts(admitted)) + Structured(r) > ResultBudget)
           => fitting[1] = admitted /\ fitting[2] = Structured(r)
    BY <1>1, <1>2, FittingIs
  <1>5. notes = {} => /\ ~(Count("odd", r.blocks) > 0)
                      /\ ~(Count("image", r.blocks) > Count("image", admitted))
                      /\ ~(Count("image", admitted) > images)
                      /\ ~(TotalSize(Texts(admitted)) + Structured(r) > ResultBudget)
    <2> HIDE DEF fitting
    <2>1. /\ Count("odd", r.blocks) > 0 => "left out" \in notes
          /\ Count("image", r.blocks) > Count("image", admitted) => "rate" \in notes
          /\ Count("image", admitted) > images => "size" \in notes
          /\ TotalSize(Texts(admitted)) + Structured(r) > ResultBudget => "cut" \in notes
      BY DEF Notes
    <2> HIDE DEF notes, images
    <2> QED
      BY <2>1
  <1>6. ~(Count("odd", r.blocks) > 0) => Count("odd", r.blocks) = 0
    <2>1. Count("odd", r.blocks) \in Nat
      BY <1>1, PlacesAre
    <2> QED
      BY <2>1
  <1> HIDE DEF notes, fitting, images
  <1>7. /\ answer'.notes = notes /\ answer'.blocks = fitting[1] /\ answer'.structured = fitting[2]
        /\ answer'.result = r
    BY <1>3
  <1>8. ResultsSaySo'
    <2>1. ~r.scrap => Structured(r) = r.structured
      BY DEF Structured
    <2> QED
      BY <1>2, <1>4, <1>5, <1>6, <1>7, <2>1 DEF ResultsSaySo
  <1>9. images \in 0..Room
    BY <1>2, <1>4
  <1> QED
    BY <1>8, <1>9 DEF images, fitting, admitted

-----------------------------------------------------------------------------
(* The images of a minute                                                  *)

Lately == {i \in DOMAIN sent : sent[i] + Window > now}

(* s is the images sent from the p-th on, of which the others are too old. *)
SentAfter(s, p) ==
    /\ s \in Seq(Nat) /\ Len(s) = Len(sent) - p
    /\ \A i \in 1..Len(s) : s[i] = sent[p + i]
    /\ \A i \in 1..p : sent[i] + Window <= now

ImagesInv ==
    /\ now \in Nat /\ sent \in Seq(Nat)
    /\ \A i \in 1..Len(sent) : sent[i] <= now
    /\ \A i, k \in 1..Len(sent) : i <= k => sent[i] <= sent[k]
    /\ \E p \in 0..Len(sent) : SentAfter(events, p)
    /\ Cardinality(Lately) <= MaxImages

(* A set that has all smaller numbers with a number is an interval.        *)
LEMMA FirstOnes ==
    ASSUME NEW n \in Nat, NEW s \in SUBSET (1..n), \A i \in s : \A k \in 1..i : k \in s
    PROVE  Cardinality(s) \in 0..n /\ s = 1..Cardinality(s)
  <1>1. ASSUME NEW g \in 0..n, s = 1..g
        PROVE  Cardinality(s) = g
    BY <1>1, FS_Interval
  <1>2. CASE s = 1..n
    BY <1>1, <1>2
  <1>3. CASE s # 1..n
    <2> DEFINE rest == (1..n) \ s
    <2>1. rest \in SUBSET Nat /\ rest # {}
      <3>1. s \subseteq 1..n
        OBVIOUS
      <3>2. rest # {}
        BY <1>3, <3>1, Zenon
      <3> QED
        BY <3>2
    <2>2. PICK m \in rest : \A k \in rest : m <= k
      BY <2>1, LeastOf
    <2>3. m \in 1..n /\ m \notin s
      BY <2>2
    <2>4. \A k \in 1..n : k < m => k \in s
      <3> SUFFICES ASSUME NEW k \in 1..n, k < m, k \notin s PROVE FALSE
        OBVIOUS
      <3>1. m <= k
        BY <2>2
      <3> QED
        BY <2>3, <3>1
    <2>5. \A k \in s : k < m
      <3> SUFFICES ASSUME NEW k \in s, ~(k < m) PROVE FALSE
        OBVIOUS
      <3>1. k \in 1..n /\ m \in 1..k
        BY <2>3
      <3> QED
        BY <2>3, <3>1
    <2>6. s = 1..m - 1 /\ m - 1 \in 0..n
      <3>1. \A k \in 1..m - 1 : k \in s
        BY <2>3, <2>4
      <3>2. \A k \in s : k \in 1..m - 1
        BY <2>3, <2>5
      <3>3. s = 1..m - 1
        BY <3>1, <3>2, Zenon
      <3>4. m - 1 \in 0..n
        BY <2>3
      <3> QED
        BY <3>3, <3>4
    <2> QED
      BY <1>1, <2>6
  <1> QED
    BY <1>2, <1>3

(* How many numbers there are above a number, up to another.               *)
LEMMA HowMany ==
    ASSUME NEW a \in Nat, NEW b \in Nat, a <= b
    PROVE  Cardinality(a+1..b) = b - a
  <1> DEFINE m == a + 1
  <1>1. m \in Int /\ b \in Int
    OBVIOUS
  <1>2. (m > b => b - a = 0) /\ b - m + 1 = b - a
    OBVIOUS
  <1> HIDE DEF m
  <1>3. Cardinality(m..b) = IF m > b THEN 0 ELSE b - m + 1
    BY <1>1, FS_Interval
  <1> QED
    BY <1>2, <1>3 DEF m

LEMMA WindowIs ==
    Window \in Nat \ {0} /\ MaxImages \in Nat /\ MaxTime \in Nat
  BY RepliesAssumption

(* What the limiter counts is what was sent lately.                        *)
LEMMA CountedIs ==
    ASSUME ImagesInv
    PROVE  \E q \in 0..Len(sent) :
               /\ SentAfter(Counted, q) /\ Lately = q+1..Len(sent)
               /\ Cardinality(Lately) = Len(Counted)
  <1>1. /\ now \in Nat /\ sent \in Seq(Nat) /\ Len(sent) \in Nat
        /\ \A i \in 1..Len(sent) : sent[i] \in Nat
        /\ \A i, k \in 1..Len(sent) : i <= k => sent[i] <= sent[k]
    BY DEF ImagesInv
  <1>2. PICK p \in 0..Len(sent) : SentAfter(events, p)
    BY DEF ImagesInv
  <1> DEFINE n == Len(events)
             over == {i \in DOMAIN events : \A k \in 1..i : events[k] + Window <= now}
             g == Cardinality(over)
             q == p + g
  <1>3. /\ events \in Seq(Nat) /\ n = Len(sent) - p /\ n \in Nat /\ DOMAIN events = 1..n
        /\ \A i \in 1..n : events[i] = sent[p + i]
        /\ \A i \in 1..p : sent[i] + Window <= now
    BY <1>1, <1>2 DEF SentAfter
  <1>4. Counted = SubSeq(events, g + 1, n)
    BY DEF Counted
  <1>5. over = {i \in 1..n : \A k \in 1..i : events[k] + Window <= now}
    BY <1>3
  <1> HIDE DEF n, over
  <1>6. g \in 0..n /\ over = 1..g
    <2>1. over \in SUBSET (1..n)
      BY <1>5
    <2>2. \A i \in over : \A k \in 1..i : k \in over
      BY <1>3, <1>5
    <2> QED
      BY <1>3, <2>1, <2>2, FirstOnes
  <1> HIDE DEF g
  <1>7. q \in 0..Len(sent) /\ q \in Nat /\ n - g = Len(sent) - q
    BY <1>1, <1>3, <1>6
  <1>8. \A i \in 1..q : sent[i] + Window <= now
    <2> SUFFICES ASSUME NEW i \in 1..q PROVE sent[i] + Window <= now
      OBVIOUS
    <2>1. CASE i \in 1..p
      BY <1>3, <2>1
    <2>2. CASE i \notin 1..p
      <3>1. i - p \in 1..g /\ i - p \in 1..n /\ i = p + (i - p)
        BY <1>3, <1>6, <2>2
      <3>2. i - p \in 1..(i - p)
        BY <3>1
      <3>3. events[i - p] + Window <= now
        BY <1>5, <1>6, <3>1, <3>2
      <3>4. events[i - p] = sent[p + (i - p)]
        BY <1>3, <3>1
      <3> QED
        BY <3>1, <3>3, <3>4
    <2> QED
      BY <2>1, <2>2
  <1>9. \A i \in q+1..Len(sent) : sent[i] + Window > now
    <2> SUFFICES ASSUME NEW i \in q+1..Len(sent) PROVE sent[i] + Window > now
      OBVIOUS
    <2>1. g + 1 \in 1..n /\ g + 1 \notin over /\ q + 1 \in 1..Len(sent) /\ q + 1 <= i
          /\ i \in 1..Len(sent)
      BY <1>3, <1>6, <1>7
    <2>2. PICK k \in 1..g + 1 : ~(events[k] + Window <= now)
      BY <1>5, <2>1
    <2>3. k = g + 1
      <3> SUFFICES ASSUME k # g + 1 PROVE FALSE
        OBVIOUS
      <3>1. k \in over
        BY <1>6, <2>2
      <3>2. k \in 1..k
        BY <1>6
      <3> QED
        BY <1>5, <2>2, <3>1, <3>2
    <2>4. events[k] = sent[q + 1]
      <3>1. p + (g + 1) = q + 1
        BY <1>6
      <3> QED
        BY <1>3, <2>1, <2>3, <3>1
    <2>5. sent[q + 1] <= sent[i] /\ sent[q + 1] \in Nat /\ sent[i] \in Nat
      BY <1>1, <2>1
    <2>6. ~(sent[q + 1] + Window <= now)
      BY <2>2, <2>4
    <2> QED
      BY SMTT(30), <1>1, <2>5, <2>6, WindowIs
  <1>10. Lately = q+1..Len(sent)
    <2>1. DOMAIN sent = 1..Len(sent)
      BY <1>1
    <2>2. \A i \in 1..Len(sent) : (sent[i] + Window > now) = ~(sent[i] + Window <= now)
      BY <1>1, WindowIs
    <2>3. \A i \in 1..Len(sent) : i \in 1..q \/ i \in q+1..Len(sent)
      BY <1>7
    <2>4. q+1..Len(sent) \subseteq 1..Len(sent)
      BY <1>7
    <2> HIDE DEF q
    <2>5. \A i \in 1..Len(sent) : sent[i] + Window > now <=> i \in q+1..Len(sent)
      BY <1>8, <1>9, <2>2, <2>3
    <2> QED
      BY <2>1, <2>4, <2>5 DEF Lately
  <1>11. /\ Counted \in Seq(Nat) /\ Len(Counted) = Len(sent) - q
         /\ \A i \in 1..Len(Counted) : Counted[i] = sent[q + i]
    <2>1. \A i \in 1..n : events[i] \in Nat
      BY <1>3 DEF n
    <2> DEFINE c == SubSeq(events, g + 1, n)
    <2>2. c \in Seq(Nat) /\ Len(c) = n - g /\ \A i \in 1..n - g : c[i] = events[g + i]
      <3> DEFINE m == g + 1
      <3>1. m \in Int /\ n \in Int /\ \A i \in m..n : i \in 1..n
        BY <1>3, <1>6
      <3>2. /\ (m <= n <=> g < n) /\ n - m + 1 = n - g
            /\ \A i \in 1..n - g : m + i - 1 = g + i
        BY <1>3, <1>6
      <3> HIDE DEF m
      <3>3. \A i \in m..n : events[i] \in Nat
        BY <2>1, <3>1
      <3>4. /\ SubSeq(events, m, n) \in Seq(Nat)
            /\ Len(SubSeq(events, m, n)) = IF m <= n THEN n - m + 1 ELSE 0
            /\ \A i \in 1..n - m + 1 : SubSeq(events, m, n)[i] = events[m + i - 1]
        BY <3>1, <3>3, SubSeqProperties
      <3>5. c = SubSeq(events, m, n)
        BY DEF m
      <3> HIDE DEF c
      <3>6. Len(c) = n - g
        <4>1. n \in Nat /\ g \in Nat /\ (g < n \/ (g = n /\ n - g = 0))
          BY <1>3, <1>6
        <4>2. CASE g < n
          BY <3>2, <3>4, <3>5, <4>2
        <4>3. CASE g = n /\ n - g = 0
          <5>1. ~(m <= n)
            BY <3>2, <4>1, <4>3
          <5> QED
            BY <3>4, <3>5, <4>3, <5>1
        <4> QED
          BY <4>1, <4>2, <4>3
      <3>7. \A i \in 1..n - g : c[i] = events[g + i]
        BY <3>2, <3>4, <3>5
      <3> QED
        BY <3>4, <3>5, <3>6, <3>7
    <2> HIDE DEF c
    <2>3. \A i \in 1..n - g : events[g + i] = sent[q + i]
      <3> SUFFICES ASSUME NEW i \in 1..n - g PROVE events[g + i] = sent[q + i]
        OBVIOUS
      <3>1. g + i \in 1..n /\ p + (g + i) = q + i
        BY <1>3, <1>6
      <3> QED
        BY <1>3, <3>1
    <2> QED
      BY <1>4, <1>7, <2>2, <2>3 DEF c
  <1> HIDE DEF q
  <1>12. Cardinality(Lately) = Len(Counted)
    <2>1. q <= Len(sent)
      BY <1>1, <1>7
    <2>2. Cardinality(q+1..Len(sent)) = Len(sent) - q
      BY <1>1, <1>7, <2>1, HowMany
    <2> QED
      BY <1>10, <1>11, <2>2
  <1> QED
    BY <1>7, <1>8, <1>10, <1>11, <1>12 DEF SentAfter

LEMMA RoomIs ==
    ASSUME ImagesInv
    PROVE  /\ Room \in Nat /\ Len(Counted) \in Nat /\ Len(Counted) + Room = MaxImages
           /\ ImagesAreCounted
  <1>1. PICK q \in 0..Len(sent) : SentAfter(Counted, q) /\ Cardinality(Lately) = Len(Counted)
    BY CountedIs
  <1>2. Len(Counted) \in Nat /\ Len(Counted) <= MaxImages /\ MaxImages \in Nat
    BY <1>1, WindowIs DEF SentAfter, ImagesInv
  <1>3. Room \in Nat /\ Len(Counted) + Room = MaxImages
    BY <1>2 DEF Room
  <1> QED
    BY <1>1, <1>2, <1>3 DEF ImagesAreCounted, Lately

LEMMA TickKeeps ==
    ASSUME ImagesInv, Tick
    PROVE  ImagesInv'
  <1>1. now' = now + 1 /\ sent' = sent /\ events' = events
    BY DEF Tick
  <1>2. /\ now \in Nat /\ sent \in Seq(Nat) /\ Len(sent) \in Nat
        /\ \A i \in 1..Len(sent) : sent[i] \in Nat /\ sent[i] <= now
    BY DEF ImagesInv
  <1>3. PICK p \in 0..Len(sent) : SentAfter(events, p)
    BY DEF ImagesInv
  <1>4. SentAfter(events, p)'
    BY SMTT(30), <1>1, <1>2, <1>3, WindowIs DEF SentAfter
  <1>5. Cardinality(Lately') <= MaxImages
    <2>1. Lately' \subseteq Lately
      BY <1>1, <1>2, WindowIs DEF Lately
    <2>2. IsFiniteSet(Lately)
      <3>1. DOMAIN sent = 1..Len(sent)
        BY <1>2
      <3>2. Lately \subseteq 1..Len(sent)
        BY <3>1 DEF Lately
      <3>3. 1 \in Int /\ Len(sent) \in Int
        BY <1>2
      <3>4. IsFiniteSet(1..Len(sent))
        BY <3>3, FS_Interval
      <3> QED
        BY <3>2, <3>4, FS_Subset
    <2>3. Cardinality(Lately') <= Cardinality(Lately)
      BY <2>1, <2>2, FS_Subset
    <2>4. Cardinality(Lately) \in Nat /\ Cardinality(Lately') \in Nat /\ IsFiniteSet(Lately')
      BY <2>1, <2>2, FS_Subset, FS_CardinalityType
    <2> QED
      BY <2>3, <2>4, WindowIs DEF ImagesInv
  <1>6. \A i \in 1..Len(sent) : sent[i] <= now'
    BY <1>1, <1>2
  <1> QED
    BY <1>1, <1>2, <1>4, <1>5, <1>6 DEF ImagesInv

(* Images that go out now come after the others.                           *)
LEMMA TimesAfter ==
    ASSUME now \in Nat, NEW s \in Seq(Nat), NEW n \in Nat
    PROVE  /\ s \o Times(n) \in Seq(Nat) /\ Len(s \o Times(n)) = Len(s) + n
           /\ \A i \in 1..Len(s) : (s \o Times(n))[i] = s[i]
           /\ \A i \in Len(s)+1..Len(s)+n : (s \o Times(n))[i] = now
  <1> DEFINE t == Times(n)
  <1>1. t \in Seq(Nat) /\ Len(t) = n /\ \A i \in 1..n : t[i] = now
    BY DEF Times
  <1> HIDE DEF t
  <1>2. /\ s \o t \in Seq(Nat) /\ Len(s \o t) = Len(s) + Len(t)
        /\ \A i \in 1..Len(s) + Len(t) :
              (s \o t)[i] = IF i <= Len(s) THEN s[i] ELSE t[i - Len(s)]
    BY <1>1, ConcatProperties
  <1>3. Len(s) \in Nat
    OBVIOUS
  <1>4. ASSUME NEW i \in 1..Len(s) PROVE (s \o t)[i] = s[i]
    <2>1. i \in 1..Len(s) + Len(t) /\ i <= Len(s)
      BY <1>1, <1>3
    <2> QED
      BY <1>2, <2>1
  <1>5. ASSUME NEW i \in Len(s)+1..Len(s)+n PROVE (s \o t)[i] = now
    <2>1. i \in 1..Len(s) + Len(t) /\ ~(i <= Len(s)) /\ i - Len(s) \in 1..n
      BY <1>1, <1>3
    <2> QED
      BY <1>1, <1>2, <2>1
  <1> QED
    BY <1>1, <1>2, <1>4, <1>5 DEF t

(* Images that go out together.                                            *)
LEMMA SendKeeps ==
    ASSUME ImagesInv, NEW n \in 0..Room,
           events' = Allowed(n), sent' = sent \o Times(n), now' = now
    PROVE  ImagesInv'
  <1>1. PICK q \in 0..Len(sent) :
            /\ SentAfter(Counted, q) /\ Lately = q+1..Len(sent)
            /\ Cardinality(Lately) = Len(Counted)
    BY CountedIs
  <1>2. /\ now \in Nat /\ sent \in Seq(Nat) /\ Len(sent) \in Nat
        /\ \A i \in 1..Len(sent) : sent[i] \in Nat /\ sent[i] <= now
        /\ \A i, k \in 1..Len(sent) : i <= k => sent[i] <= sent[k]
    BY DEF ImagesInv
  <1>3. /\ Room \in Nat /\ n \in Nat /\ n <= Room /\ Len(Counted) \in Nat
        /\ Len(Counted) + Room = MaxImages
    BY RoomIs
  <1>4. /\ Counted \in Seq(Nat) /\ Len(Counted) = Len(sent) - q
        /\ \A i \in 1..Len(Counted) : Counted[i] = sent[q + i]
        /\ \A i \in 1..q : sent[i] + Window <= now
    BY <1>1 DEF SentAfter
  <1> DEFINE c == Counted
  <1>5. events' = c \o Times(n)
    <2>1. Min({n, Room}) = n
      BY <1>3, SmallerOfTwo
    <2> QED
      BY <2>1 DEF Allowed
  <1> HIDE DEF c
  <1>6. /\ sent' \in Seq(Nat) /\ Len(sent') = Len(sent) + n
        /\ \A i \in 1..Len(sent) : sent'[i] = sent[i]
        /\ \A i \in Len(sent)+1..Len(sent)+n : sent'[i] = now
    BY <1>2, <1>3, TimesAfter
  <1>7. /\ events' \in Seq(Nat) /\ Len(events') = Len(c) + n
        /\ \A i \in 1..Len(c) : events'[i] = c[i]
        /\ \A i \in Len(c)+1..Len(c)+n : events'[i] = now
    <2>1. c \in Seq(Nat)
      BY <1>4 DEF c
    <2>2. /\ c \o Times(n) \in Seq(Nat) /\ Len(c \o Times(n)) = Len(c) + n
          /\ \A i \in 1..Len(c) : (c \o Times(n))[i] = c[i]
          /\ \A i \in Len(c)+1..Len(c)+n : (c \o Times(n))[i] = now
      BY <1>2, <1>3, <2>1, TimesAfter
    <2> QED
      BY <1>5, <2>2
  <1>8. SentAfter(events, q)'
    <2>1. Len(events') = Len(sent') - q
      BY <1>2, <1>3, <1>4, <1>6, <1>7 DEF c
    <2>2. ASSUME NEW i \in 1..Len(events') PROVE events'[i] = sent'[q + i]
      <3>1. CASE i <= Len(c)
        <4>1. i \in 1..Len(c) /\ q + i \in 1..Len(sent)
          BY <1>2, <1>3, <1>4, <1>7, <3>1 DEF c
        <4> QED
          BY <1>4, <1>6, <1>7, <4>1 DEF c
      <3>2. CASE ~(i <= Len(c))
        <4>1. i \in Len(c)+1..Len(c)+n /\ q + i \in Len(sent)+1..Len(sent)+n
          BY <1>2, <1>3, <1>4, <1>7, <3>2 DEF c
        <4> QED
          BY <1>6, <1>7, <4>1
      <3> QED
        BY <3>1, <3>2
    <2>3. \A i \in 1..q : sent'[i] + Window <= now
      BY <1>2, <1>4, <1>6
    <2> QED
      BY <1>7, <2>1, <2>2, <2>3 DEF SentAfter
  <1>9. \A i \in 1..Len(sent') : sent'[i] <= now /\ sent'[i] \in Nat
    <2> SUFFICES ASSUME NEW i \in 1..Len(sent') PROVE sent'[i] <= now /\ sent'[i] \in Nat
      OBVIOUS
    <2>1. i \in 1..Len(sent) \/ i \in Len(sent)+1..Len(sent)+n
      BY <1>2, <1>3, <1>6
    <2>2. CASE i \in 1..Len(sent)
      <3>1. sent'[i] = sent[i] /\ sent[i] \in Nat /\ sent[i] <= now
        BY <1>2, <1>6, <2>2
      <3> QED
        BY <3>1
    <2>3. CASE i \in Len(sent)+1..Len(sent)+n
      <3>1. sent'[i] = now /\ now \in Nat
        BY <1>2, <1>6, <2>3
      <3> QED
        BY <3>1
    <2> QED
      BY <2>1, <2>2, <2>3
  <1>10. \A i, k \in 1..Len(sent') : i <= k => sent'[i] <= sent'[k]
    <2> SUFFICES ASSUME NEW i \in 1..Len(sent'), NEW k \in 1..Len(sent'), i <= k
                 PROVE  sent'[i] <= sent'[k]
      OBVIOUS
    <2>1. CASE k \in 1..Len(sent)
      <3>1. i \in 1..Len(sent)
        BY <1>2, <2>1
      <3> QED
        BY <1>2, <1>6, <2>1, <3>1
    <2>2. CASE k \notin 1..Len(sent)
      <3>1. k \in Len(sent)+1..Len(sent)+n
        BY <1>2, <1>3, <1>6, <2>2
      <3> QED
        BY <1>6, <1>9, <3>1
    <2> QED
      BY <2>1, <2>2
  <1>11. Lately' = q+1..Len(sent)+n
    <2>1. DOMAIN sent' = 1..Len(sent)+n
      BY <1>6
    <2>2. ASSUME NEW i \in 1..Len(sent)+n
          PROVE  sent'[i] + Window > now <=> i \in q+1..Len(sent)+n
      <3>1. CASE i \in 1..Len(sent)
        <4>1. sent'[i] = sent[i] /\ (sent[i] + Window > now <=> i \in Lately)
          BY <1>2, <1>6, <3>1 DEF Lately
        <4>2. i \in Lately <=> i \in q+1..Len(sent)
          BY <1>1
        <4>3. i \in q+1..Len(sent) <=> i \in q+1..Len(sent)+n
          BY <1>2, <1>3, <3>1
        <4> QED
          BY <4>1, <4>2, <4>3
      <3>2. CASE i \notin 1..Len(sent)
        <4>1. i \in Len(sent)+1..Len(sent)+n /\ i \in q+1..Len(sent)+n
          BY <1>2, <1>3, <3>2
        <4>2. now + Window > now
          BY <1>2, WindowIs
        <4> QED
          BY <1>6, <4>1, <4>2
      <3> QED
        BY <3>1, <3>2
    <2>3. q+1..Len(sent)+n \subseteq 1..Len(sent)+n
      BY <1>2, <1>3
    <2> QED
      BY <2>1, <2>2, <2>3 DEF Lately
  <1>12. Cardinality(Lately') <= MaxImages
    <2> DEFINE all == Len(sent) + n
    <2>1. q \in Nat /\ all \in Nat /\ q <= all /\ all - q = Len(Counted) + n
      BY <1>2, <1>3, <1>4
    <2> HIDE DEF all
    <2>2. Cardinality(q+1..all) = all - q
      BY <2>1, HowMany
    <2>3. Lately' = q+1..all
      BY <1>11 DEF all
    <2> QED
      BY <1>3, <2>1, <2>2, <2>3, WindowIs
  <1>13. q \in 0..Len(sent')
    BY <1>2, <1>3, <1>6
  <1> QED
    BY <1>2, <1>6, <1>8, <1>9, <1>10, <1>12, <1>13 DEF ImagesInv

-----------------------------------------------------------------------------
(* Every step                                                              *)

RepliesInv == ImagesInv /\ CommandInv /\ ListingsSaySo /\ ResultsSaySo

LEMMA RepliesStart ==
    ASSUME RepliesInit
    PROVE  RepliesInv
  <1>1. now = 0 /\ events = <<>> /\ sent = <<>> /\ answer.to = "nothing"
    BY DEF RepliesInit, NoAnswer
  <1>2. SentAfter(events, 0)
    BY <1>1 DEF SentAfter
  <1>3. Cardinality(Lately) <= MaxImages
    <2>1. Lately = {}
      BY <1>1 DEF Lately
    <2> QED
      BY <2>1, FS_EmptySet, WindowIs
  <1>4. ImagesInv
    BY <1>1, <1>2, <1>3 DEF ImagesInv
  <1> QED
    BY <1>1, <1>4 DEF RepliesInv, CommandInv, ListingsSaySo, ResultsSaySo

(* No step but a result's touches the images that went out.                *)
LEMMA ImagesKept ==
    ASSUME ImagesInv, UNCHANGED <<now, events, sent>>
    PROVE  ImagesInv'
  BY DEF ImagesInv, Lately, SentAfter

LEMMA RepliesKeep ==
    ASSUME RepliesInv, RepliesNext
    PROVE  RepliesInv'
  <1>1. ASSUME NEW tree \in Trees, NEW limit \in 0..MaxEntries, List(tree, limit)
        PROVE  RepliesInv'
    <2>1. ListingsSaySo'
      BY <1>1, ListSaysSo
    <2>2. answer'.to = "list" /\ UNCHANGED <<now, events, sent>>
      BY <1>1 DEF List, Walk
    <2>3. CommandInv' /\ ResultsSaySo'
      BY <2>2 DEF CommandInv, ResultsSaySo
    <2> QED
      BY <2>1, <2>2, <2>3, ImagesKept DEF RepliesInv
  <1>2. ASSUME NEW limit \in 0..MaxOutput, Collect(limit)
        PROVE  RepliesInv'
    <2>1. CommandInv'
      BY <1>2, CollectKeeps
    <2>2. answer'.to = "command" /\ UNCHANGED <<now, events, sent>>
      BY <1>2 DEF Collect
    <2>3. ListingsSaySo' /\ ResultsSaySo'
      BY <2>2 DEF ListingsSaySo, ResultsSaySo
    <2> QED
      BY <2>1, <2>2, <2>3, ImagesKept DEF RepliesInv
  <1>3. ASSUME NEW channel \in {"stdout", "stderr"}, NEW n \in 1..MaxOutput, Feed(channel, n)
        PROVE  RepliesInv'
    <2>1. CommandInv' /\ answer'.to = "command"
      BY <1>3, FeedKeeps DEF RepliesInv
    <2>2. UNCHANGED <<now, events, sent>>
      BY <1>3 DEF Feed
    <2>3. ListingsSaySo' /\ ResultsSaySo'
      BY <2>1 DEF ListingsSaySo, ResultsSaySo
    <2> QED
      BY <2>1, <2>2, <2>3, ImagesKept DEF RepliesInv
  <1>4. CASE FinishOutput
    <2>1. CommandInv' /\ answer'.to = "command"
      BY <1>4, FinishKeeps DEF RepliesInv
    <2>2. UNCHANGED <<now, events, sent>>
      BY <1>4 DEF FinishOutput
    <2>3. ListingsSaySo' /\ ResultsSaySo'
      BY <2>1 DEF ListingsSaySo, ResultsSaySo
    <2> QED
      BY <2>1, <2>2, <2>3, ImagesKept DEF RepliesInv
  <1>5. ASSUME NEW r \in Results, ToolResult(r)
        PROVE  RepliesInv'
    <2> DEFINE admitted == Admitted(r.blocks)
               n == Count("image", Fitting(admitted, Structured(r))[1])
    <2>1. Room \in Nat
      BY RoomIs DEF RepliesInv
    <2>2. ResultsSaySo' /\ n \in 0..Room
      BY <1>5, <2>1, ResultSaysSo
    <2>3. /\ events' = Allowed(n) /\ sent' = sent \o Times(n) /\ now' = now
          /\ answer'.to = "tool"
      BY <1>5 DEF ToolResult, Charge
    <2> HIDE DEF n
    <2>4. ImagesInv'
      BY <2>2, <2>3, SendKeeps DEF RepliesInv
    <2>5. ListingsSaySo' /\ CommandInv'
      BY <2>3 DEF ListingsSaySo, CommandInv
    <2> QED
      BY <2>2, <2>4, <2>5 DEF RepliesInv
  <1>6. CASE ReplySent
    <2>1. answer'.to = "nothing" /\ UNCHANGED <<now, events, sent>>
      BY <1>6 DEF ReplySent, NoAnswer
    <2>2. ListingsSaySo' /\ ResultsSaySo' /\ CommandInv'
      BY <2>1 DEF ListingsSaySo, ResultsSaySo, CommandInv
    <2> QED
      BY <2>1, <2>2, ImagesKept DEF RepliesInv
  <1>7. CASE Tick
    <2>1. ImagesInv'
      BY <1>7, TickKeeps DEF RepliesInv
    <2>2. answer' = answer
      BY <1>7 DEF Tick
    <2>3. ListingsSaySo' /\ ResultsSaySo' /\ CommandInv'
      BY <2>2 DEF RepliesInv, ListingsSaySo, ResultsSaySo, CommandInv
    <2> QED
      BY <2>1, <2>3 DEF RepliesInv
  <1> QED
    BY <1>1, <1>2, <1>3, <1>4, <1>5, <1>6, <1>7 DEF RepliesNext

LEMMA RepliesKept ==
    ASSUME RepliesInv, UNCHANGED replies
    PROVE  RepliesInv'
  <1>1. answer' = answer /\ UNCHANGED <<now, events, sent>>
    BY DEF replies
  <1>2. ListingsSaySo' /\ ResultsSaySo' /\ CommandInv'
    BY <1>1 DEF RepliesInv, ListingsSaySo, ResultsSaySo, CommandInv
  <1> QED
    BY <1>1, <1>2, ImagesKept DEF RepliesInv

LEMMA RepliesSaid ==
    ASSUME RepliesInv
    PROVE  RepliesSayWhatIsMissing
  <1>1. OutputsSaySo
    BY DEF RepliesInv, CommandInv, OutputInv, OutputsSaySo
  <1>2. ImagesAreCounted
    BY RoomIs DEF RepliesInv
  <1> QED
    BY <1>1, <1>2 DEF RepliesInv, RepliesSayWhatIsMissing

=============================================================================
