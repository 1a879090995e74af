------------------------- MODULE ConnectionProofs ---------------------------
(***************************************************************************)
(* What Connection promises, for any number of chats and token pairs,      *)
(* proved: the types and the lock, that a refresh token is spent only on   *)
(* the access token that was refused, that no daemon takes its credentials *)
(* for refused for another reason than those the property names, and that  *)
(* restarts come to an end.                                                *)
(*                                                                         *)
(* The inductive invariant says what every loop knows of the tokens as     *)
(* long as nothing was cut short: a loop that holds the lock has the pair  *)
(* in the keychain, or its successor; the others have that pair or one     *)
(* before it, and then the one in the keychain works.                      *)
(***************************************************************************)
EXTENDS Connection, TLAPS

Holding == {"check", "fetch"} \cup Refreshing

(* What a loop knows, of the pair in the keychain, the access tokens that  *)
(* work, and the number of pairs issued.                                   *)
Knows(s, st, works, n) ==
    /\ s.phase \in {"connect", "wait", "check"} =>
          s.tok <= st /\ (s.tok < st => st \in works)
    /\ s.phase = "fetch" => s.tok = st
    /\ s.phase \in Refreshing => s.tok = st /\ s.old = st
    /\ s.phase \in {"answer", "store"} => s.new \in works /\ st < s.new /\ s.new <= n
    /\ s.phase = "retry" => s.tok \in works

RefreshInv ==
    ~disturbed =>
        /\ stored # NoPair /\ stored <= issued /\ late = {} /\ cli = NoPair
        /\ \A x \in Daemons : Knows(sock[x], stored, access, issued)

(* The types of the loops and the lock, with what TypeOK leaves out: what  *)
(* a loop stores, or leaves to a thread, is a pair it was given, and a     *)
(* loop that has ended has a reason.                                       *)
Sound(s) ==
    /\ s.phase \in {"answer", "store"} => s.new \in Pairs
    /\ s.phase = "ended" => s.final # "no"

SockTypes ==
    /\ sock \in [Daemons -> Sock]
    /\ \A x \in Daemons : (refresher = x) <=> sock[x].phase \in Holding
    /\ \A x \in Daemons : Sound(sock[x])
    /\ refresher \in Daemons \cup {NoOne}

RestTypes ==
    /\ world \in World
    /\ issued \in 0..MaxPairs /\ stored \in Pairs \cup {NoPair}
    /\ access \subseteq Pairs /\ refresh \subseteq Pairs /\ late \subseteq Pairs
    /\ process \in {"start", "up"} \cup Cause
    /\ cli \in Pairs \cup {NoPair}
    /\ disturbed \in BOOLEAN

(* A loop runs only while the process does.                                *)
DownInv == process # "up" => \A x \in Daemons : sock[x].phase = "off"

IInv == SockTypes /\ RestTypes /\ DownInv /\ RefreshInv

-----------------------------------------------------------------------------
(* Types                                                                   *)

LEMMA Types == SockTypes /\ RestTypes => TypeOK
  BY DEF TypeOK, SockTypes, RestTypes, Holding

LEMMA PairsAreNumbers ==
    /\ MaxPairs \in Nat \ {0} /\ Pairs \subseteq Nat /\ NoPair = 0
    /\ NoPair \notin Pairs
  BY ConnectionAssumption DEF Pairs, NoPair

LEMMA OffIs ==
    /\ Off \in Sock /\ Off.phase = "off" /\ Off.tok = NoPair /\ Off.old = NoPair
    /\ Off.new = NoPair /\ Off.final = "no"
    /\ Begun \in Sock /\ Begun.phase = "read" /\ Begun.final = "no"
  BY DEF Off, Begun, Sock, Phase

LEMMA SocksHoldPairs ==
    ASSUME NEW s \in Sock
    PROVE  /\ s.tok \in Pairs \cup {NoPair} /\ s.tok \in Nat
           /\ s.old \in Pairs \cup {NoPair} /\ s.old \in Nat
           /\ s.new \in Pairs \cup {NoPair} /\ s.new \in Nat
           /\ s.phase \in Phase
  <1>1. /\ s.tok \in Pairs \cup {NoPair} /\ s.old \in Pairs \cup {NoPair}
        /\ s.new \in Pairs \cup {NoPair} /\ s.phase \in Phase
    BY DEF Sock
  <1>2. Pairs \cup {NoPair} \subseteq Nat
    BY PairsAreNumbers
  <1> QED
    BY <1>1, <1>2

(* The daemon x goes on from s, and lets the lock go if it has it.         *)
LEMMA ToGoes ==
    ASSUME SockTypes, NEW x \in Daemons, NEW s \in Sock, s.phase \notin Holding,
           Sound(s), To(x, s)
    PROVE  /\ SockTypes' /\ sock'[x] = s
           /\ \A y \in Daemons \ {x} : sock'[y] = sock[y]
  <1>1. sock'[x] = s /\ (\A y \in Daemons \ {x} : sock'[y] = sock[y])
        /\ sock' \in [Daemons -> Sock]
    BY DEF To, SockTypes
  <1>2. refresher' = IF refresher = x THEN NoOne ELSE refresher
    BY DEF To
  <1>3. NoOne \notin Daemons
    BY ConnectionAssumption DEF Daemons
  <1> QED
    BY <1>1, <1>2, <1>3 DEF SockTypes

(* The daemon x goes to another phase.                                     *)
LEMMA MoveGoes ==
    ASSUME SockTypes, NEW x \in Daemons, NEW p \in Phase,
           p \in Holding <=> sock[x].phase \in Holding,
           p \notin {"answer", "ended"}, p = "store" => sock[x].phase = "answer", Move(x, p)
    PROVE  /\ SockTypes' /\ sock'[x].phase = p
           /\ sock'[x].tok = sock[x].tok /\ sock'[x].old = sock[x].old
           /\ sock'[x].new = sock[x].new /\ sock'[x].final = sock[x].final
           /\ \A y \in Daemons \ {x} : sock'[y] = sock[y]
  <1> DEFINE s == sock[x]
             r == [s EXCEPT !.phase = p]
  <1>1. /\ s \in Sock /\ sock' = [sock EXCEPT ![x] = r] /\ refresher' = refresher
        /\ (p = "store" => s.new \in Pairs)
    BY DEF SockTypes, Move, Sound
  <1> HIDE DEF s
  <1>2. /\ r \in Sock /\ r.phase = p /\ r.tok = s.tok /\ r.old = s.old
        /\ r.new = s.new /\ r.final = s.final
    BY <1>1 DEF Sock
  <1> HIDE DEF r
  <1>3. sock'[x] = r /\ (\A y \in Daemons \ {x} : sock'[y] = sock[y])
        /\ sock' \in [Daemons -> Sock]
    BY <1>1, <1>2 DEF SockTypes
  <1>4. Sound(r)
    BY <1>1, <1>2 DEF Sound
  <1> QED
    BY <1>1, <1>2, <1>3, <1>4 DEF SockTypes, s

BackOff == [Off EXCEPT !.phase = "back"]

LEMMA BackGoes ==
    ASSUME SockTypes, NEW x \in Daemons, Back(x)
    PROVE  /\ SockTypes' /\ sock'[x].phase = "back" /\ sock'[x].final = "no"
           /\ \A y \in Daemons \ {x} : sock'[y] = sock[y]
  <1>1. /\ BackOff \in Sock /\ BackOff.phase = "back" /\ BackOff.final = "no"
        /\ BackOff.phase \notin Holding
        /\ Sound(BackOff)
    BY DEF BackOff, Off, Sock, Phase, Holding, Refreshing, Sound
  <1>2. To(x, BackOff)
    BY DEF Back, BackOff
  <1> QED
    BY <1>1, <1>2, ToGoes

LEMMA EndedGoes ==
    ASSUME SockTypes, NEW x \in Daemons, NEW why \in {"denied", "odd", "disabled"}, Ended(x, why)
    PROVE  /\ SockTypes' /\ sock'[x].phase = "ended" /\ sock'[x].final = why
           /\ \A y \in Daemons \ {x} : sock'[y] = sock[y]
  <1> DEFINE r == [Off EXCEPT !.phase = "ended", !.final = why]
  <1>1. /\ r \in Sock /\ r.phase = "ended" /\ r.final = why /\ r.phase \notin Holding
        /\ Sound(r)
    BY DEF Off, Sock, Phase, Holding, Refreshing, Sound
  <1>2. To(x, r)
    BY DEF Ended
  <1> HIDE DEF r
  <1> QED
    BY <1>1, <1>2, ToGoes

(* A token to try the upgrade with again.                                  *)
LEMMA RetryGoes ==
    ASSUME SockTypes, NEW x \in Daemons, NEW n \in Pairs \cup {NoPair},
           To(x, [Off EXCEPT !.phase = "retry", !.tok = n])
    PROVE  /\ SockTypes' /\ sock'[x].phase = "retry" /\ sock'[x].tok = n
           /\ sock'[x].final = "no"
           /\ \A y \in Daemons \ {x} : sock'[y] = sock[y]
  <1> DEFINE r == [Off EXCEPT !.phase = "retry", !.tok = n]
  <1>1. /\ r \in Sock /\ r.phase = "retry" /\ r.tok = n /\ r.final = "no"
        /\ r.phase \notin Holding /\ Sound(r)
    BY DEF Off, Sock, Phase, Holding, Refreshing, Sound
  <1>2. To(x, r)
    OBVIOUS
  <1> HIDE DEF r
  <1> QED
    BY <1>1, <1>2, ToGoes

LEMMA ConnectGoes ==
    ASSUME SockTypes, NEW x \in Daemons, NEW n \in Pairs \cup {NoPair},
           To(x, [Begun EXCEPT !.phase = "connect", !.tok = n])
    PROVE  /\ SockTypes' /\ sock'[x].phase = "connect" /\ sock'[x].tok = n
           /\ sock'[x].final = "no"
           /\ \A y \in Daemons \ {x} : sock'[y] = sock[y]
  <1> DEFINE r == [Begun EXCEPT !.phase = "connect", !.tok = n]
  <1>1. /\ r \in Sock /\ r.phase = "connect" /\ r.tok = n /\ r.final = "no"
        /\ r.phase \notin Holding /\ Sound(r)
    BY DEF Off, Begun, Sock, Phase, Holding, Refreshing, Sound
  <1>2. To(x, r)
    OBVIOUS
  <1> HIDE DEF r
  <1> QED
    BY <1>1, <1>2, ToGoes

(* Every loop ends with the process.                                       *)
LEMMA ExitsGoes ==
    ASSUME NEW cause, Exits(cause)
    PROVE  SockTypes' /\ \A x \in Daemons : sock'[x] = Off
  <1>1. NoOne \notin Daemons /\ Off \in Sock /\ Off.phase \notin Holding
        /\ Sound(Off)
    BY ConnectionAssumption, OffIs DEF Daemons, Holding, Refreshing, Sound
  <1> QED
    BY <1>1 DEF Exits, SockTypes

-----------------------------------------------------------------------------
(* What a step of one loop keeps                                           *)

(* A loop in another phase knows nothing it relies on.                     *)
Relying == {"connect", "wait", "retry"} \cup Holding

LEMMA NothingToKnow ==
    ASSUME NEW s, NEW st, NEW works, NEW n, s.phase \notin Relying
    PROVE  Knows(s, st, works, n)
  BY DEF Knows, Relying, Holding, Refreshing

(* The reasons for which credentials may be given up.                      *)
Justified ==
    \/ disturbed \/ world.barred \/ ~world.compatible \/ ~world.keychain
    \/ stored = NoPair \/ stored \notin refresh

GivesUpForCause ==
    \A x \in Daemons : sock'[x].final = "denied" /\ sock[x].final = "no" => Justified

(* One loop moves, and the tokens are as they were.                        *)
LEMMA OneMoves ==
    ASSUME IInv, SockTypes', NEW x \in Daemons, process = "up",
           \A y \in Daemons \ {x} : sock'[y] = sock[y],
           UNCHANGED <<world, tokens, process, cli>>, disturbed' \in BOOLEAN,
           disturbed => disturbed',
           ~disturbed' => Knows(sock'[x], stored, access, issued)
    PROVE  IInv'
  <1>1. RestTypes'
    BY DEF IInv, RestTypes, tokens
  <1>3. DownInv'
    BY DEF DownInv
  <1>2. RefreshInv'
    <2> SUFFICES ASSUME ~disturbed'
                 PROVE  /\ stored # NoPair /\ stored <= issued /\ late = {}
                        /\ cli = NoPair
                        /\ \A y \in Daemons : Knows(sock'[y], stored, access, issued)
      BY DEF RefreshInv, tokens, Knows
    <2>1. RefreshInv /\ ~disturbed
      BY DEF IInv
    <2> QED
      BY <2>1 DEF RefreshInv
  <1> QED
    BY <1>1, <1>2, <1>3 DEF IInv

LEMMA OneGivesUp ==
    ASSUME NEW x \in Daemons, \A y \in Daemons \ {x} : sock'[y] = sock[y],
           sock'[x].final = "denied" /\ sock[x].final = "no" => Justified
    PROVE  GivesUpForCause
  BY DEF GivesUpForCause

(* A loop backs off, and what it knew is forgotten.                        *)
LEMMA BackKeeps ==
    ASSUME IInv, NEW x \in Daemons, process = "up", Back(x), UNCHANGED <<world, tokens, process, cli>>,
           disturbed' \in BOOLEAN, disturbed => disturbed'
    PROVE  IInv' /\ GivesUpForCause
  <1>1. SockTypes
    BY DEF IInv
  <1>2. /\ SockTypes' /\ sock'[x].phase = "back" /\ sock'[x].final = "no"
        /\ \A y \in Daemons \ {x} : sock'[y] = sock[y]
    BY <1>1, BackGoes
  <1>3. Knows(sock'[x], stored, access, issued)
    <2>1. sock'[x].phase \notin Relying
      BY <1>2 DEF Relying, Holding, Refreshing
    <2> QED
      BY <2>1, NothingToKnow
  <1> QED
    BY <1>2, <1>3, OneMoves, OneGivesUp

(* A loop ends, with a reason where it gives its credentials up.           *)
LEMMA EndedKeeps ==
    ASSUME IInv, NEW x \in Daemons, process = "up", NEW why \in {"denied", "odd", "disabled"}, Ended(x, why),
           why = "denied" => Justified, UNCHANGED <<world, tokens, process, cli>>,
           disturbed' \in BOOLEAN, disturbed => disturbed'
    PROVE  IInv' /\ GivesUpForCause
  <1>1. SockTypes
    BY DEF IInv
  <1>2. /\ SockTypes' /\ sock'[x].phase = "ended" /\ sock'[x].final = why
        /\ \A y \in Daemons \ {x} : sock'[y] = sock[y]
    BY <1>1, EndedGoes
  <1>3. Knows(sock'[x], stored, access, issued)
    <2>1. sock'[x].phase \notin Relying
      BY <1>2 DEF Relying, Holding, Refreshing
    <2> QED
      BY <2>1, NothingToKnow
  <1> QED
    BY <1>1, <1>2, <1>3, OneMoves, OneGivesUp

(* A loop takes an answer that no rule covers for a refusal.               *)
LEMMA OddKeeps ==
    ASSUME IInv, NEW x \in Daemons, process = "up", Odd(x),
           UNCHANGED <<world, tokens, process, cli>>,
           disturbed' \in BOOLEAN, disturbed => disturbed'
    PROVE  IInv' /\ GivesUpForCause
  BY EndedKeeps DEF Odd

(* A loop goes to another phase, keeping what it knows.                    *)
LEMMA MoveKeeps ==
    ASSUME IInv, NEW x \in Daemons, process = "up", NEW p \in Phase,
           p \in Holding <=> sock[x].phase \in Holding,
           p \notin {"answer", "ended"}, p = "store" => sock[x].phase = "answer", Move(x, p), Rest,
           ~disturbed => \A s \in Sock :
               /\ s.phase = p /\ s.tok = sock[x].tok /\ s.old = sock[x].old
               /\ s.new = sock[x].new
               => Knows(s, stored, access, issued)
    PROVE  IInv' /\ GivesUpForCause
  <1>1. SockTypes /\ disturbed \in BOOLEAN
    BY DEF IInv, RestTypes
  <1>2. /\ SockTypes' /\ sock'[x].phase = p
        /\ sock'[x].tok = sock[x].tok /\ sock'[x].old = sock[x].old
        /\ sock'[x].new = sock[x].new /\ sock'[x].final = sock[x].final
        /\ \A y \in Daemons \ {x} : sock'[y] = sock[y]
    BY <1>1, MoveGoes
  <1>3. sock'[x] \in Sock
    BY <1>2 DEF SockTypes
  <1>4. ~disturbed' => Knows(sock'[x], stored, access, issued)
    BY <1>2, <1>3 DEF Rest
  <1>5. disturbed' \in BOOLEAN /\ UNCHANGED <<world, tokens, process, cli>>
        /\ (disturbed => disturbed')
    BY <1>1 DEF Rest
  <1>6. IInv'
    BY <1>2, <1>4, <1>5, OneMoves
  <1>7. GivesUpForCause
    BY <1>2, OneGivesUp
  <1> QED
    BY <1>6, <1>7

(* A loop begins anew.                                                     *)
LEMMA BeginKeeps ==
    ASSUME IInv, NEW x \in Daemons, process = "up", NEW s \in {Begun, Off}, To(x, s),
           UNCHANGED <<world, tokens, process, cli>>, disturbed' \in BOOLEAN,
           disturbed => disturbed'
    PROVE  IInv' /\ GivesUpForCause
  <1>1. SockTypes
    BY DEF IInv
  <1>2. /\ s \in Sock /\ s.phase \notin Relying /\ s.phase \notin Holding
        /\ s.final = "no" /\ Sound(s)
    BY OffIs DEF Relying, Holding, Refreshing, Sound
  <1>3. /\ SockTypes' /\ sock'[x] = s
        /\ \A y \in Daemons \ {x} : sock'[y] = sock[y]
    BY <1>1, <1>2, ToGoes
  <1>4. Knows(sock'[x], stored, access, issued)
    BY <1>2, <1>3, NothingToKnow
  <1>5. IInv'
    BY <1>3, <1>4, OneMoves
  <1>6. GivesUpForCause
    BY <1>2, <1>3, OneGivesUp
  <1> QED
    BY <1>5, <1>6

-----------------------------------------------------------------------------
(* Connecting                                                              *)

LEMMA WakeKeeps ==
    ASSUME IInv, NEW x \in Daemons, Wake(x)
    PROVE  IInv' /\ GivesUpForCause
  <1>1. process = "up" /\ disturbed \in BOOLEAN
    BY DEF IInv, DownInv, RestTypes, Wake
  <1> QED
    BY <1>1, BeginKeeps DEF Wake, Rest

LEMMA ReadTokenKeeps ==
    ASSUME IInv, NEW x \in Daemons, ReadToken(x)
    PROVE  IInv' /\ GivesUpForCause
  <1>1. process = "up" /\ SockTypes /\ RestTypes /\ Rest /\ RefreshInv
    BY DEF IInv, DownInv, ReadToken
  <1>2. CASE To(x, [Begun EXCEPT !.phase = "connect", !.tok = stored])
    <2>1. stored \in Pairs \cup {NoPair}
      BY <1>1 DEF RestTypes
    <2>2. /\ SockTypes' /\ sock'[x].phase = "connect" /\ sock'[x].tok = stored
          /\ sock'[x].final = "no"
          /\ \A y \in Daemons \ {x} : sock'[y] = sock[y]
      BY <1>1, <1>2, <2>1, ConnectGoes
    <2>3. stored \in Nat
      BY <2>1, PairsAreNumbers
    <2>4. Knows(sock'[x], stored, access, issued)
      BY <2>2, <2>3 DEF Knows, Refreshing
    <2>5. IInv'
      BY <1>1, <2>2, <2>4, OneMoves DEF Rest, RestTypes
    <2> QED
      BY <2>2, <2>5, OneGivesUp
  <1>3. CASE (stored = NoPair \/ ~world.keychain) /\ Ended(x, "denied")
    BY <1>1, <1>3, EndedKeeps DEF Justified, Rest, RestTypes
  <1>4. CASE Back(x) \/ Odd(x)
    BY <1>1, <1>4, BackKeeps, OddKeeps DEF Rest, RestTypes
  <1> QED
    BY <1>2, <1>3, <1>4 DEF ReadToken

LEMMA UpgradeKeeps ==
    ASSUME IInv, NEW x \in Daemons, Upgrade(x)
    PROVE  IInv' /\ GivesUpForCause
  <1>1. process = "up" /\ SockTypes /\ RestTypes /\ Rest /\ RefreshInv
        /\ sock[x].phase \in {"connect", "retry"}
    BY DEF IInv, DownInv, Upgrade
  <1>2. sock[x].phase \notin Holding
    BY <1>1 DEF Holding, Refreshing
  <1>3. CASE Move(x, "shake")
    <2>1. "shake" \in Phase /\ "shake" \notin Holding /\ "shake" \notin Relying
      BY DEF Phase, Holding, Refreshing, Relying
    <2> QED
      BY <1>1, <1>2, <1>3, <2>1, MoveKeeps, NothingToKnow
  <1>4. CASE sock[x].phase = "connect" /\ Move(x, "wait")
    <2>1. "wait" \in Phase /\ "wait" \notin Holding
      BY DEF Phase, Holding, Refreshing
    <2>2. ASSUME ~disturbed, NEW s \in Sock, s.phase = "wait", s.tok = sock[x].tok
          PROVE  Knows(s, stored, access, issued)
      <3>1. Knows(sock[x], stored, access, issued)
        BY <1>1, <2>2 DEF RefreshInv
      <3> QED
        BY <1>4, <2>2, <3>1 DEF Knows, Refreshing
    <2> QED
      BY <1>1, <1>2, <1>4, <2>1, <2>2, MoveKeeps
  <1>5. CASE /\ sock[x].phase = "retry" /\ sock[x].tok \notin access
             /\ Ended(x, "denied")
    <2>1. disturbed
      BY <1>1, <1>5 DEF RefreshInv, Knows
    <2> QED
      BY <1>1, <1>5, <2>1, EndedKeeps DEF Justified, Rest, RestTypes
  <1>6. CASE world.barred /\ Ended(x, "denied")
    BY <1>1, <1>6, EndedKeeps DEF Justified, Rest, RestTypes
  <1>7. CASE Back(x) \/ Odd(x)
    BY <1>1, <1>7, BackKeeps, OddKeeps DEF Rest, RestTypes
  <1> QED
    BY <1>1, <1>3, <1>4, <1>5, <1>6, <1>7 DEF Upgrade

LEMMA HandshakeKeeps ==
    ASSUME IInv, NEW x \in Daemons, Handshake(x)
    PROVE  IInv' /\ GivesUpForCause
  <1>1. process = "up" /\ SockTypes /\ RestTypes /\ Rest /\ sock[x].phase = "shake"
    BY DEF IInv, DownInv, Handshake
  <1>2. CASE Move(x, "up")
    <2>1. "up" \in Phase /\ "up" \notin Relying /\ "up" \notin Holding
          /\ sock[x].phase \notin Holding
      BY <1>1 DEF Phase, Holding, Refreshing, Relying
    <2> QED
      BY <1>1, <1>2, <2>1, MoveKeeps, NothingToKnow
  <1>3. CASE ~world.compatible /\ \E why \in {"disabled", "denied"} : Ended(x, why)
    BY <1>1, <1>3, EndedKeeps DEF Justified, Rest, RestTypes
  <1>4. CASE Back(x)
    BY <1>1, <1>4, BackKeeps DEF Rest, RestTypes
  <1> QED
    BY <1>2, <1>3, <1>4 DEF Handshake

LEMMA DropKeeps ==
    ASSUME IInv, NEW x \in Daemons, Drop(x)
    PROVE  IInv' /\ GivesUpForCause
  <1>1. process = "up" /\ RestTypes
    BY DEF IInv, DownInv, Drop
  <1> QED
    BY <1>1, BackKeeps DEF Drop, Rest, RestTypes

LEMMA CloseForGoodKeeps ==
    ASSUME IInv, NEW x \in Daemons, CloseForGood(x)
    PROVE  IInv' /\ GivesUpForCause
  <1>1. process = "up" /\ RestTypes
    BY DEF IInv, DownInv, CloseForGood
  <1> QED
    BY <1>1, EndedKeeps DEF CloseForGood, Rest, RestTypes

-----------------------------------------------------------------------------
(* The refresh                                                             *)

LEMMA TakeLockKeeps ==
    ASSUME IInv, NEW x \in Daemons, TakeLock(x)
    PROVE  IInv' /\ GivesUpForCause
  <1>1. process = "up" /\ SockTypes /\ RestTypes /\ Rest /\ RefreshInv /\ sock[x].phase = "wait"
        /\ refresher = NoOne /\ refresher' = x
    BY DEF IInv, DownInv, TakeLock
  <1> DEFINE s == sock[x]
             r == [s EXCEPT !.phase = "check"]
  <1>2. s \in Sock /\ sock' = [sock EXCEPT ![x] = r] /\ s.phase = "wait"
    BY <1>1 DEF SockTypes, TakeLock
  <1>3. ~disturbed => Knows(s, stored, access, issued)
    BY <1>1 DEF RefreshInv
  <1>4. s.final = sock[x].final
    OBVIOUS
  <1> HIDE DEF s
  <1>5. /\ r \in Sock /\ r.phase = "check" /\ r.tok = s.tok /\ r.final = s.final
    BY <1>2 DEF Sock, Phase
  <1> HIDE DEF r
  <1>6. sock'[x] = r /\ (\A y \in Daemons \ {x} : sock'[y] = sock[y])
        /\ sock' \in [Daemons -> Sock]
    BY <1>1, <1>2, <1>5 DEF SockTypes
  <1>7. SockTypes'
    <2>1. NoOne \notin Daemons
      BY ConnectionAssumption DEF Daemons
    <2>2. \A y \in Daemons : sock[y].phase \notin Holding
      BY <1>1, <2>1 DEF SockTypes
    <2>3. "check" \in Holding
      BY DEF Holding
    <2> QED
      BY <1>1, <1>5, <1>6, <2>2, <2>3 DEF SockTypes, Sound
  <1>8. ~disturbed => Knows(sock'[x], stored, access, issued)
    BY <1>2, <1>3, <1>5, <1>6 DEF Knows, Refreshing
  <1>9. IInv'
    BY <1>1, <1>6, <1>7, <1>8, OneMoves DEF Rest, RestTypes
  <1>10. GivesUpForCause
    BY <1>4, <1>5, <1>6, OneGivesUp
  <1> QED
    BY <1>9, <1>10

LEMMA RecheckKeeps ==
    ASSUME IInv, NEW x \in Daemons, Recheck(x)
    PROVE  IInv' /\ GivesUpForCause
  <1>1. process = "up" /\ SockTypes /\ RestTypes /\ Rest /\ RefreshInv /\ sock[x].phase = "check"
    BY DEF IInv, DownInv, Recheck
  <1>2. ~disturbed => Knows(sock[x], stored, access, issued) /\ stored # NoPair
    BY <1>1 DEF RefreshInv
  <1>3. sock[x].tok \in Nat /\ stored \in Nat
    <2>1. sock[x] \in Sock /\ stored \in Pairs \cup {NoPair}
      BY <1>1 DEF SockTypes, RestTypes
    <2> QED
      BY <2>1, SocksHoldPairs, PairsAreNumbers
  <1>4. CASE /\ stored \notin {NoPair, sock[x].tok}
             /\ To(x, [Off EXCEPT !.phase = "retry", !.tok = stored])
    <2>1. stored \in Pairs \cup {NoPair}
      BY <1>1 DEF RestTypes
    <2>2. /\ SockTypes' /\ sock'[x].phase = "retry" /\ sock'[x].tok = stored
          /\ sock'[x].final = "no"
          /\ \A y \in Daemons \ {x} : sock'[y] = sock[y]
      BY <1>1, <1>4, <2>1, RetryGoes
    <2>3. ASSUME ~disturbed  PROVE stored \in access
      <3>1. sock[x].tok <= stored /\ (sock[x].tok < stored => stored \in access)
        BY <1>1, <1>2, <2>3 DEF Knows
      <3> QED
        BY <1>3, <1>4, <3>1
    <2>4. ~disturbed => Knows(sock'[x], stored, access, issued)
      BY <2>2, <2>3 DEF Knows, Refreshing
    <2>5. IInv'
      BY <1>1, <2>2, <2>4, OneMoves DEF Rest, RestTypes
    <2> QED
      BY <2>2, <2>5, OneGivesUp
  <1>5. CASE stored \in {NoPair, sock[x].tok} /\ Move(x, "fetch")
    <2>1. "fetch" \in Phase /\ "fetch" \in Holding /\ sock[x].phase \in Holding
      BY <1>1 DEF Phase, Holding, Refreshing
    <2>2. ASSUME ~disturbed, NEW s \in Sock, s.phase = "fetch", s.tok = sock[x].tok
          PROVE  Knows(s, stored, access, issued)
      BY <1>2, <1>5, <2>2 DEF Knows, Refreshing
    <2> QED
      BY <1>1, <1>5, <2>1, <2>2, MoveKeeps
  <1>6. CASE Back(x) \/ Odd(x)
    BY <1>1, <1>6, BackKeeps, OddKeeps DEF Rest, RestTypes
  <1> QED
    BY <1>4, <1>5, <1>6 DEF Recheck

LEMMA FetchKeeps ==
    ASSUME IInv, NEW x \in Daemons, Fetch(x)
    PROVE  IInv' /\ GivesUpForCause
  <1>1. process = "up" /\ SockTypes /\ RestTypes /\ Rest /\ RefreshInv /\ sock[x].phase = "fetch"
    BY DEF IInv, DownInv, Fetch
  <1>2. CASE stored = NoPair /\ Ended(x, "denied")
    BY <1>1, <1>2, EndedKeeps DEF Justified, Rest, RestTypes
  <1>3. CASE /\ sock' = [sock EXCEPT ![x].phase = "post", ![x].old = stored]
             /\ UNCHANGED refresher
    <2> DEFINE s == sock[x]
               r == [s EXCEPT !.phase = "post", !.old = stored]
    <2>1. /\ s \in Sock /\ sock' = [sock EXCEPT ![x] = r] /\ s.phase = "fetch"
          /\ stored \in Pairs \cup {NoPair} /\ s.final = sock[x].final
          /\ s.phase = sock[x].phase
      BY <1>1, <1>3 DEF SockTypes, RestTypes
    <2>2. ~disturbed => Knows(s, stored, access, issued)
      BY <1>1 DEF RefreshInv
    <2> HIDE DEF s
    <2>3. /\ r \in Sock /\ r.phase = "post" /\ r.tok = s.tok /\ r.old = stored
          /\ r.final = s.final
      BY <2>1 DEF Sock, Phase
    <2> HIDE DEF r
    <2>4. sock'[x] = r /\ (\A y \in Daemons \ {x} : sock'[y] = sock[y])
          /\ sock' \in [Daemons -> Sock]
      BY <1>1, <2>1, <2>3 DEF SockTypes
    <2>5. "post" \in Holding /\ "fetch" \in Holding
      BY DEF Holding, Refreshing
    <2>6. SockTypes'
      BY <1>1, <1>3, <2>1, <2>3, <2>4, <2>5 DEF SockTypes, Sound
    <2>7. ~disturbed => Knows(sock'[x], stored, access, issued)
      BY <2>1, <2>2, <2>3, <2>4 DEF Knows, Refreshing
    <2>8. IInv'
      BY <1>1, <2>4, <2>6, <2>7, OneMoves DEF Rest, RestTypes
    <2>9. GivesUpForCause
      BY <2>1, <2>3, <2>4, OneGivesUp
    <2> QED
      BY <2>8, <2>9
  <1>4. CASE Back(x) \/ Odd(x)
    BY <1>1, <1>4, BackKeeps, OddKeeps DEF Rest, RestTypes
  <1> QED
    BY <1>2, <1>3, <1>4 DEF Fetch

(* What a loop knows stays true when the platform issues another pair.     *)
LEMMA MoreIssued ==
    ASSUME NEW s \in Sock, NEW st, NEW works, NEW n \in Nat, Knows(s, st, works, n)
    PROVE  Knows(s, st, works \cup {n + 1}, n + 1)
  <1>1. s.new \in Nat
    BY SocksHoldPairs
  <1> QED
    BY <1>1 DEF Knows

(* The spent refresh token is the one in the keychain, and the new access  *)
(* token works.                                                            *)
LEMMA RotateKeeps ==
    ASSUME IInv, NEW x \in Daemons, Rotate(x)
    PROVE  /\ IInv' /\ GivesUpForCause
           /\ sock[x].old = sock[x].tok \/ disturbed
  <1>1. process = "up" /\ SockTypes /\ RestTypes /\ RefreshInv /\ sock[x].phase = "post"
    BY DEF IInv, DownInv, Rotate
  <1>2. /\ issued \in Nat /\ issued + 1 \in Pairs /\ issued' = issued + 1
        /\ stored \in Nat /\ MaxPairs \in Nat
    BY <1>1, PairsAreNumbers DEF RestTypes, Rotate, Pairs
  <1> DEFINE s == sock[x]
             n == issued + 1
             r == [s EXCEPT !.phase = "answer", !.new = n]
  <1>3. /\ s \in Sock /\ sock' = [sock EXCEPT ![x] = r] /\ refresher' = refresher
        /\ s.final = sock[x].final /\ s.phase = "post" /\ n \in Pairs
        /\ n = issued + 1 /\ s.tok = sock[x].tok /\ s.old = sock[x].old
    BY <1>1, <1>2 DEF SockTypes, Rotate
  <1>4. ~disturbed => Knows(s, stored, access, issued) /\ stored <= issued
    BY <1>1 DEF RefreshInv
  <1> HIDE DEF s, n
  <1>5. /\ r \in Sock /\ r.phase = "answer" /\ r.tok = s.tok /\ r.old = s.old
        /\ r.new = n /\ r.final = s.final
    BY <1>3 DEF Sock, Phase
  <1> HIDE DEF r
  <1>6. sock'[x] = r /\ (\A y \in Daemons \ {x} : sock'[y] = sock[y])
        /\ sock' \in [Daemons -> Sock]
    BY <1>1, <1>3, <1>5 DEF SockTypes
  <1>7. SockTypes'
    <2>1. "post" \in Holding /\ "answer" \in Holding
      BY DEF Holding, Refreshing
    <2> QED
      BY <1>1, <1>3, <1>5, <1>6, <2>1 DEF SockTypes, Sound
  <1>8. RestTypes'
    BY <1>1, <1>2, PairsAreNumbers DEF RestTypes, Rotate, Pairs
  <1>9. ASSUME ~disturbed
        PROVE  Knows(sock'[x], stored, access \cup {n}, n)
    <2>1. s.tok = stored /\ s.old = stored /\ stored < n
      BY <1>2, <1>3, <1>4, <1>9 DEF Knows, Refreshing
    <2>2. n \in Nat
      BY <1>3, PairsAreNumbers
    <2> QED
      BY <1>5, <1>6, <2>1, <2>2 DEF Knows, Refreshing
  <1>10. RefreshInv'
    <2> SUFFICES ASSUME ~disturbed
                 PROVE  /\ stored # NoPair /\ stored <= n /\ late = {}
                        /\ cli = NoPair
                        /\ \A y \in Daemons : Knows(sock'[y], stored, access \cup {n}, n)
      BY <1>2, <1>3 DEF RefreshInv, Rotate, Knows
    <2>1. stored # NoPair /\ stored <= n /\ late = {} /\ cli = NoPair
      BY <1>1, <1>2, <1>3, <1>4 DEF RefreshInv
    <2>2. ASSUME NEW y \in Daemons \ {x}
          PROVE  Knows(sock'[y], stored, access \cup {n}, n)
      <3>1. Knows(sock[y], stored, access, issued) /\ sock[y] \in Sock
        BY <1>1 DEF RefreshInv, SockTypes
      <3>2. Knows(sock[y], stored, access \cup {issued + 1}, issued + 1)
        BY <1>2, <3>1, MoreIssued
      <3> QED
        BY <1>3, <1>6, <3>2
    <2> QED
      BY <1>9, <2>1, <2>2
  <1>11. GivesUpForCause
    BY <1>3, <1>5, <1>6, OneGivesUp
  <1>12. sock[x].old = sock[x].tok \/ disturbed
    BY <1>3, <1>4 DEF Knows, Refreshing
  <1>13. DownInv'
    BY <1>1 DEF DownInv, Rotate
  <1> QED
    BY <1>7, <1>8, <1>10, <1>11, <1>12, <1>13 DEF IInv

LEMMA RefusedKeeps ==
    ASSUME IInv, NEW x \in Daemons, Refused(x)
    PROVE  IInv' /\ GivesUpForCause
  <1>1. process = "up" /\ SockTypes /\ RestTypes /\ Rest /\ RefreshInv /\ sock[x].phase = "post"
    BY DEF IInv, DownInv, Refused
  <1>2. CASE sock[x].old \notin refresh /\ Ended(x, "denied")
    <2>1. ~disturbed => sock[x].old = stored
      BY <1>1 DEF RefreshInv, Knows, Refreshing
    <2> QED
      BY <1>1, <1>2, <2>1, EndedKeeps DEF Justified, Rest, RestTypes
  <1>3. CASE Back(x) \/ Odd(x)
    BY <1>1, <1>3, BackKeeps, OddKeeps DEF Rest, RestTypes
  <1> QED
    BY <1>2, <1>3 DEF Refused

LEMMA AnswerKeeps ==
    ASSUME IInv, NEW x \in Daemons, Answer(x)
    PROVE  IInv' /\ GivesUpForCause
  <1>1. process = "up" /\ SockTypes /\ RestTypes /\ RefreshInv /\ sock[x].phase = "answer"
        /\ UNCHANGED <<world, tokens, process, cli>>
    BY DEF IInv, DownInv, Answer
  <1>2. CASE Move(x, "store") /\ UNCHANGED disturbed
    <2>1. "store" \in Phase /\ "store" \in Holding /\ sock[x].phase \in Holding
      BY <1>1 DEF Phase, Holding, Refreshing
    <2>2. ASSUME ~disturbed, NEW s \in Sock, s.phase = "store", s.tok = sock[x].tok,
                 s.old = sock[x].old, s.new = sock[x].new
          PROVE  Knows(s, stored, access, issued)
      <3>1. Knows(sock[x], stored, access, issued)
        BY <1>1, <2>2 DEF RefreshInv
      <3> QED
        BY <1>1, <2>2, <3>1 DEF Knows, Refreshing
    <2>3. Rest
      BY <1>1, <1>2 DEF Rest
    <2> QED
      BY <1>1, <1>2, <2>1, <2>2, <2>3, MoveKeeps
  <1>3. CASE (Back(x) \/ Odd(x)) /\ disturbed' = TRUE
    BY <1>1, <1>3, BackKeeps, OddKeeps
  <1> QED
    BY <1>2, <1>3 DEF Answer

(* A loop that does not hold the lock, once a newer pair is stored.        *)
LEMMA KnowsTheNext ==
    ASSUME NEW s \in Sock, NEW st \in Nat, NEW works, NEW n, NEW p \in Nat,
           Knows(s, st, works, n), s.phase \notin Holding, st < p, p \in works
    PROVE  Knows(s, p, works, n)
  <1>1. s.tok \in Nat
    BY SocksHoldPairs
  <1> QED
    BY <1>1 DEF Knows, Holding, Refreshing

(* The pair in the keychain is replaced by its successor while no other    *)
(* loop is refreshing.                                                     *)
LEMMA StoreKeeps ==
    ASSUME IInv, NEW x \in Daemons, Store(x)
    PROVE  IInv' /\ GivesUpForCause
  <1>1. process = "up" /\ SockTypes /\ RestTypes /\ RefreshInv /\ sock[x].phase = "store"
        /\ UNCHANGED <<world, issued, access, refresh, late, process, cli>>
    BY DEF IInv, DownInv, Store
  <1>2. CASE /\ stored' = sock[x].new
             /\ \/ To(x, [Off EXCEPT !.phase = "retry", !.tok = sock[x].new])
                \/ Back(x)
             /\ UNCHANGED disturbed
    <2>1. /\ sock[x].new \in Pairs \cup {NoPair} /\ sock[x].new \in Nat
          /\ stored \in Nat /\ issued \in Nat
      <3>1. sock[x] \in Sock /\ stored \in Pairs \cup {NoPair} /\ issued \in 0..MaxPairs
        BY <1>1 DEF SockTypes, RestTypes
      <3> QED
        BY <3>1, SocksHoldPairs, PairsAreNumbers
    <2>2. /\ SockTypes' /\ sock'[x].final = "no"
          /\ \/ sock'[x].phase = "back"
             \/ sock'[x].phase = "retry" /\ sock'[x].tok = sock[x].new
          /\ \A y \in Daemons \ {x} : sock'[y] = sock[y]
      BY <1>1, <1>2, <2>1, RetryGoes, BackGoes
    <2>3. RestTypes'
      BY <1>1, <1>2, <2>1 DEF RestTypes
    <2>4. RefreshInv'
      <3> DEFINE p == sock[x].new
      <3> SUFFICES ASSUME ~disturbed
                   PROVE  /\ p # NoPair /\ p <= issued /\ late = {} /\ cli = NoPair
                          /\ \A y \in Daemons : Knows(sock'[y], p, access, issued)
        BY <1>1, <1>2 DEF RefreshInv, Knows
      <3>1. p \in access /\ stored < p /\ p <= issued /\ late = {} /\ cli = NoPair
        BY <1>1 DEF RefreshInv, Knows
      <3>2. p # NoPair
        BY <2>1, <3>1 DEF NoPair
      <3>3. Knows(sock'[x], p, access, issued)
        BY <2>2, <3>1 DEF Knows, Refreshing
      <3>4. ASSUME NEW y \in Daemons \ {x}
            PROVE  Knows(sock'[y], p, access, issued)
        <4>1. Knows(sock[y], stored, access, issued) /\ sock[y] \in Sock
          BY <1>1 DEF RefreshInv, SockTypes
        <4>2. sock[y].phase \notin Holding
          BY <1>1 DEF SockTypes, Holding, Refreshing
        <4> QED
          BY <2>1, <2>2, <3>1, <4>1, <4>2, KnowsTheNext
      <3> QED
        BY <3>1, <3>2, <3>3, <3>4
    <2>5. GivesUpForCause
      BY <2>2, OneGivesUp
    <2>6. DownInv'
      BY <1>1 DEF DownInv
    <2> QED
      BY <2>2, <2>3, <2>4, <2>5, <2>6 DEF IInv
  <1>3. CASE (Back(x) \/ Odd(x)) /\ disturbed' = TRUE /\ UNCHANGED stored
    BY <1>1, <1>3, BackKeeps, OddKeeps DEF tokens
  <1> QED
    BY <1>2, <1>3 DEF Store

-----------------------------------------------------------------------------
(* The children and the process                                            *)

LEMMA StartChildKeeps ==
    ASSUME IInv, NEW c \in Chats, StartChild(c)
    PROVE  IInv' /\ GivesUpForCause
  <1>1. process = "up" /\ disturbed \in BOOLEAN /\ c \in Daemons
    BY DEF IInv, DownInv, RestTypes, Daemons, StartChild
  <1> QED
    BY <1>1, BeginKeeps DEF StartChild, Rest

LEMMA ChildEndsKeeps ==
    ASSUME IInv, NEW c \in Chats, ChildEnds(c)
    PROVE  IInv' /\ GivesUpForCause
  <1>1. process = "up" /\ disturbed \in BOOLEAN /\ c \in Daemons
    BY DEF IInv, DownInv, RestTypes, Daemons, ChildEnds
  <1> QED
    BY <1>1, BeginKeeps DEF ChildEnds, Rest

LEMMA CancelKeeps ==
    ASSUME IInv, NEW c \in Chats, Cancel(c)
    PROVE  IInv' /\ GivesUpForCause
  <1>1. process = "up" /\ SockTypes /\ RestTypes /\ c \in Daemons /\ To(c, Off)
        /\ UNCHANGED <<world, issued, access, refresh, stored, process, cli>>
        /\ late' = (IF sock[c].phase = "store" THEN late \cup {sock[c].new} ELSE late)
        /\ disturbed' = (disturbed \/ sock[c].phase \in Refreshing)
    BY DEF IInv, DownInv, Daemons, Cancel
  <1>2. CASE sock[c].phase \notin Refreshing
    <2>1. /\ UNCHANGED <<world, tokens, process, cli>> /\ disturbed' = disturbed
          /\ disturbed \in BOOLEAN
      BY <1>1, <1>2 DEF tokens, Refreshing, RestTypes
    <2> QED
      BY <1>1, <2>1, BeginKeeps
  <1>3. CASE sock[c].phase \in Refreshing
    <2>1. /\ SockTypes' /\ sock'[c] = Off
          /\ \A y \in Daemons \ {c} : sock'[y] = sock[y]
      <3>1. Off.phase \notin Holding /\ Off \in Sock /\ Sound(Off)
        BY OffIs DEF Holding, Refreshing, Sound
      <3> QED
        BY <1>1, <3>1, ToGoes
    <2>2. RestTypes'
      <3>1. sock[c] \in Sock
        BY <1>1 DEF SockTypes
      <3>2. late' \subseteq Pairs
        <4>1. late \subseteq Pairs /\ (sock[c].phase = "store" => sock[c].new \in Pairs)
          BY <1>1 DEF RestTypes, SockTypes, Sound
        <4> QED
          BY <1>1, <4>1
      <3> QED
        BY <1>1, <1>3, <3>2 DEF RestTypes
    <2>3. disturbed' = TRUE
      BY <1>1, <1>3 DEF RestTypes
    <2>4. GivesUpForCause
      BY <1>1, <2>1, OffIs, OneGivesUp
    <2>5. DownInv'
      BY <1>1 DEF DownInv
    <2> QED
      BY <2>1, <2>2, <2>3, <2>4, <2>5 DEF IInv, RefreshInv
  <1> QED
    BY <1>2, <1>3

(* Steps that leave the loops alone give nothing up.                       *)
LEMMA LoopsStay ==
    ASSUME IInv, UNCHANGED <<sock, refresher>>
    PROVE  /\ SockTypes' /\ GivesUpForCause
           /\ process' = process => DownInv'
  <1>1. SockTypes /\ DownInv
    BY DEF IInv
  <1> QED
    BY <1>1 DEF SockTypes, GivesUpForCause, DownInv

LEMMA LateStoreKeeps ==
    ASSUME IInv, NEW n \in Pairs, LateStore(n)
    PROVE  IInv' /\ GivesUpForCause
  <1>1. SockTypes' /\ GivesUpForCause /\ DownInv'
    BY LoopsStay DEF LateStore
  <1>2. RestTypes'
    <2>1. late' \subseteq Pairs /\ stored' \in Pairs \cup {NoPair}
      BY DEF IInv, RestTypes, LateStore
    <2> QED
      BY <2>1 DEF IInv, RestTypes, LateStore
  <1>3. RefreshInv'
    BY DEF IInv, RefreshInv, LateStore
  <1> QED
    BY <1>1, <1>2, <1>3 DEF IInv

(* With the process, every loop ends.                                      *)
LEMMA ExitsKeeps ==
    ASSUME IInv, NEW cause \in Cause, Exits(cause), UNCHANGED <<world, tokens, cli, disturbed>>
    PROVE  IInv' /\ GivesUpForCause
  <1>1. SockTypes' /\ \A x \in Daemons : sock'[x] = Off
    BY ExitsGoes
  <1>2. RestTypes'
    BY DEF IInv, RestTypes, Exits, tokens
  <1>3. RefreshInv'
    <2>1. Off.phase \notin Relying
      BY OffIs DEF Relying, Holding, Refreshing
    <2>2. \A x \in Daemons : Knows(sock'[x], stored, access, issued)
      BY <1>1, <2>1, NothingToKnow
    <2> QED
      BY <2>2 DEF IInv, RefreshInv, tokens, Knows
  <1>4. GivesUpForCause
    BY <1>1, OffIs DEF GivesUpForCause
  <1>5. DownInv'
    BY <1>1, OffIs DEF DownInv
  <1> QED
    BY <1>1, <1>2, <1>3, <1>4, <1>5 DEF IInv

LEMMA PreflightKeeps ==
    ASSUME IInv, Preflight
    PROVE  IInv' /\ GivesUpForCause
  <1>1. UNCHANGED <<world, tokens, cli, disturbed>>
    BY DEF Preflight
  <1>2. CASE /\ process' = "up"
             /\ sock' = [sock EXCEPT ![Control] = Begun]
             /\ UNCHANGED refresher /\ process = "start"
    <2>1. Control \in Daemons
      BY DEF Daemons
    <2>2. SockTypes /\ RestTypes /\ RefreshInv
      BY DEF IInv
    <2>3. /\ sock'[Control] = Begun /\ sock' \in [Daemons -> Sock]
          /\ \A y \in Daemons \ {Control} : sock'[y] = sock[y]
      BY <1>2, <2>1, <2>2, OffIs DEF SockTypes
    <2>4. sock[Control].phase \notin Holding
      BY <1>2, <2>1 DEF IInv, DownInv, Holding, Refreshing
    <2>5. IInv' /\ GivesUpForCause
      <3>1. Begun.phase \notin Holding
            /\ Begun.phase \notin Relying /\ Sound(Begun)
        BY OffIs DEF Relying, Holding, Refreshing, Sound
      <3>2. SockTypes'
        BY <1>2, <2>1, <2>2, <2>3, <2>4, <3>1 DEF SockTypes
      <3>3. RestTypes'
        BY <1>1, <1>2, <2>2 DEF RestTypes, tokens
      <3>4. RefreshInv'
        <4>1. Knows(sock'[Control], stored, access, issued)
          BY <2>3, <3>1, NothingToKnow
        <4> QED
          BY <1>1, <2>2, <2>3, <4>1 DEF RefreshInv, tokens, Knows
      <3>5. GivesUpForCause
        BY <2>1, <2>3, OffIs, OneGivesUp
      <3>6. DownInv'
        BY <1>2 DEF DownInv
      <3> QED
        BY <3>2, <3>3, <3>4, <3>5, <3>6 DEF IInv
    <2> QED
      BY <2>5
  <1>3. CASE \E cause \in Cause : Exits(cause)
    BY <1>1, <1>3, ExitsKeeps
  <1> QED
    BY <1>2, <1>3 DEF Preflight, Cause

LEMMA ExitKeeps ==
    ASSUME IInv, Exit
    PROVE  IInv' /\ GivesUpForCause
  <1>1. Control \in Daemons
    BY DEF Daemons
  <1>2. sock[Control] \in Sock /\ sock[Control].phase = "ended"
        /\ Exits(sock[Control].final) /\ UNCHANGED <<world, tokens, cli, disturbed>>
    BY <1>1 DEF IInv, SockTypes, Exit
  <1>3. sock[Control].final \in {"no", "denied", "odd", "disabled"}
    BY <1>2 DEF Sock
  <1>4. sock[Control].final # "no"
    BY <1>1, <1>2 DEF IInv, SockTypes, Sound
  <1> QED
    BY <1>2, <1>3, <1>4, ExitsKeeps DEF Cause

LEMMA StoppedKeeps ==
    ASSUME IInv, NEW cause \in {"user", "killed"}, Stopped(cause)
    PROVE  IInv' /\ GivesUpForCause
  <1>1. /\ SockTypes /\ RestTypes /\ RefreshInv /\ Exits(cause)
        /\ UNCHANGED <<world, issued, access, refresh, stored, cli>>
        /\ disturbed' = (disturbed \/ \E x \in Daemons : sock[x].phase \in Refreshing)
        /\ late' = (IF cause = "killed" THEN {}
                    ELSE late \cup {sock[x].new : x \in
                                      {y \in Daemons : sock[y].phase = "store"}})
    BY DEF IInv, Stopped
  <1>2. SockTypes' /\ \A x \in Daemons : sock'[x] = Off
    BY <1>1, ExitsGoes
  <1>3. RestTypes'
    <2>1. late' \subseteq Pairs
      BY <1>1 DEF SockTypes, RestTypes, Sound
    <2>2. disturbed' \in BOOLEAN
      BY <1>1
    <2>3. process' \in Cause
      BY <1>1 DEF Exits, Cause
    <2> QED
      BY <1>1, <2>1, <2>2, <2>3 DEF RestTypes
  <1>4. RefreshInv'
    <2>1. Off.phase \notin Relying
      BY OffIs DEF Relying, Holding, Refreshing
    <2>2. \A x \in Daemons : Knows(sock'[x], stored, access, issued)
      BY <1>2, <2>1, NothingToKnow
    <2>3. ASSUME ~disturbed'  PROVE ~disturbed /\ late' = {}
      <3>1. ~disturbed /\ \A x \in Daemons : sock[x].phase # "store"
        BY <1>1, <2>3 DEF Refreshing
      <3>2. late = {}
        BY <1>1, <3>1 DEF RefreshInv
      <3> QED
        BY <1>1, <3>1, <3>2
    <2> QED
      BY <1>1, <2>2, <2>3 DEF RefreshInv, Knows
  <1>5. DownInv'
    BY <1>2, OffIs DEF DownInv
  <1>6. GivesUpForCause
    BY <1>2, OffIs DEF GivesUpForCause
  <1> QED
    BY <1>2, <1>3, <1>4, <1>5, <1>6 DEF IInv

(* Restart and UserStarts.                                                 *)
LEMMA StartsKeep ==
    ASSUME IInv, Restart \/ UserStarts
    PROVE  IInv' /\ GivesUpForCause
  <1>1. /\ UNCHANGED <<world, tokens, refresher, sock, cli, disturbed>>
        /\ process \in Cause /\ process' = "start"
    BY DEF Restart, UserStarts
  <1>2. SockTypes' /\ GivesUpForCause
    BY <1>1, LoopsStay
  <1>3. DownInv'
    BY <1>1 DEF IInv, DownInv, Cause
  <1>4. RestTypes' /\ RefreshInv'
    BY <1>1 DEF IInv, RestTypes, RefreshInv, tokens
  <1> QED
    BY <1>2, <1>3, <1>4 DEF IInv

-----------------------------------------------------------------------------
(* The other processes, the platform, and the world                        *)

LEMMA SignInKeeps ==
    ASSUME IInv, SignIn
    PROVE  IInv' /\ GivesUpForCause
  <1>1. SockTypes' /\ GivesUpForCause /\ DownInv'
    BY LoopsStay DEF SignIn
  <1>2. RestTypes'
    <2>1. issued \in 0..MaxPairs /\ MaxPairs \in Nat /\ issued + 1 < MaxPairs
      BY PairsAreNumbers DEF IInv, RestTypes, SignIn
    <2>2. issued + 1 \in Pairs /\ issued + 1 \in 0..MaxPairs
      BY <2>1 DEF Pairs
    <2> QED
      BY <2>2 DEF IInv, RestTypes, SignIn
  <1>3. RefreshInv'
    BY DEF RefreshInv, SignIn
  <1> QED
    BY <1>1, <1>2, <1>3 DEF IInv

(* While revoke is at work something is disturbed.                         *)
LEMMA RevokeKeeps ==
    ASSUME IInv, RevokeReads \/ RevokePosts \/ RevokeClears \/ RevokeFails
    PROVE  IInv' /\ GivesUpForCause
  <1>1. SockTypes' /\ GivesUpForCause /\ DownInv'
    BY LoopsStay DEF RevokeReads, RevokePosts, RevokeClears, RevokeFails
  <1>2. RestTypes'
    BY DEF IInv, RestTypes, RevokeReads, RevokePosts, RevokeClears, RevokeFails, tokens
  <1>3. RefreshInv'
    BY DEF IInv, RefreshInv, RevokeReads, RevokePosts, RevokeClears, RevokeFails
  <1> QED
    BY <1>1, <1>2, <1>3 DEF IInv

(* Neither the pair in the keychain, where a loop counts on it, nor the    *)
(* one a refresh has just brought expires.                                 *)
LEMMA ExpiresKeeps ==
    ASSUME IInv, NEW p \in Pairs, Expires(p)
    PROVE  IInv' /\ GivesUpForCause
  <1>1. SockTypes' /\ GivesUpForCause /\ DownInv'
    BY LoopsStay DEF Expires
  <1>2. RestTypes'
    BY DEF IInv, RestTypes, Expires
  <1>3. RefreshInv'
    <2> SUFFICES ASSUME ~disturbed, NEW x \in Daemons
                 PROVE  Knows(sock[x], stored, access \ {p}, issued)
      BY DEF IInv, RefreshInv, Expires, Knows
    <2> DEFINE s == sock[x]
    <2>1. /\ Knows(s, stored, access, issued) /\ s \in Sock
          /\ s.phase # "retry" /\ p \in Nat
          /\ s.phase \in {"connect", "wait", "check", "fetch"} \cup Refreshing => p <= s.tok
      BY PairsAreNumbers DEF IInv, RefreshInv, SockTypes, Expires
    <2>2. stored \in Nat
      BY PairsAreNumbers DEF IInv, RestTypes
    <2> HIDE DEF s
    <2>3. s.tok \in Nat /\ s.new \in Nat
      BY <2>1, SocksHoldPairs
    <2>4. Knows(s, stored, access \ {p}, issued)
      BY <2>1, <2>2, <2>3 DEF Knows, Refreshing
    <2> QED
      BY <2>4 DEF s
  <1> QED
    BY <1>1, <1>2, <1>3 DEF IInv

LEMMA RefreshExpiresKeeps ==
    ASSUME IInv, NEW p \in Pairs, RefreshExpires(p)
    PROVE  IInv' /\ GivesUpForCause
  <1>1. SockTypes' /\ GivesUpForCause /\ DownInv'
    BY LoopsStay DEF RefreshExpires
  <1>2. RestTypes' /\ RefreshInv'
    BY DEF IInv, RestTypes, RefreshInv, RefreshExpires
  <1> QED
    BY <1>1, <1>2 DEF IInv

LEMMA ClearsKeeps ==
    ASSUME IInv, Clears
    PROVE  IInv' /\ GivesUpForCause
  <1>1. SockTypes' /\ GivesUpForCause /\ DownInv'
    BY LoopsStay DEF Clears
  <1>2. world' \in World
    <2>1. world \in World
      BY DEF IInv, RestTypes
    <2> QED
      BY <2>1 DEF Clears, World
  <1>3. RestTypes' /\ RefreshInv'
    BY <1>2 DEF IInv, RestTypes, RefreshInv, Clears, tokens
  <1> QED
    BY <1>1, <1>2, <1>3 DEF IInv

-----------------------------------------------------------------------------
(* The invariant, and what it shows                                        *)

LEMMA InitInv == Init => IInv
  <1> SUFFICES ASSUME Init  PROVE IInv
    OBVIOUS
  <1>1. \A x \in Daemons : sock[x] = Off
    BY DEF Init
  <1>2. NoOne \notin Daemons
    BY ConnectionAssumption DEF Daemons
  <1>3. /\ Off \in Sock /\ Off.phase \notin Holding /\ Off.phase \notin Relying
        /\ Sound(Off)
    BY OffIs DEF Relying, Holding, Refreshing, Sound
  <1>4. SockTypes
    BY <1>1, <1>2, <1>3 DEF Init, SockTypes
  <1>5. RestTypes
    <2>1. 1 \in Pairs /\ 1 \in 0..MaxPairs
      BY ConnectionAssumption DEF Pairs
    <2>2. world \in World
      BY DEF Init
    <2> QED
      BY <2>1, <2>2 DEF Init, RestTypes
  <1>6. DownInv
    BY <1>1, OffIs DEF DownInv
  <1>7. RefreshInv
    BY <1>1, <1>3, NothingToKnow DEF Init, RefreshInv, NoPair
  <1> QED
    BY <1>4, <1>5, <1>6, <1>7 DEF IInv

LEMMA NextInv ==
    ASSUME IInv, Next
    PROVE  IInv' /\ GivesUpForCause
  <1>1. ASSUME NEW x \in Daemons, Step(x)
        PROVE  IInv' /\ GivesUpForCause
    BY <1>1, WakeKeeps, ReadTokenKeeps, UpgradeKeeps, HandshakeKeeps, TakeLockKeeps,
       RecheckKeeps, FetchKeeps, RotateKeeps, RefusedKeeps, AnswerKeeps, StoreKeeps
       DEF Step
  <1>2. ASSUME NEW x \in Daemons, Drop(x) \/ CloseForGood(x)
        PROVE  IInv' /\ GivesUpForCause
    BY <1>2, DropKeeps, CloseForGoodKeeps
  <1>3. ASSUME NEW c \in Chats, StartChild(c) \/ ChildEnds(c) \/ Cancel(c)
        PROVE  IInv' /\ GivesUpForCause
    BY <1>3, StartChildKeeps, ChildEndsKeeps, CancelKeeps
  <1>4. ASSUME NEW n \in Pairs, LateStore(n) \/ Expires(n) \/ RefreshExpires(n)
        PROVE  IInv' /\ GivesUpForCause
    BY <1>4, LateStoreKeeps, ExpiresKeeps, RefreshExpiresKeeps
  <1>5. CASE Preflight \/ Exit \/ Stopped("user") \/ Stopped("killed") \/ Restart
             \/ UserStarts
    BY <1>5, PreflightKeeps, ExitKeeps, StoppedKeeps, StartsKeep
  <1>6. CASE SignIn \/ RevokeReads \/ RevokePosts \/ RevokeFails \/ RevokeClears
             \/ Clears
    BY <1>6, SignInKeeps, RevokeKeeps, ClearsKeeps
  <1> QED
    BY <1>1, <1>2, <1>3, <1>4, <1>5, <1>6 DEF Next

LEMMA StutterInv ==
    ASSUME IInv, UNCHANGED vars
    PROVE  IInv' /\ GivesUpForCause
  <1>1. /\ UNCHANGED <<world, issued, access, refresh, stored, late>>
        /\ UNCHANGED <<refresher, sock, process, cli, disturbed>>
    BY DEF vars, tokens
  <1>2. SockTypes' /\ GivesUpForCause /\ DownInv'
    BY <1>1, LoopsStay
  <1>3. RestTypes' /\ RefreshInv'
    BY <1>1 DEF IInv, RestTypes, RefreshInv
  <1> QED
    BY <1>2, <1>3 DEF IInv

(* The inductive invariant holds throughout.                               *)
THEOREM Invariance == Spec => []IInv
  <1>1. IInv /\ [Next]_vars => IInv'
    BY NextInv, StutterInv
  <1> QED
    BY <1>1, InitInv, PTL DEF Spec

(* Values have their types, and whoever is between taking the refresh lock *)
(* and the end of its refresh holds it, alone, wherever it is cancelled:   *)
(* `async with self._token_refresh_lock`.                                  *)
THEOREM TypeCorrect == Spec => []TypeOK
  <1>1. IInv => TypeOK
    BY Types DEF IInv
  <1> QED
    BY <1>1, Invariance, PTL

(* A refresh token is spent only on the access token that was refused, not *)
(* on one another connection has just refreshed: the recheck under the     *)
(* lock.                                                                   *)
THEOREM TheRefusedTokenIsRefreshed == Spec => RefreshesWhatWasRefused
  <1>1. IInv /\ [Next]_vars
        => [\A x \in Daemons : Rotate(x) => sock[x].old = sock[x].tok \/ disturbed]_vars
    BY RotateKeeps
  <1> QED
    BY <1>1, Invariance, PTL DEF Spec, RefreshesWhatWasRefused

(* However many connections are refused at once, a daemon takes a refusal  *)
(* for one (DaemonAuthenticationError) only when its credentials are of no *)
(* use, unless a refresh was cut short or the user signed in or out        *)
(* meanwhile, or the answer was one that no rule covers (Odd).             *)
THEOREM CredentialsAreKept == Spec => SignedOutForCause
  <1>1. IInv /\ [Next]_vars
        => [\A x \in Daemons :
              sock'[x].final = "denied" /\ sock[x].final = "no" =>
                  \/ disturbed \/ world.barred \/ ~world.compatible \/ ~world.keychain
                  \/ stored = NoPair \/ stored \notin refresh]_vars
    BY NextInv, StutterInv DEF GivesUpForCause, Justified
  <1> QED
    BY <1>1, Invariance, PTL DEF Spec, SignedOutForCause

-----------------------------------------------------------------------------
(* Restarts *)

(* Nothing is wrong that passes by itself, and the process has not ended   *)
(* for anything the service manager starts it again after.                 *)
Settled == Calm /\ process \notin {"trouble", "killed", "preflight"}

(* In a calm world (where starting does not fail in a way the code has no  *)
(* class for, and permissions are granted) the service manager starts the  *)
(* process once more at most, and it does not matter what is fair: after   *)
(* that it ends only for what the platform or a setting refuses, or the    *)
(* user, and its exit code keeps either manager from starting it again     *)
(* (_cmd_start, the launchd and systemd templates).                        *)
THEOREM RestartsComeToAnEnd == Spec => NoRestartLoop
  <1>1. IInv /\ Settled /\ [Next]_vars /\ Calm' => Settled'
    <2> SUFFICES ASSUME IInv, Settled, [Next]_vars
                 PROVE  process' \notin {"trouble", "killed", "preflight"}
      BY DEF Settled
    <2>1. CASE Preflight
      BY <2>1 DEF Preflight, Exits, Settled, Calm
    <2>2. CASE Exit
      <3>1. sock[Control].final \in {"no", "denied", "odd", "disabled"}
        BY DEF IInv, SockTypes, Daemons, Sock
      <3> QED
        BY <2>2, <3>1 DEF Exit, Exits
    <2>3. CASE Stopped("user") \/ Stopped("killed")
      BY <2>3 DEF Stopped, Exits, Settled, Calm
    <2>4. CASE Restart \/ UserStarts
      BY <2>4 DEF Restart, UserStarts
    <2>5. CASE process' = process
      BY <2>5 DEF Settled
    <2>6. ASSUME NEW x \in Daemons, Step(x) \/ Drop(x) \/ CloseForGood(x)
          PROVE  process' = process
      BY <2>6 DEF Step, Wake, ReadToken, Upgrade, Handshake, TakeLock, Recheck, Fetch,
                  Rotate, Refused, Answer, Store, Drop, CloseForGood, Rest
    <2>7. ASSUME NEW c \in Chats, StartChild(c) \/ ChildEnds(c) \/ Cancel(c)
          PROVE  process' = process
      BY <2>7 DEF StartChild, ChildEnds, Cancel, Rest
    <2>8. ASSUME NEW n \in Pairs, LateStore(n) \/ Expires(n) \/ RefreshExpires(n)
          PROVE  process' = process
      BY <2>8 DEF LateStore, Expires, RefreshExpires
    <2>9. CASE SignIn \/ RevokeReads \/ RevokePosts \/ RevokeFails \/ RevokeClears \/ Clears
               \/ UNCHANGED vars
      BY <2>5, <2>9 DEF SignIn, RevokeReads, RevokePosts, RevokeFails, RevokeClears,
                        Clears, vars
    <2> QED
      BY <2>1, <2>2, <2>3, <2>4, <2>5, <2>6, <2>7, <2>8, <2>9 DEF Next
  <1>2. Settled => [~Restart]_vars
    <2>1. ASSUME Settled, Restart
          PROVE  FALSE
      <3>1. process \in {"setting", "denied", "odd", "disabled", "user"}
        BY <2>1 DEF Settled, Restart, Cause
      <3>2. \/ world.manager = "launchd" /\ ExitCode(process) = 0
            \/ world.manager # "launchd" /\ ExitCode(process) \in {0, 77, 78}
        BY <3>1 DEF ExitCode
      <3> QED
        BY <2>1, <3>2 DEF Restart, Restarted
    <2> QED
      BY <2>1
  <1>3. Calm' => [~Restart]_vars \/ Settled'
    BY DEF Restart, Settled
  <1> QED
    BY <1>1, <1>2, <1>3, Invariance, PTL DEF Spec, NoRestartLoop

=============================================================================
