------------------------- MODULE ComputerUseProofs -------------------------
(***************************************************************************)
(* What ComputerUse promises, for every number of requests, of drivers and *)
(* of starts a window allows, proved.                                      *)
(*                                                                         *)
(* The inductive invariant has four parts.  TypeOK says who holds the two  *)
(* locks.  The budget holds because the driver the bridge has, or is       *)
(* starting, is the last of those on the list of starts, so that taking    *)
(* the last one off takes off the one that is stopped.  A driver acts for  *)
(* the call that waits for it because it never acts once it has ended, and *)
(* a clipboard's content is known to be private, or to have changed, for   *)
(* as long as a request holds private text.                                *)
(*                                                                         *)
(* The locks are given back by an invariant of their own, WaitInv: who is  *)
(* in which queue, and what whoever a lock's holder waits for has been     *)
(* told.                                                                   *)
(***************************************************************************)
EXTENDS ComputerUse, SequenceTheorems, FiniteSetTheorems, TLAPS

Tasks == Callers \cup Drivers \cup {Closer}

Latest(d) == d \in starts /\ \A e \in starts : e <= d

BudgetInv ==
    /\ \A d \in recent \cup starts \cup ours : proc[d] # "none"
    /\ \A d, e \in Drivers : proc[d] = "none" /\ d < e => proc[e] = "none"
    /\ starts \cap ours = {}
    /\ recent \ ours \subseteq starts
    /\ client # NoDriver => Latest(client)
    /\ \A c \in Callers :
          At(c, "starting") => client = NoDriver /\ Latest(caller[c].driver)
    /\ Cardinality(recent \ ours) <= MaxStarts

ActingInv ==
    /\ ActsForSomeone
    /\ \A d \in Drivers : acting[d] # NoOne => proc[d] \in {"alive", "ending"}

(* The private text a request holds, it has read in its call.              *)
PrivateInv ==
    \A c \in Callers : caller[c].text = "private" =>
        /\ caller[c].tool = "read"
        /\ caller[c].step \in {"call", "stop", "look again"}
        /\ private \/ caller[c].changed
        /\ At(c, "look again") => ~ListsTypes

IInv == TypeOK /\ BudgetInv /\ ActingInv /\ PrivateInv

-----------------------------------------------------------------------------
(* Queues *)

(* Who leaves a queue leaves a queue of the same tasks, with the same head *)
(* if that was another task (asyncio.Lock.release, its waiters).           *)
LEMMA WithoutFacts ==
    ASSUME NEW S, NEW q \in Seq(S), NEW x
    PROVE  /\ Without(q, x) \in Seq(S)
           /\ \A y : y # x /\ Has(q, y) => Has(Without(q, x), y)
  <1> DEFINE at == {i \in DOMAIN q : q[i] = x}
             i  == CHOOSE j \in at : TRUE
             a  == SubSeq(q, 1, i - 1)
             b  == SubSeq(q, i + 1, Len(q))
  <1>1. CASE at = {}
    <2>1. Without(q, x) = q
      BY <1>1 DEF Without
    <2> QED
      BY <2>1
  <1>2. CASE at # {}
    <2>1. i \in at /\ i \in 1..Len(q) /\ q[i] = x
      BY <1>2
    <2>2. Without(q, x) = a \o b
      BY <1>2 DEF Without
    <2> HIDE DEF i
    <2>3. a \in Seq(S) /\ Len(a) = i - 1 /\ (i # 1 => a[1] = q[1])
      BY <2>1
    <2>4. b \in Seq(S)
      BY <2>1
    <2> HIDE DEF a, b
    <2>5. a \o b \in Seq(S)
      BY <2>3, <2>4
    <2>6. ASSUME NEW y, y # x, Has(q, y)
          PROVE  Has(a \o b, y)
      <3>1. q # <<>> /\ q[1] = y
        BY <2>6 DEF Has
      <3>2. i # 1
        BY <2>1, <2>6, <3>1
      <3>3. Len(a) >= 1 /\ a[1] = y
        BY <2>1, <2>3, <3>1, <3>2
      <3>4. a \o b # <<>> /\ (a \o b)[1] = a[1]
        BY <2>3, <2>4, <3>3
      <3> QED
        BY <3>3, <3>4, <2>5 DEF Has
    <2> QED
      BY <2>2, <2>5, <2>6
  <1> QED
    BY <1>1, <1>2

(* Who joins a queue does not pass the one that has the lock.              *)
LEMMA AppendFacts ==
    ASSUME NEW S, NEW q \in Seq(S), NEW x \in S
    PROVE  /\ Append(q, x) \in Seq(S)
           /\ \A y : Has(q, y) => Has(Append(q, x), y)
  <1>1. ASSUME NEW y, Has(q, y)
        PROVE  Has(Append(q, x), y)
    <2>1. q # <<>> /\ q[1] = y
      BY <1>1 DEF Has
    <2>2. Append(q, x) # <<>> /\ Append(q, x)[1] = q[1]
      BY <2>1
    <2> QED
      BY <2>1, <2>2 DEF Has
  <1> QED
    BY <1>1

-----------------------------------------------------------------------------
(* One request's step *)

(* What holds of the other requests and tasks after a step of c.           *)
Moved(c) ==
    /\ caller' \in [Callers -> Caller]
    /\ turns' \in Seq(Callers) /\ queue' \in Seq(Tasks)
    /\ \A x \in Callers \ {c} : caller'[x] = caller[x]
    /\ \A x \in Callers \ {c} : Has(turns, x) => Has(turns', x)
    /\ \A x \in Tasks \ {c} : Has(queue, x) => Has(queue', x)

Holds(c) ==
    /\ caller[c].step \in {"replacing", "starting", "undoing"} => Has(queue, c)
    /\ caller[c].step \in {"ensure", "call", "stop"} => Has(turns, c)
    /\ caller[c].step = "call" => caller[c].driver # NoDriver

LEMMA DriversAreSome == NoDriver \notin Drivers
  BY ComputerUseAssumption DEF NoDriver, Drivers

LEMMA IdleIsCaller == Idle \in Caller
  BY DEF Idle, Caller, Step, NoDriver

(* A request that is answered has let go of both locks.                    *)
LEMMA EndsMoves ==
    ASSUME TypeOK, NEW c \in Callers, Ends(c)
    PROVE  Moved(c) /\ caller'[c] = Idle
  <1>1. caller \in [Callers -> Caller] /\ turns \in Seq(Callers) /\ queue \in Seq(Tasks)
    BY DEF TypeOK, Tasks
  <1>2. /\ caller' \in [Callers -> Caller] /\ caller'[c] = Idle
        /\ \A x \in Callers \ {c} : caller'[x] = caller[x]
    BY <1>1, IdleIsCaller DEF Ends
  <1>3. /\ turns' \in Seq(Callers)
        /\ \A x \in Callers \ {c} : Has(turns, x) => Has(turns', x)
    BY <1>1, WithoutFacts DEF Ends
  <1>4. /\ queue' \in Seq(Tasks)
        /\ \A x \in Tasks \ {c} : Has(queue, x) => Has(queue', x)
    BY <1>1, WithoutFacts DEF Ends
  <1> QED
    BY <1>2, <1>3, <1>4 DEF Moved

(* A request whose record becomes r.                                       *)
LEMMA Becomes ==
    ASSUME TypeOK, NEW c \in Callers, NEW r \in Caller,
           caller' = [caller EXCEPT ![c] = r]
    PROVE  /\ caller' \in [Callers -> Caller] /\ caller'[c] = r
           /\ \A x \in Callers \ {c} : caller'[x] = caller[x]
  BY DEF TypeOK

(* A request that goes on to another step keeps all else.                  *)
LEMMA GoesOn ==
    ASSUME TypeOK, NEW c \in Callers, NEW step \in Step, Goes(c, step)
    PROVE  /\ caller' \in [Callers -> Caller]
           /\ \A x \in Callers \ {c} : caller'[x] = caller[x]
           /\ caller'[c].step = step
           /\ caller'[c].tool = caller[c].tool
           /\ caller'[c].driver = caller[c].driver
           /\ caller'[c].changed = caller[c].changed
           /\ caller'[c].text = caller[c].text
  <1> DEFINE r == [caller[c] EXCEPT !.step = step]
  <1>1. caller[c] \in Caller
    BY DEF TypeOK
  <1>2. /\ r \in Caller /\ r.step = step /\ r.tool = caller[c].tool
        /\ r.driver = caller[c].driver /\ r.changed = caller[c].changed
        /\ r.text = caller[c].text
    BY <1>1 DEF Caller
  <1>3. caller' = [caller EXCEPT ![c] = r]
    BY DEF Goes
  <1> HIDE DEF r
  <1> QED
    BY <1>2, <1>3, Becomes

(* TypeOK after a step of c, from what c itself holds.                     *)
LEMMA MovedTypes ==
    ASSUME TypeOK, NEW c \in Callers, Moved(c), Holds(c)', close' = close,
           proc' \in [Drivers -> {"none", "alive", "ending", "dead"}],
           acting' \in [Drivers -> Callers \cup {NoOne}],
           stop' \in [Drivers -> {"no", "waiting", "closing"}],
           client' \in Drivers \cup {NoDriver},
           starts' \subseteq Drivers, recent' \subseteq Drivers,
           ours' \subseteq Drivers, private' = private
    PROVE  TypeOK'
  <1>1. Callers \cap Drivers = {} /\ Closer \notin Callers \cup Drivers
    BY ComputerUseAssumption
  <1>2. ASSUME NEW x \in Callers
        PROVE  Holds(x)'
    <2>1. CASE x = c
      BY <2>1
    <2>2. CASE x # c
      <3>1. caller'[x] = caller[x] /\ (Has(turns, x) => Has(turns', x))
              /\ (Has(queue, x) => Has(queue', x))
        BY <2>2 DEF Moved, Tasks
      <3>2. Holds(x)
        BY DEF TypeOK, Holds
      <3> QED
        BY <3>1, <3>2 DEF Holds
    <2> QED
      BY <2>1, <2>2
  <1>3. close' = "closing" => Has(queue', Closer)
    BY <1>1 DEF TypeOK, Moved, Tasks
  <1> QED
    BY <1>2, <1>3 DEF TypeOK, Moved, Holds, Tasks

-----------------------------------------------------------------------------
(* What a step of c leaves of each part of the invariant                   *)

(* The actor of a call goes on with it, or the driver is stopped.          *)
LEMMA ActingKept ==
    ASSUME TypeOK, ActingInv, NEW c \in Callers, Moved(c), ~At(c, "call"),
           acting' = acting, stop' = stop,
           \A d \in Drivers : acting[d] # NoOne =>
              proc'[d] = proc[d] \/ proc'[d] = "ending"
    PROVE  ActingInv'
  <1>1. ASSUME NEW d \in Drivers, acting'[d] # NoOne
        PROVE  /\ \/ At(acting[d], "call")' /\ caller'[acting[d]].driver = d
                  \/ stop'[d] # "no"
                  \/ proc'[d] = "ending"
               /\ proc'[d] \in {"alive", "ending"}
    <2>1. acting[d] \in Callers
      BY <1>1 DEF TypeOK
    <2>2. CASE At(acting[d], "call") /\ caller[acting[d]].driver = d
      <3>1. acting[d] # c
        BY <2>2
      <3>2. caller'[acting[d]] = caller[acting[d]]
        BY <2>1, <3>1 DEF Moved
      <3> QED
        BY <1>1, <2>2, <3>2 DEF At, ActingInv
    <2> QED
      BY <1>1, <2>2 DEF ActingInv, ActsForSomeone
  <1> QED
    BY <1>1 DEF ActingInv, ActsForSomeone

(* A step that starts and stops no driver leaves the budget as it is.      *)
LEMMA BudgetKept ==
    ASSUME TypeOK, BudgetInv, NEW c \in Callers, Moved(c), UNCHANGED bridge,
           \A d \in Drivers : proc'[d] = "none" <=> proc[d] = "none",
           At(c, "starting")' =>
               At(c, "starting") /\ caller'[c].driver = caller[c].driver
    PROVE  BudgetInv'
  <1>1. UNCHANGED <<client, starts, recent, ours>>
    BY DEF bridge
  <1>2. ASSUME NEW x \in Callers, At(x, "starting")'
        PROVE  At(x, "starting") /\ caller'[x].driver = caller[x].driver
    BY <1>2 DEF Moved, At
  <1>3. \A d : Latest(d)' <=> Latest(d)
    BY <1>1 DEF Latest
  <1>4. \A x \in Callers : At(x, "starting")' =>
            client' = NoDriver /\ Latest(caller[x].driver)'
    BY <1>1, <1>2 DEF BudgetInv, Latest
  <1>6. recent \cup starts \cup ours \subseteq Drivers
    BY DEF TypeOK
  <1>7. /\ \A d \in recent' \cup starts' \cup ours' : proc'[d] # "none"
        /\ \A d, e \in Drivers : proc'[d] = "none" /\ d < e => proc'[e] = "none"
    BY <1>1, <1>6 DEF BudgetInv
  <1>8. /\ starts' \cap ours' = {} /\ recent' \ ours' \subseteq starts'
        /\ Cardinality(recent' \ ours') <= MaxStarts
    BY <1>1 DEF BudgetInv
  <1>9. client' # NoDriver => Latest(client)'
    BY <1>1 DEF BudgetInv, Latest
  <1> QED
    BY <1>4, <1>7, <1>8, <1>9 DEF BudgetInv

(* A step of c after which it holds no private text.                       *)
LEMMA PrivateKept ==
    ASSUME PrivateInv, NEW c \in Callers, Moved(c), private' = private,
           caller'[c].text # "private"
    PROVE  PrivateInv'
  <1>1. \A x \in Callers : caller'[x].text = "private" => caller'[x] = caller[x]
    BY DEF Moved
  <1> QED
    BY <1>1 DEF PrivateInv, At

(* A step of c that is not in a call, and does not touch a driver.         *)
LEMMA QuietKeeps ==
    ASSUME IInv, NEW c \in Callers, Moved(c), Holds(c)',
           UNCHANGED <<proc, acting, stop, bridge, close, private>>,
           ~At(c, "call"), ~At(c, "starting")', caller'[c].text # "private"
    PROVE  IInv'
  <1>1. TypeOK'
    <2>1. /\ proc' \in [Drivers -> {"none", "alive", "ending", "dead"}]
          /\ acting' \in [Drivers -> Callers \cup {NoOne}]
          /\ stop' \in [Drivers -> {"no", "waiting", "closing"}]
          /\ client' \in Drivers \cup {NoDriver}
          /\ starts' \subseteq Drivers /\ recent' \subseteq Drivers
          /\ ours' \subseteq Drivers /\ private' = private /\ close' = close
      BY DEF IInv, TypeOK, bridge
    <2> QED
      BY <2>1, MovedTypes DEF IInv
  <1>2. BudgetInv'
    BY BudgetKept DEF IInv
  <1>3. ActingInv'
    BY ActingKept DEF IInv
  <1>4. PrivateInv'
    BY PrivateKept DEF IInv
  <1> QED
    BY <1>1, <1>2, <1>3, <1>4 DEF IInv

(* A request that is not in a call and gives up.                           *)
LEMMA EndsKeeps ==
    ASSUME IInv, NEW c \in Callers, Ends(c), ~At(c, "call"),
           UNCHANGED <<proc, acting, stop, bridge, close, private>>
    PROVE  IInv'
  <1>1. Moved(c) /\ caller'[c] = Idle
    BY EndsMoves DEF IInv
  <1>2. Holds(c)' /\ ~At(c, "starting")' /\ caller'[c].text # "private"
    BY <1>1 DEF Holds, Idle, At
  <1> QED
    BY <1>1, <1>2, QuietKeeps

-----------------------------------------------------------------------------
(* The steps of a request *)

LEMMA RequestKeeps ==
    ASSUME IInv, NEW c \in Callers, NEW tool \in {"list", "act", "read"},
           Request(c, tool)
    PROVE  IInv'
  <1> DEFINE r == [Idle EXCEPT !.step = "snapshot", !.tool = tool]
  <1>1. r \in Caller /\ r.step = "snapshot" /\ r.text = "none"
    BY DEF Idle, Caller, Step, NoDriver
  <1>2. caller' = [caller EXCEPT ![c] = r] /\ turns' = turns /\ At(c, "idle")
          /\ queue' = Append(queue, c)
      BY DEF Request
  <1> HIDE DEF r
  <1>3. Moved(c) /\ caller'[c] = r
    <2>1. turns \in Seq(Callers) /\ queue \in Seq(Tasks) /\ c \in Tasks
      BY DEF TypeOK, IInv, Tasks
    <2>2. /\ caller' \in [Callers -> Caller] /\ caller'[c] = r
          /\ \A x \in Callers \ {c} : caller'[x] = caller[x]
      BY <1>1, <1>2, Becomes DEF IInv
    <2>3. /\ queue' \in Seq(Tasks)
          /\ \A x \in Tasks \ {c} : Has(queue, x) => Has(queue', x)
      BY <1>2, <2>1, AppendFacts
    <2> QED
      BY <1>2, <2>1, <2>2, <2>3 DEF Moved
  <1>4. Holds(c)' /\ ~At(c, "starting")' /\ caller'[c].text # "private" /\ ~At(c, "call")
    BY <1>1, <1>2, <1>3 DEF Holds, At
  <1> QED
    BY <1>3, <1>4, QuietKeeps DEF Request

LEMMA FirstLookKeeps ==
    ASSUME IInv, NEW c \in Callers, FirstLook(c)
    PROVE  IInv'
  <1>1. ~At(c, "call") /\ caller[c].step = "look" /\ caller[c].text # "private"
    BY DEF FirstLook, At, IInv, PrivateInv
  <1>2. CASE private
    BY <1>1, <1>2, EndsKeeps DEF FirstLook
  <1>3. CASE ~private
    <2> DEFINE r == [caller[c] EXCEPT !.step = "turn", !.changed = FALSE]
    <2>1. caller[c] \in Caller
      BY DEF IInv, TypeOK
    <2>2. r \in Caller /\ r.step = "turn" /\ r.text = caller[c].text
      BY <2>1 DEF Caller, Step
    <2>3. caller' = [caller EXCEPT ![c] = r] /\ turns' = Append(turns, c)
            /\ queue' = queue
      BY <1>3 DEF FirstLook
    <2> HIDE DEF r
    <2>4. Moved(c) /\ caller'[c] = r
      BY <2>2, <2>3, Becomes, AppendFacts DEF Moved, TypeOK, IInv, Tasks
    <2>5. Holds(c)' /\ ~At(c, "starting")' /\ caller'[c].text # "private"
      BY <1>1, <2>2, <2>4 DEF Holds, At
    <2> QED
      BY <1>1, <2>4, <2>5, QuietKeeps DEF FirstLook
  <1> QED
    BY <1>2, <1>3

LEMMA TakeTurnKeeps ==
    ASSUME IInv, NEW c \in Callers, TakeTurn(c)
    PROVE  IInv'
  <1>1. ~At(c, "call") /\ caller[c].text # "private" /\ Has(turns, c)
    BY DEF TakeTurn, At, IInv, PrivateInv
  <1>2. Moved(c) /\ caller'[c].step = "ensure" /\ caller'[c].text = caller[c].text
    <2>1. /\ caller' \in [Callers -> Caller] /\ caller'[c].step = "ensure"
          /\ \A x \in Callers \ {c} : caller'[x] = caller[x]
          /\ caller'[c].text = caller[c].text
      BY GoesOn DEF TakeTurn, IInv, Step
    <2> QED
      BY SMTT(20), <2>1, AppendFacts DEF TakeTurn, Moved, TypeOK, IInv, Tasks
  <1>3. Holds(c)' /\ ~At(c, "starting")' /\ caller'[c].text # "private"
    BY <1>1, <1>2 DEF Holds, At, TakeTurn
  <1> QED
    BY <1>1, <1>2, <1>3, QuietKeeps DEF TakeTurn

LEMMA ReplacedKeeps ==
    ASSUME IInv, NEW c \in Callers, Replaced(c)
    PROVE  IInv'
  <1>1. ~At(c, "call") /\ caller[c].text # "private"
    BY DEF Replaced, At, IInv, PrivateInv
  <1> DEFINE s == IF Has(turns, c) THEN "ensure" ELSE "snapshot"
             r == [caller[c] EXCEPT !.driver = NoDriver, !.step = s]
  <1>2. caller[c] \in Caller /\ s \in {"ensure", "snapshot"}
    BY DEF IInv, TypeOK
  <1>3. (s = "ensure" => Has(turns, c)) /\ caller' = [caller EXCEPT ![c] = r]
    BY DEF Replaced
  <1> HIDE DEF s
  <1>4. r \in Caller /\ r.step = s /\ r.text = caller[c].text
    BY <1>2 DEF Caller, Step, NoDriver
  <1> HIDE DEF r
  <1>5. UNCHANGED locks
    BY DEF Replaced
  <1>6. Moved(c) /\ caller'[c] = r
    BY <1>3, <1>4, <1>5, Becomes DEF Moved, TypeOK, IInv, Tasks, locks
  <1>7. Holds(c)' /\ ~At(c, "starting")' /\ caller'[c].text # "private"
    BY <1>1, <1>2, <1>3, <1>4, <1>5, <1>6 DEF Holds, At, locks
  <1> QED
    BY <1>1, <1>6, <1>7, QuietKeeps DEF Replaced

LEMMA SecondLookKeeps ==
    ASSUME IInv, NEW c \in Callers, SecondLook(c)
    PROVE  IInv'
  <1> DEFINE u == IF Unchanged(c) THEN caller[c].text ELSE "none"
             r == [Idle EXCEPT !.text = u]
  <1>1. caller[c] \in Caller /\ At(c, "look again") /\ UNCHANGED locks
    BY DEF IInv, TypeOK, SecondLook
  <1>2. u # "private" /\ u \in {"none", "plain", "private"}
    BY <1>1, ComputerUseAssumption DEF IInv, PrivateInv, Unchanged, Caller
  <1>3. caller' = [caller EXCEPT ![c] = r]
    BY DEF SecondLook
  <1> HIDE DEF u
  <1>4. r \in Caller /\ r.step = "idle" /\ r.text = u
    BY <1>2 DEF Idle, Caller, Step, NoDriver
  <1> HIDE DEF r
  <1>5. Moved(c) /\ caller'[c] = r
    BY <1>1, <1>3, <1>4, Becomes DEF Moved, TypeOK, IInv, Tasks, locks
  <1>6. Holds(c)' /\ ~At(c, "starting")' /\ caller'[c].text # "private" /\ ~At(c, "call")
    BY <1>1, <1>2, <1>4, <1>5 DEF Holds, At
  <1> QED
    BY <1>5, <1>6, QuietKeeps DEF SecondLook

LEMMA GiveUpKeeps ==
    ASSUME IInv, NEW c \in Callers, TurnTimesOut(c) \/ Undone(c) \/ Stopped(c)
    PROVE  IInv'
  <1>1. ~At(c, "call") /\ Ends(c)
    BY DEF TurnTimesOut, Undone, Stopped, At
  <1> QED
    BY <1>1, EndsKeeps DEF TurnTimesOut, Undone, Stopped

(* The driver of the call has ended, or is ending.                         *)
LEMMA CallFailsKeeps ==
    ASSUME IInv, NEW c \in Callers, CallFails(c)
    PROVE  IInv'
  <1>1. UNCHANGED <<proc, acting, stop, bridge, close, private>>
    BY DEF CallFails
  <1>2. Moved(c) /\ caller'[c] = Idle
    BY EndsMoves DEF IInv, CallFails
  <1>3. Holds(c)' /\ ~At(c, "starting")' /\ caller'[c].text # "private"
    BY <1>2 DEF Holds, Idle, At
  <1>4. TypeOK'
    BY <1>1, <1>2, <1>3, MovedTypes DEF IInv, TypeOK, bridge
  <1>5. BudgetInv'
    BY <1>1, <1>2, <1>3, BudgetKept DEF IInv
  <1>6. ActingInv'
    <2>1. ASSUME NEW d \in Drivers, acting'[d] # NoOne
          PROVE  /\ \/ At(acting[d], "call")' /\ caller'[acting[d]].driver = d
                    \/ stop'[d] # "no"
                    \/ proc'[d] = "ending"
                 /\ proc'[d] \in {"alive", "ending"}
      <3>1. acting[d] \in Callers /\ proc[d] \in {"alive", "ending"}
        BY <1>1, <2>1 DEF IInv, TypeOK, ActingInv
      <3>2. CASE acting[d] = c /\ caller[c].driver = d
        <4>1. proc[d] = "ending"
          BY <3>1, <3>2 DEF CallFails, Alive
        <4> QED
          BY <1>1, <4>1
      <3>3. CASE acting[d] # c
        <4>1. caller'[acting[d]] = caller[acting[d]]
          BY <3>1, <3>3, <1>2 DEF Moved
        <4> QED
          BY <1>1, <2>1, <3>1, <4>1 DEF At, IInv, ActingInv, ActsForSomeone
      <3> QED
        BY <1>1, <2>1, <3>1, <3>2, <3>3 DEF IInv, ActingInv, ActsForSomeone
    <2> QED
      BY <1>1, <2>1 DEF ActingInv, ActsForSomeone
  <1>7. PrivateInv'
    BY <1>1, <1>2, <1>3, PrivateKept DEF IInv
  <1> QED
    BY <1>4, <1>5, <1>6, <1>7 DEF IInv

(* Nothing is taken off the list of starts that is in the window.          *)
LEMMA RefusedKeeps ==
    ASSUME IInv, NEW c \in Callers, Refused(c)
    PROVE  IInv'
  <1>1. /\ UNCHANGED <<proc, acting, stop, client, recent, ours, close, private>>
        /\ ~At(c, "call") /\ Has(queue, c) /\ Ends(c)
        /\ starts' = starts \/ (starts' = starts \cap recent /\ client = NoDriver)
    BY DEF Refused, Ensuring, At, Counted
  <1>2. Moved(c) /\ caller'[c] = Idle
    BY <1>1, EndsMoves DEF IInv
  <1>3. Holds(c)' /\ ~At(c, "starting")' /\ caller'[c].text # "private"
    BY <1>2 DEF Holds, Idle, At
  <1>4. TypeOK'
    <2>1. starts' \subseteq Drivers
      BY <1>1 DEF IInv, TypeOK
    <2> QED
      BY <1>1, <1>2, <1>3, <2>1, MovedTypes DEF IInv, TypeOK
  <1>5. BudgetInv'
    <2>1. CASE starts' = starts
      BY <1>1, <1>2, <1>3, <2>1, BudgetKept DEF IInv, bridge
    <2>2. CASE starts' = starts \cap recent /\ client = NoDriver
      <3>1. ASSUME NEW x \in Callers, At(x, "starting")'
            PROVE  FALSE
        <4>1. x # c /\ At(x, "starting")
          BY <3>1, <1>2, <1>3 DEF Moved, At
        <4>2. Has(queue, x)
          BY <4>1 DEF IInv, TypeOK, At
        <4> QED
          BY <1>1, <4>1, <4>2 DEF Has
      <3>2. /\ \A d \in recent' \cup starts' \cup ours' : proc'[d] # "none"
            /\ \A d, e \in Drivers : proc'[d] = "none" /\ d < e => proc'[e] = "none"
        BY <1>1, <2>2 DEF IInv, BudgetInv
      <3>3. /\ starts' \cap ours' = {} /\ recent' \ ours' \subseteq starts'
            /\ Cardinality(recent' \ ours') <= MaxStarts
        BY <1>1, <2>2 DEF IInv, BudgetInv
      <3>4. client' = NoDriver
        BY <1>1, <2>2
      <3> QED
        BY <3>1, <3>2, <3>3, <3>4 DEF BudgetInv
    <2> QED
      BY <1>1, <2>1, <2>2
  <1>6. ActingInv'
    BY <1>1, <1>2, ActingKept DEF IInv
  <1>7. PrivateInv'
    BY <1>1, <1>2, <1>3, PrivateKept DEF IInv
  <1> QED
    BY <1>4, <1>5, <1>6, <1>7 DEF IInv

-----------------------------------------------------------------------------
(* Drivers that are found, replaced and started *)

(* The request gets driver d, which runs: it is answered, or calls it when *)
(* it has its turn, or looks at the clipboard or waits for its turn first. *)
LEMMA EnsuredMoves ==
    ASSUME TypeOK, NEW c \in Callers, NEW d \in Drivers, Ensured(c, d)
    PROVE  /\ Moved(c) /\ Holds(c)'
           /\ caller'[c].step \in {"call", "idle", "look", "turn"}
           /\ caller'[c].text \in {"none", caller[c].text}
           /\ \/ acting' = acting
              \/ /\ acting' = [acting EXCEPT ![d] = c]
                 /\ caller'[c].step = "call" /\ caller'[c].driver = d
  <1>1. caller[c] \in Caller /\ turns \in Seq(Callers) /\ queue \in Seq(Tasks)
    BY DEF TypeOK, Tasks
  <1>2. CASE Has(turns, c)
    <2> DEFINE r == [caller[c] EXCEPT !.step = "call", !.driver = d]
    <2>1. r \in Caller /\ r.step = "call" /\ r.driver = d /\ r.text = caller[c].text
      BY <1>1 DEF Caller, Step
    <2>2. /\ caller' = [caller EXCEPT ![c] = r]
          /\ acting' = [acting EXCEPT ![d] = c]
          /\ queue' = Without(queue, c) /\ turns' = turns
      BY <1>2 DEF Ensured
    <2> HIDE DEF r
    <2>3. Moved(c) /\ caller'[c] = r
      BY <1>1, <2>1, <2>2, Becomes, WithoutFacts DEF Moved
    <2> QED
      BY <1>2, <2>1, <2>2, <2>3, DriversAreSome DEF Holds
  <1>3. CASE ~Has(turns, c)
    <2>1. acting' = acting
      BY <1>3 DEF Ensured
    <2>2. CASE Ends(c)
      <3>1. Moved(c) /\ caller'[c] = Idle
        BY <2>2, EndsMoves
      <3> QED
        BY <2>1, <3>1 DEF Holds, Idle
    <2>3. CASE Goes(c, "look") /\ queue' = Without(queue, c) /\ UNCHANGED turns
      <3>1. /\ Moved(c) /\ caller'[c].step = "look"
            /\ caller'[c].text = caller[c].text
        BY <1>1, <2>3, GoesOn, WithoutFacts DEF Moved, Step
      <3> QED
        BY <2>1, <3>1 DEF Holds
    <2>4. CASE /\ Goes(c, "turn") /\ queue' = Without(queue, c)
               /\ turns' = Append(turns, c)
      <3>1. /\ Moved(c) /\ caller'[c].step = "turn"
            /\ caller'[c].text = caller[c].text
        BY <1>1, <2>4, GoesOn, WithoutFacts, AppendFacts DEF Moved, Step
      <3> QED
        BY <2>1, <3>1 DEF Holds
    <2> QED
      BY <1>3, <2>2, <2>3, <2>4 DEF Ensured
  <1> QED
    BY <1>2, <1>3

(* Whoever gets a driver is who it acts for.                               *)
LEMMA EnsuredActing ==
    ASSUME TypeOK, ActingInv, NEW c \in Callers, NEW d \in Drivers,
           Ensured(c, d), Alive(d), ~At(c, "call"), proc' = proc, stop' = stop
    PROVE  ActingInv'
  <1>1. Moved(c)
    BY EnsuredMoves
  <1>2. CASE acting' = acting
    BY <1>1, <1>2, ActingKept
  <1>3. CASE acting' = [acting EXCEPT ![d] = c] /\ caller'[c].step = "call"
               /\ caller'[c].driver = d
    <2>1. ASSUME NEW e \in Drivers, acting'[e] # NoOne
          PROVE  /\ \/ At(acting[e], "call")' /\ caller'[acting'[e]].driver = e
                    \/ stop'[e] # "no"
                    \/ proc'[e] = "ending"
                 /\ proc'[e] \in {"alive", "ending"}
      <3>1. CASE e = d
        <4>1. acting'[e] = c
          BY <1>3, <3>1 DEF TypeOK
        <4> QED
          BY <1>3, <3>1, <4>1 DEF Alive, At
      <3>2. CASE e # d
        <4>1. acting'[e] = acting[e] /\ acting[e] \in Callers
          BY <1>3, <2>1, <3>2 DEF TypeOK
        <4>2. acting[e] # c => caller'[acting[e]] = caller[acting[e]]
          BY <1>1, <4>1 DEF Moved
        <4> QED
          BY <2>1, <4>1, <4>2 DEF At, ActingInv, ActsForSomeone
      <3> QED
        BY <3>1, <3>2
    <2> QED
      BY <2>1 DEF ActingInv, ActsForSomeone
  <1> QED
    BY <1>2, <1>3, EnsuredMoves

LEMMA FoundKeeps ==
    ASSUME IInv, NEW c \in Callers, Found(c)
    PROVE  IInv'
  <1>1. /\ ~At(c, "call") /\ caller[c].text # "private"
        /\ client \in Drivers /\ Alive(client) /\ Ensured(c, client)
        /\ UNCHANGED <<proc, stop, bridge, close, private>>
    BY DEF Found, Ensuring, At, IInv, PrivateInv, TypeOK
  <1> DEFINE d == client
  <1>2. d \in Drivers /\ Alive(d) /\ Ensured(c, d)
    BY <1>1
  <1> HIDE DEF d
  <1>3. /\ Moved(c) /\ Holds(c)' /\ caller'[c].text # "private"
        /\ ~At(c, "starting")'
        /\ acting' = acting \/ acting' = [acting EXCEPT ![d] = c]
    BY <1>1, <1>2, EnsuredMoves DEF IInv, At
  <1>4. TypeOK'
    <2>1. /\ proc' \in [Drivers -> {"none", "alive", "ending", "dead"}]
          /\ acting' \in [Drivers -> Callers \cup {NoOne}]
          /\ stop' \in [Drivers -> {"no", "waiting", "closing"}]
          /\ client' \in Drivers \cup {NoDriver}
          /\ starts' \subseteq Drivers /\ recent' \subseteq Drivers
          /\ ours' \subseteq Drivers /\ private' = private /\ close' = close
      BY <1>1, <1>2, <1>3 DEF IInv, TypeOK, bridge
    <2> QED
      BY <1>3, <2>1, MovedTypes DEF IInv
  <1>5. BudgetInv'
    BY <1>1, <1>3, BudgetKept DEF IInv
  <1>6. ActingInv'
    BY <1>1, <1>2, EnsuredActing DEF IInv
  <1>7. PrivateInv'
    BY <1>1, <1>3, PrivateKept DEF IInv
  <1> QED
    BY <1>4, <1>5, <1>6, <1>7 DEF IInv

(* The driver that is started is the latest on the list, and becomes the   *)
(* bridge's.                                                               *)
LEMMA StartedKeeps ==
    ASSUME IInv, NEW c \in Callers, Started(c)
    PROVE  IInv'
  <1>1. /\ ~At(c, "call") /\ caller[c].text # "private" /\ At(c, "starting")
        /\ Has(queue, c)
        /\ UNCHANGED <<proc, stop, starts, recent, ours, close, private>>
    BY DEF Started, At, IInv, PrivateInv, TypeOK
  <1> DEFINE d == caller[c].driver
  <1>2. Latest(d) /\ Alive(d) /\ Ensured(c, d) /\ client' = d
    BY <1>1 DEF Started, IInv, BudgetInv
  <1> HIDE DEF d
  <1>3. d \in Drivers
    BY <1>2 DEF Latest, IInv, TypeOK
  <1>4. /\ Moved(c) /\ Holds(c)' /\ caller'[c].text # "private"
        /\ ~At(c, "starting")'
        /\ acting' = acting \/ acting' = [acting EXCEPT ![d] = c]
    BY <1>1, <1>2, <1>3, EnsuredMoves DEF IInv, At
  <1>5. TypeOK'
    <2>1. /\ proc' \in [Drivers -> {"none", "alive", "ending", "dead"}]
          /\ acting' \in [Drivers -> Callers \cup {NoOne}]
          /\ stop' \in [Drivers -> {"no", "waiting", "closing"}]
          /\ client' \in Drivers \cup {NoDriver}
          /\ starts' \subseteq Drivers /\ recent' \subseteq Drivers
          /\ ours' \subseteq Drivers /\ private' = private /\ close' = close
      BY <1>1, <1>2, <1>3, <1>4 DEF IInv, TypeOK
    <2> QED
      BY <1>4, <2>1, MovedTypes DEF IInv
  <1>6. BudgetInv'
    <2>1. ASSUME NEW x \in Callers, At(x, "starting")'
          PROVE  FALSE
      <3>1. x # c /\ At(x, "starting")
        BY <1>4, <2>1 DEF Moved, At
      <3>2. Has(queue, x)
        BY <3>1 DEF IInv, TypeOK, At
      <3> QED
        BY <1>1, <3>1, <3>2 DEF Has
    <2>2. Latest(client)'
      BY <1>1, <1>2 DEF Latest
    <2> QED
      BY <1>1, <2>1, <2>2 DEF IInv, BudgetInv
  <1>7. ActingInv'
    BY <1>1, <1>2, <1>3, EnsuredActing DEF IInv
  <1>8. PrivateInv'
    BY <1>1, <1>4, PrivateKept DEF IInv
  <1> QED
    BY <1>5, <1>6, <1>7, <1>8 DEF IInv

LEMMA ReplacesKeeps ==
    ASSUME IInv, NEW c \in Callers, Replaces(c)
    PROVE  IInv'
  <1>1. /\ ~At(c, "call") /\ caller[c].text # "private" /\ Has(queue, c)
        /\ client \in Drivers /\ client' = NoDriver
        /\ UNCHANGED <<locks, proc, acting, stop, starts, recent, ours, close, private>>
    BY DEF Replaces, Ensuring, At, IInv, PrivateInv, TypeOK
  <1> DEFINE r == [caller[c] EXCEPT !.step = "replacing", !.driver = client]
  <1>2. caller[c] \in Caller
    BY DEF IInv, TypeOK
  <1>3. r \in Caller /\ r.step = "replacing" /\ r.text = caller[c].text
    BY <1>1, <1>2 DEF Caller, Step
  <1>4. caller' = [caller EXCEPT ![c] = r]
    BY DEF Replaces
  <1> HIDE DEF r
  <1>5. Moved(c) /\ caller'[c] = r
    BY <1>1, <1>3, <1>4, Becomes DEF Moved, IInv, TypeOK, Tasks, locks
  <1>6. Holds(c)' /\ ~At(c, "starting")' /\ caller'[c].text # "private"
    BY <1>1, <1>3, <1>5 DEF Holds, At, locks
  <1>7. TypeOK'
    BY <1>1, <1>5, <1>6, MovedTypes DEF IInv, TypeOK
  <1>8. BudgetInv'
    <2>1. ASSUME NEW x \in Callers, At(x, "starting")'
          PROVE  client' = NoDriver /\ Latest(caller[x].driver)'
      <3>1. At(x, "starting") /\ caller'[x] = caller[x]
        BY <2>1, <1>5, <1>6 DEF Moved, At
      <3> QED
        BY <1>1, <3>1 DEF IInv, BudgetInv, Latest
    <2> QED
      BY <1>1, <2>1 DEF IInv, BudgetInv, Latest
  <1>9. ActingInv'
    BY <1>1, <1>5, ActingKept DEF IInv
  <1>10. PrivateInv'
    BY <1>1, <1>5, <1>6, PrivateKept DEF IInv
  <1> QED
    BY <1>7, <1>8, <1>9, <1>10 DEF IInv

(* The drivers that count are those on the list of starts in the window,   *)
(* fewer than the limit before one more is started.                        *)
LEMMA StartsKeeps ==
    ASSUME IInv, NEW c \in Callers, Starts(c)
    PROVE  IInv'
  <1>1. /\ ~At(c, "call") /\ caller[c].text # "private" /\ Has(queue, c)
        /\ client = NoDriver /\ Cardinality(starts \cap recent) < MaxStarts
        /\ UNCHANGED <<locks, acting, stop, client, ours, close, private>>
    BY DEF Starts, Ensuring, At, IInv, PrivateInv, TypeOK, Counted
  <1>2. PICK d \in Drivers :
          /\ proc[d] = "none" /\ \A e \in 1..(d - 1) : proc[e] # "none"
          /\ proc' = [proc EXCEPT ![d] = "alive"]
          /\ starts' = (starts \cap recent) \cup {d}
          /\ recent' = recent \cup {d}
          /\ caller' = [caller EXCEPT ![c].step = "starting", ![c].driver = d]
    BY DEF Starts, Counted
  <1> DEFINE r == [caller[c] EXCEPT !.step = "starting", !.driver = d]
  <1>3. caller[c] \in Caller
    BY DEF IInv, TypeOK
  <1>4. r \in Caller /\ r.step = "starting" /\ r.text = caller[c].text /\ r.driver = d
    BY <1>3 DEF Caller, Step
  <1>5. caller' = [caller EXCEPT ![c] = r]
    BY <1>2
  <1> HIDE DEF r
  <1>6. Moved(c) /\ caller'[c] = r
    BY <1>1, <1>4, <1>5, Becomes DEF Moved, IInv, TypeOK, Tasks, locks
  <1>7. Holds(c)' /\ caller'[c].text # "private"
    BY <1>1, <1>4, <1>6 DEF Holds, locks
  <1>8. /\ proc' \in [Drivers -> {"none", "alive", "ending", "dead"}]
        /\ proc'[d] = "alive" /\ \A e \in Drivers \ {d} : proc'[e] = proc[e]
        /\ starts' \subseteq Drivers /\ recent' \subseteq Drivers
    BY <1>2 DEF IInv, TypeOK
  <1>9. TypeOK'
    BY <1>1, <1>6, <1>7, <1>8, MovedTypes DEF IInv, TypeOK
  <1>10. \A e \in starts \cup recent \cup ours : e \in Drivers /\ proc[e] # "none"
    BY DEF IInv, TypeOK, BudgetInv
  <1>11. BudgetInv'
    <2>1. \A e \in Drivers : proc[e] # "none" => e < d
      <3>1. SUFFICES ASSUME NEW e \in Drivers, proc[e] # "none"
                     PROVE  e < d
        OBVIOUS
      <3>2. e # d /\ ~(d < e)
        BY <1>2, <3>1 DEF IInv, BudgetInv
      <3>3. e \in Int /\ d \in Int
        BY ComputerUseAssumption DEF Drivers
      <3> QED
        BY <3>2, <3>3
    <2>2. d \in Int /\ \A e \in Drivers : e \in Int
      BY ComputerUseAssumption DEF Drivers
    <2>3. Latest(d)'
      BY <1>2, <1>10, <2>1, <2>2 DEF Latest
    <2>4. ASSUME NEW x \in Callers, At(x, "starting")'
          PROVE  client' = NoDriver /\ Latest(caller[x].driver)'
      <3>1. CASE x = c
        <4>1. caller'[x].driver = d
          BY <1>4, <1>6, <3>1
        <4> QED
          BY <1>1, <2>3, <4>1 DEF Latest
      <3>2. CASE x # c
        <4>1. At(x, "starting")
          BY <2>4, <3>2, <1>6 DEF Moved, At
        <4>2. Has(queue, x)
          BY <4>1 DEF IInv, TypeOK, At
        <4> QED
          BY <1>1, <3>2, <4>2 DEF Has
      <3> QED
        BY <3>1, <3>2
    <2>5. d \notin ours /\ d \notin recent
      BY <1>2, <1>10
    <2>6. /\ starts' \cap ours' = {} /\ recent' \ ours' \subseteq starts'
      BY <1>1, <1>2, <2>5 DEF IInv, BudgetInv
    <2>7. Cardinality(recent' \ ours') <= MaxStarts
      <3> DEFINE C == starts \cap recent
      <3>1. recent' \ ours' = C \cup {d} /\ d \notin C
        BY <1>1, <1>2, <2>5 DEF IInv, BudgetInv
      <3>2. IsFiniteSet(C)
        <4>1. IsFiniteSet(Drivers) /\ C \subseteq Drivers
          BY <1>10, FS_Interval, ComputerUseAssumption DEF Drivers
        <4> QED
          BY <4>1, FS_Subset
      <3>3. Cardinality(C) \in Nat /\ Cardinality(C \cup {d}) = Cardinality(C) + 1
        BY <3>1, <3>2, FS_CardinalityType, FS_AddElement
      <3>4. Cardinality(C) < MaxStarts /\ MaxStarts \in Nat
        BY <1>1, ComputerUseAssumption
      <3> HIDE DEF C
      <3>5. Cardinality(recent' \ ours') = Cardinality(C) + 1
        BY <3>1, <3>3, Zenon
      <3> QED
        BY <3>3, <3>4, <3>5
    <2>8. /\ \A e \in recent' \cup starts' \cup ours' : proc'[e] # "none"
          /\ \A e, f \in Drivers : proc'[e] = "none" /\ e < f => proc'[f] = "none"
      <3>1. \A e \in recent' \cup starts' \cup ours' : proc'[e] # "none"
        BY <1>1, <1>2, <1>8, <1>10
      <3>2. ASSUME NEW e \in Drivers, NEW f \in Drivers, proc'[e] = "none", e < f
            PROVE  proc'[f] = "none"
        <4>1. e # d /\ proc[e] = "none"
          BY <1>8, <3>2
        <4>2. proc[f] = "none"
          BY <3>2, <4>1 DEF IInv, BudgetInv
        <4>3. ~(e < d)
          <5>1. e < d => e \in 1..(d - 1)
            BY ComputerUseAssumption DEF Drivers
          <5> QED
            BY <5>1, <4>1, <1>2
        <4>4. f # d
          BY <3>2, <4>3
        <4> QED
          BY <1>8, <4>2, <4>4
      <3> QED
        BY <3>1, <3>2
    <2> QED
      BY <1>1, <2>4, <2>6, <2>7, <2>8 DEF BudgetInv
  <1>12. ActingInv'
    <2>1. \A e \in Drivers : acting[e] # NoOne => proc'[e] = proc[e]
      BY <1>2, <1>8 DEF IInv, ActingInv
    <2> QED
      BY <1>1, <1>6, <2>1, ActingKept DEF IInv
  <1>13. PrivateInv'
    BY <1>1, <1>6, <1>7, PrivateKept DEF IInv
  <1> QED
    BY <1>9, <1>11, <1>12, <1>13 DEF IInv

LEMMA StartFailsKeeps ==
    ASSUME IInv, NEW c \in Callers, StartFails(c)
    PROVE  IInv'
  <1>1. /\ At(c, "starting") /\ ~At(c, "call") /\ caller[c].text # "private"
        /\ Has(queue, c) /\ Goes(c, "undoing") /\ Told(caller[c].driver)
        /\ UNCHANGED <<locks, acting, stop, bridge, close, private>>
    BY DEF StartFails, At, IInv, PrivateInv, TypeOK
  <1>2. Moved(c) /\ caller'[c].step = "undoing" /\ caller'[c].text = caller[c].text
    BY <1>1, GoesOn DEF Moved, IInv, TypeOK, Tasks, locks, Step
  <1>3. Holds(c)' /\ ~At(c, "starting")' /\ caller'[c].text # "private"
    BY <1>1, <1>2 DEF Holds, At, locks
  <1>4. /\ proc' \in [Drivers -> {"none", "alive", "ending", "dead"}]
        /\ \A d \in Drivers : proc'[d] = proc[d] \/ (proc[d] = "alive" /\ proc'[d] = "ending")
    BY <1>1 DEF Told, IInv, TypeOK
  <1>5. TypeOK'
    BY <1>1, <1>2, <1>3, <1>4, MovedTypes DEF IInv, TypeOK, bridge
  <1>6. BudgetInv'
    BY <1>1, <1>2, <1>3, <1>4, BudgetKept DEF IInv
  <1>7. ActingInv'
    BY <1>1, <1>2, <1>4, ActingKept DEF IInv
  <1>8. PrivateInv'
    BY <1>1, <1>2, <1>3, PrivateKept DEF IInv
  <1> QED
    BY <1>5, <1>6, <1>7, <1>8 DEF IInv

-----------------------------------------------------------------------------
(* Calls *)

(* The driver reads private text while the clipboard is private.           *)
LEMMA ReadsKeeps ==
    ASSUME IInv, NEW c \in Callers, Reads(c)
    PROVE  IInv'
  <1> DEFINE u == IF private THEN "private" ELSE "plain"
             r == [caller[c] EXCEPT !.text = u]
  <1>1. /\ caller[c] \in Caller /\ u \in {"plain", "private"} /\ (u = "private" => private)
        /\ caller' = [caller EXCEPT ![c] = r]
        /\ At(c, "call") /\ caller[c].tool = "read"
        /\ UNCHANGED <<locks, proc, acting, stop, bridge, close, private>>
    BY DEF Reads, IInv, TypeOK
  <1> HIDE DEF u
  <1>2. /\ r \in Caller /\ r.text = u /\ r.step = "call" /\ r.tool = "read"
        /\ r.driver = caller[c].driver
    BY <1>1 DEF Caller, At
  <1> HIDE DEF r
  <1>3. Moved(c) /\ caller'[c] = r
    BY <1>1, <1>2, Becomes DEF Moved, IInv, TypeOK, Tasks, locks
  <1>4. Holds(c)' /\ ~At(c, "starting")'
    BY <1>1, <1>2, <1>3 DEF Holds, At, locks, IInv, TypeOK
  <1>5. TypeOK'
    BY <1>1, <1>3, <1>4, MovedTypes DEF IInv, TypeOK, bridge
  <1>6. BudgetInv'
    BY <1>1, <1>3, <1>4, BudgetKept DEF IInv
  <1>7. ActingInv'
    <2>1. \A x \in Callers : /\ At(x, "call")' <=> At(x, "call")
                             /\ caller'[x].driver = caller[x].driver
      BY <1>1, <1>2, <1>3 DEF Moved, At
    <2>2. ASSUME NEW d \in Drivers, acting[d] # NoOne
          PROVE  \/ At(acting[d], "call")' /\ caller'[acting[d]].driver = d
                 \/ stop[d] # "no"
                 \/ proc[d] = "ending"
      <3>1. acting[d] \in Callers
        BY <2>2 DEF IInv, TypeOK
      <3>2. At(acting[d], "call")' <=> caller'[acting[d]].step = "call"
        BY <1>1 DEF At
      <3> QED
        BY <1>1, <2>1, <2>2, <3>1 DEF IInv, ActingInv, ActsForSomeone, At
    <2> QED
      BY <1>1, <2>2 DEF IInv, ActingInv, ActsForSomeone, At
  <1>8. PrivateInv'
    <2>1. ASSUME NEW x \in Callers, caller'[x].text = "private"
          PROVE  /\ caller'[x].tool = "read"
                 /\ caller'[x].step \in {"call", "stop", "look again"}
                 /\ private \/ caller'[x].changed
                 /\ caller'[x].step = "look again" => ~ListsTypes
      <3>1. CASE x = c
        BY <1>1, <1>2, <1>3, <2>1, <3>1
      <3>2. CASE x # c
        <4>1. caller'[x] = caller[x]
          BY <1>3, <3>2 DEF Moved
        <4> QED
          BY <2>1, <4>1 DEF IInv, PrivateInv, At
      <3> QED
        BY <3>1, <3>2
    <2> QED
      BY <1>1, <2>1 DEF PrivateInv, At
  <1> QED
    BY <1>5, <1>6, <1>7, <1>8 DEF IInv

(* The driver whose call is answered acts for nobody any more.             *)
LEMMA AnsweredKeeps ==
    ASSUME IInv, NEW c \in Callers, Answered(c)
    PROVE  IInv'
  <1>1. /\ At(c, "call")
        /\ acting' = [acting EXCEPT ![caller[c].driver] = NoOne]
        /\ UNCHANGED <<proc, stop, bridge, close, private>>
    BY DEF Answered
  <1>2. /\ Moved(c) /\ Holds(c)' /\ ~At(c, "starting")'
        /\ \/ caller'[c].text # "private"
           \/ /\ caller'[c].step = "look again" /\ caller'[c].tool = caller[c].tool
              /\ caller'[c].text = caller[c].text
              /\ caller'[c].changed = caller[c].changed
              /\ caller[c].text = "private" => ~ListsTypes
    <2>1. CASE Ends(c)
      <3>1. Moved(c) /\ caller'[c] = Idle
        BY <2>1, EndsMoves DEF IInv
      <3> QED
        BY <3>1 DEF Holds, Idle, At
    <2>2. CASE /\ Goes(c, "look again") /\ turns' = Without(turns, c) /\ UNCHANGED queue
               /\ ~(ListsTypes /\ caller[c].text = "private")
      <3>1. /\ turns' \in Seq(Callers)
            /\ \A x \in Callers \ {c} : Has(turns, x) => Has(turns', x)
        BY <2>2, WithoutFacts DEF IInv, TypeOK
      <3>2. /\ caller' \in [Callers -> Caller] /\ caller'[c].step = "look again"
            /\ \A x \in Callers \ {c} : caller'[x] = caller[x]
            /\ caller'[c].tool = caller[c].tool
            /\ caller'[c].changed = caller[c].changed
            /\ caller'[c].text = caller[c].text
        BY <2>2, GoesOn DEF IInv, Step
      <3>3. Moved(c)
        BY <2>2, <3>1, <3>2 DEF Moved, IInv, TypeOK, Tasks
      <3> QED
        BY <2>2, <3>2, <3>3 DEF Holds, At
    <2> QED
      BY <2>1, <2>2 DEF Answered
  <1>3. acting' \in [Drivers -> Callers \cup {NoOne}]
    BY <1>1 DEF IInv, TypeOK
  <1>4. TypeOK'
    BY <1>1, <1>2, <1>3, MovedTypes DEF IInv, TypeOK, bridge
  <1>5. BudgetInv'
    BY <1>1, <1>2, BudgetKept DEF IInv
  <1>6. ActingInv'
    <2>1. ASSUME NEW d \in Drivers, acting'[d] # NoOne
          PROVE  /\ \/ caller'[acting'[d]].step = "call" /\ caller'[acting'[d]].driver = d
                    \/ stop'[d] # "no"
                    \/ proc'[d] = "ending"
                 /\ proc'[d] \in {"alive", "ending"}
      <3>1. d # caller[c].driver /\ acting'[d] = acting[d] /\ acting[d] \in Callers
        BY <1>1, <2>1 DEF IInv, TypeOK
      <3>2. acting[d] # c => caller'[acting[d]] = caller[acting[d]]
        BY <1>2, <3>1 DEF Moved
      <3> QED
        BY <1>1, <2>1, <3>1, <3>2 DEF IInv, ActingInv, ActsForSomeone, At
    <2> QED
      BY <2>1 DEF ActingInv, ActsForSomeone, At
  <1>7. PrivateInv'
    <2>1. CASE caller'[c].text # "private"
      BY <1>1, <1>2, <2>1, PrivateKept DEF IInv
    <2>2. CASE /\ caller'[c].step = "look again" /\ caller'[c].tool = caller[c].tool
               /\ caller'[c].text = caller[c].text
               /\ caller'[c].changed = caller[c].changed
               /\ caller[c].text = "private" => ~ListsTypes
      <3>1. \A x \in Callers \ {c} : caller'[x] = caller[x]
        BY <1>2 DEF Moved
      <3> QED
        BY <1>1, <2>2, <3>1 DEF IInv, PrivateInv, At
    <2> QED
      BY <1>2, <2>1, <2>2
  <1> QED
    BY <1>4, <1>5, <1>6, <1>7 DEF IInv

(* The driver that still acts is to be stopped.                            *)
LEMMA OverrunsKeeps ==
    ASSUME IInv, NEW c \in Callers, Overruns(c)
    PROVE  IInv'
  <1> DEFINE d == caller[c].driver
  <1>1. /\ At(c, "call") /\ Goes(c, "stop")
        /\ stop' = [stop EXCEPT ![d] = "waiting"]
        /\ queue' = Append(queue, d)
        /\ UNCHANGED <<turns, proc, acting, bridge, close, private>>
    BY DEF Overruns
  <1>2. d \in Drivers
    BY <1>1 DEF IInv, At, TypeOK, Caller
  <1> HIDE DEF d
  <1>3. /\ caller' \in [Callers -> Caller] /\ caller'[c].step = "stop"
        /\ \A x \in Callers \ {c} : caller'[x] = caller[x]
        /\ caller'[c].tool = caller[c].tool
        /\ caller'[c].changed = caller[c].changed
        /\ caller'[c].text = caller[c].text
    BY <1>1, GoesOn DEF IInv, Step
  <1>4. Moved(c) /\ Holds(c)' /\ ~At(c, "starting")'
    BY <1>1, <1>2, <1>3, AppendFacts DEF Moved, Holds, At, IInv, TypeOK, Tasks
  <1>5. stop' \in [Drivers -> {"no", "waiting", "closing"}]
    BY <1>1 DEF IInv, TypeOK
  <1>6. TypeOK'
    BY <1>1, <1>4, <1>5, MovedTypes DEF IInv, TypeOK, bridge
  <1>7. BudgetInv'
    BY <1>1, <1>4, BudgetKept DEF IInv
  <1>8. ActingInv'
    <2>1. ASSUME NEW e \in Drivers, acting[e] # NoOne
          PROVE  /\ \/ caller'[acting[e]].step = "call" /\ caller'[acting[e]].driver = e
                    \/ stop'[e] # "no"
                    \/ proc[e] = "ending"
                 /\ proc[e] \in {"alive", "ending"}
      <3>1. acting[e] \in Callers
        BY <2>1 DEF IInv, TypeOK
      <3>2. acting[e] # c => caller'[acting[e]] = caller[acting[e]]
        BY <1>3, <3>1
      <3>3. stop[e] # "no" => stop'[e] # "no"
        BY <1>1 DEF IInv, TypeOK
      <3>4. caller[c].driver = e => stop'[e] # "no"
        BY <1>1 DEF IInv, TypeOK, d
      <3> QED
        BY <2>1, <3>1, <3>2, <3>3, <3>4 DEF IInv, ActingInv, ActsForSomeone, At
    <2> QED
      BY <1>1, <2>1 DEF ActingInv, ActsForSomeone, At
  <1>9. PrivateInv'
    BY <1>1, <1>3 DEF IInv, PrivateInv, At
  <1> QED
    BY <1>6, <1>7, <1>8, <1>9 DEF IInv

LEMMA CancelKeeps ==
    ASSUME IInv, NEW c \in Callers, Cancel(c)
    PROVE  IInv'
  <1>1. CASE At(c, "call")
    BY <1>1, OverrunsKeeps DEF Cancel
  <1>2. CASE ~At(c, "call") /\ At(c, "starting")
    BY <1>2, StartFailsKeeps DEF Cancel
  <1>3. CASE ~At(c, "call") /\ ~At(c, "starting")
    BY <1>3, EndsKeeps DEF Cancel
  <1> QED
    BY <1>1, <1>2, <1>3

-----------------------------------------------------------------------------
(* The other steps *)

(* A step of no request: the locks have lost at most a head that is no     *)
(* request, and not the daemon's end while it stops the bridge.            *)
LEMMA OtherTypes ==
    ASSUME TypeOK, caller' = caller, turns' = turns, queue' \in Seq(Tasks),
           \A x \in Callers : Has(queue, x) => Has(queue', x),
           close' = "closing" => Has(queue', Closer),
           close' \in {"no", "waiting", "closing", "done"},
           proc' \in [Drivers -> {"none", "alive", "ending", "dead"}],
           acting' \in [Drivers -> Callers \cup {NoOne}],
           stop' \in [Drivers -> {"no", "waiting", "closing"}],
           client' \in Drivers \cup {NoDriver},
           starts' \subseteq Drivers, recent' \subseteq Drivers,
           ours' \subseteq Drivers, private' = private
    PROVE  TypeOK'
  <1>1. \A x \in Callers :
          /\ caller'[x].step \in {"replacing", "starting", "undoing"} => Has(queue', x)
          /\ caller'[x].step \in {"ensure", "call", "stop"} => Has(turns', x)
          /\ caller'[x].step = "call" => caller'[x].driver # NoDriver
    BY DEF TypeOK
  <1> QED
    BY <1>1 DEF TypeOK, Tasks

LEMMA OtherActing ==
    ASSUME TypeOK, ActingInv, caller' = caller,
           \A d \in Drivers : acting'[d] \in {acting[d], NoOne},
           \A d \in Drivers : stop[d] # "no" => stop'[d] # "no",
           \A d \in Drivers : acting'[d] # NoOne =>
              proc'[d] = proc[d] \/ proc'[d] = "ending"
    PROVE  ActingInv'
  <1>1. ASSUME NEW d \in Drivers, acting'[d] # NoOne
        PROVE  /\ \/ caller'[acting'[d]].step = "call" /\ caller'[acting'[d]].driver = d
                  \/ stop'[d] # "no"
                  \/ proc'[d] = "ending"
               /\ proc'[d] \in {"alive", "ending"}
    BY <1>1 DEF ActingInv, ActsForSomeone, At
  <1> QED
    BY <1>1 DEF ActingInv, ActsForSomeone, At

LEMMA OtherPrivate ==
    ASSUME PrivateInv, caller' = caller, private' = private
    PROVE  PrivateInv'
  BY DEF PrivateInv, At

LEMMA OtherBudget ==
    ASSUME TypeOK, BudgetInv, caller' = caller, UNCHANGED bridge,
           \A d \in Drivers : proc'[d] = "none" <=> proc[d] = "none"
    PROVE  BudgetInv'
  <1>1. UNCHANGED <<client, starts, recent, ours>>
    BY DEF bridge
  <1>2. recent \cup starts \cup ours \subseteq Drivers
    BY DEF TypeOK
  <1>3. /\ \A d \in recent' \cup starts' \cup ours' : proc'[d] # "none"
        /\ \A d, e \in Drivers : proc'[d] = "none" /\ d < e => proc'[e] = "none"
    BY <1>1, <1>2 DEF BudgetInv
  <1>4. /\ starts' \cap ours' = {} /\ recent' \ ours' \subseteq starts'
        /\ Cardinality(recent' \ ours') <= MaxStarts
    BY <1>1 DEF BudgetInv
  <1>5. /\ client' # NoDriver => Latest(client)'
        /\ \A x \in Callers :
              At(x, "starting")' => client' = NoDriver /\ Latest(caller[x].driver)'
    BY <1>1 DEF BudgetInv, Latest, At
  <1> QED
    BY <1>3, <1>4, <1>5 DEF BudgetInv

(* A driver to be stopped is the bridge's, and the last on the list of     *)
(* starts, or the bridge has another by now.                               *)
LEMMA StopTakesKeeps ==
    ASSUME IInv, NEW d \in Drivers, StopTakes(d)
    PROVE  IInv'
  <1>1. /\ Has(queue, d) /\ queue' = Tail(queue) /\ Told(d)
        /\ stop' = [stop EXCEPT ![d] = "closing"]
        /\ UNCHANGED <<caller, turns, acting, recent, close, private>>
    BY DEF StopTakes
  <1>2. Callers \cap Drivers = {} /\ Closer \notin Callers \cup Drivers
    BY ComputerUseAssumption
  <1>3. /\ proc' \in [Drivers -> {"none", "alive", "ending", "dead"}]
        /\ \A e \in Drivers : proc'[e] = proc[e] \/ (proc[e] = "alive" /\ proc'[e] = "ending")
    BY <1>1 DEF Told, IInv, TypeOK
  <1>4. /\ queue' \in Seq(Tasks) /\ \A x \in Callers : ~Has(queue, x) /\ ~Has(queue, Closer)
    <2>1. queue \in Seq(Tasks) /\ queue # <<>>
      BY <1>1 DEF IInv, TypeOK, Tasks, Has
    <2> QED
      BY <1>1, <1>2, <2>1 DEF Has
  <1>5. close' # "closing"
    BY <1>1, <1>2 DEF IInv, TypeOK, Has
  <1>6. /\ stop' \in [Drivers -> {"no", "waiting", "closing"}]
        /\ \A e \in Drivers : stop[e] # "no" => stop'[e] # "no"
    BY <1>1 DEF IInv, TypeOK
  <1>7. ActingInv'
    BY <1>1, <1>3, <1>6, OtherActing DEF IInv
  <1>8. PrivateInv'
    BY <1>1, OtherPrivate DEF IInv
  <1>9. CASE client = d
    <2>1. client' = NoDriver /\ starts' = Popped /\ ours' = ours \cup {d}
      BY <1>9 DEF StopTakes
    <2>2. Latest(d)
      BY <1>9, DriversAreSome DEF IInv, BudgetInv
    <2>3. \A e \in Drivers : e \in Int
      BY ComputerUseAssumption DEF Drivers
    <2>4. starts' = starts \ {d}
      BY <2>1, <2>2, <2>3 DEF Popped, Latest, IInv, TypeOK
    <2>5. TypeOK'
      <3>1. starts' \subseteq Drivers /\ ours' \subseteq Drivers
        BY <2>1, <2>4 DEF IInv, TypeOK
      <3> QED
        BY <1>1, <1>3, <1>4, <1>5, <1>6, <2>1, <3>1, OtherTypes DEF IInv, TypeOK
    <2>6. BudgetInv'
      <3>1. /\ \A e \in recent' \cup starts' \cup ours' : proc'[e] # "none"
            /\ \A e, f \in Drivers : proc'[e] = "none" /\ e < f => proc'[f] = "none"
        BY <1>1, <1>3, <2>1, <2>2, <2>4 DEF IInv, BudgetInv, Latest, TypeOK
      <3>2. /\ starts' \cap ours' = {} /\ recent' \ ours' \subseteq starts'
        BY <1>1, <2>1, <2>4 DEF IInv, BudgetInv
      <3>3. Cardinality(recent' \ ours') <= MaxStarts
        <4>1. IsFiniteSet(recent \ ours) /\ recent' \ ours' \subseteq recent \ ours
          <5>1. IsFiniteSet(Drivers) /\ recent \ ours \subseteq Drivers
            BY FS_Interval, ComputerUseAssumption DEF Drivers, IInv, TypeOK
          <5> QED
            BY <1>1, <2>1, <5>1, FS_Subset
        <4>2. IsFiniteSet(recent' \ ours')
          BY <4>1, FS_Subset
        <4> DEFINE new == Cardinality(recent' \ ours')
                   old == Cardinality(recent \ ours)
        <4>3. new \in Nat /\ old \in Nat /\ new <= old /\ old <= MaxStarts
          BY <4>1, <4>2, FS_CardinalityType, FS_Subset DEF IInv, BudgetInv
        <4>4. MaxStarts \in Nat
          BY ComputerUseAssumption
        <4> HIDE DEF new, old
        <4>5. new <= MaxStarts
          BY <4>3, <4>4
        <4> QED
          BY <4>5 DEF new
      <3>4. ASSUME NEW x \in Callers, At(x, "starting")'
            PROVE  FALSE
        BY <1>1, <1>4, <3>4 DEF IInv, TypeOK, At
      <3> QED
        BY <2>1, <3>1, <3>2, <3>3, <3>4 DEF BudgetInv
    <2> QED
      BY <1>7, <1>8, <2>5, <2>6 DEF IInv
  <1>10. CASE client # d
    <2>1. UNCHANGED bridge
      BY <1>1, <1>10 DEF StopTakes, bridge
    <2>2. TypeOK'
      BY <1>1, <1>3, <1>4, <1>5, <1>6, <2>1, OtherTypes DEF IInv, TypeOK, bridge
    <2>3. BudgetInv'
      BY <1>1, <1>3, <2>1, OtherBudget DEF IInv
    <2> QED
      BY <1>7, <1>8, <2>2, <2>3 DEF IInv
  <1> QED
    BY <1>9, <1>10

LEMMA FailsKeeps ==
    ASSUME IInv, NEW d \in Drivers, Fails(d)
    PROVE  IInv'
  <1>1. /\ UNCHANGED <<caller, locks, acting, stop, bridge, close, private>>
        /\ proc[d] = "alive" /\ proc' = [proc EXCEPT ![d] = "ending"]
    BY DEF Fails
  <1>2. /\ proc' \in [Drivers -> {"none", "alive", "ending", "dead"}]
        /\ \A e \in Drivers : proc'[e] = proc[e] \/ (proc[e] = "alive" /\ proc'[e] = "ending")
    BY <1>1 DEF IInv, TypeOK
  <1>3. TypeOK'
    BY <1>1, <1>2, OtherTypes DEF IInv, TypeOK, bridge, locks, Tasks
  <1> QED
    BY <1>1, <1>2, <1>3, OtherActing, OtherBudget, OtherPrivate DEF IInv

(* A driver that has ended acts no more.                                   *)
LEMMA GoneKeeps ==
    ASSUME IInv, NEW d \in Drivers, Gone(d)
    PROVE  IInv'
  <1>1. /\ UNCHANGED <<caller, locks, stop, bridge, close, private>>
        /\ proc[d] = "ending" /\ proc' = [proc EXCEPT ![d] = "dead"]
        /\ acting' = [acting EXCEPT ![d] = NoOne]
    BY DEF Gone
  <1>2. /\ proc' \in [Drivers -> {"none", "alive", "ending", "dead"}]
        /\ acting' \in [Drivers -> Callers \cup {NoOne}]
        /\ \A e \in Drivers : /\ acting'[e] \in {acting[e], NoOne}
                              /\ acting'[e] # NoOne => proc'[e] = proc[e]
                              /\ proc'[e] = "none" <=> proc[e] = "none"
    BY <1>1 DEF IInv, TypeOK
  <1>3. TypeOK'
    BY <1>1, <1>2, OtherTypes DEF IInv, TypeOK, bridge, locks, Tasks
  <1>4. ActingInv'
    BY <1>1, <1>2, OtherActing DEF IInv
  <1> QED
    BY <1>1, <1>2, <1>3, <1>4, OtherBudget, OtherPrivate DEF IInv

LEMMA CloseAskedKeeps ==
    ASSUME IInv, CloseAsked
    PROVE  IInv'
  <1>1. /\ UNCHANGED <<caller, turns, proc, acting, stop, bridge, private>>
        /\ close' = "waiting" /\ queue' = Append(queue, Closer)
    BY DEF CloseAsked
  <1>2. queue' \in Seq(Tasks) /\ \A x : Has(queue, x) => Has(queue', x)
    BY <1>1, AppendFacts DEF IInv, TypeOK, Tasks
  <1>3. TypeOK'
    BY <1>1, <1>2, OtherTypes DEF IInv, TypeOK, bridge
  <1> QED
    BY <1>1, <1>3, OtherActing, OtherBudget, OtherPrivate DEF IInv

LEMMA CloseTakesKeeps ==
    ASSUME IInv, CloseTakes
    PROVE  IInv'
  <1>1. /\ UNCHANGED <<caller, locks, acting, stop, bridge, private>>
        /\ close' = "closing" /\ Has(queue, Closer)
        /\ proc' = proc \/ Told(client)
    BY DEF CloseTakes
  <1>2. /\ proc' \in [Drivers -> {"none", "alive", "ending", "dead"}]
        /\ \A e \in Drivers : proc'[e] = proc[e] \/ (proc[e] = "alive" /\ proc'[e] = "ending")
    BY <1>1 DEF Told, IInv, TypeOK
  <1>3. TypeOK'
    BY <1>1, <1>2, OtherTypes DEF IInv, TypeOK, bridge, locks, Tasks
  <1> QED
    BY <1>1, <1>2, <1>3, OtherActing, OtherBudget, OtherPrivate DEF IInv

(* No request starts a driver while the daemon's end has the lock.         *)
LEMMA CloseEndsKeeps ==
    ASSUME IInv, CloseEnds
    PROVE  IInv'
  <1>1. /\ UNCHANGED <<caller, turns, proc, acting, stop, starts, recent, ours, private>>
        /\ client' = NoDriver /\ close' = "done" /\ queue' = Tail(queue)
        /\ Has(queue, Closer)
    BY DEF CloseEnds, IInv, TypeOK
  <1>2. queue' \in Seq(Tasks) /\ \A x \in Callers : ~Has(queue, x)
    <2>1. queue \in Seq(Tasks) /\ queue # <<>>
      BY <1>1 DEF IInv, TypeOK, Tasks, Has
    <2> QED
      BY <1>1, <2>1, ComputerUseAssumption DEF Has
  <1>3. TypeOK'
    BY <1>1, <1>2, OtherTypes DEF IInv, TypeOK
  <1>4. BudgetInv'
    <2>1. ASSUME NEW x \in Callers, At(x, "starting")'
          PROVE  FALSE
      BY <1>1, <1>2, <2>1 DEF IInv, TypeOK, At
    <2> QED
      BY <1>1, <2>1 DEF IInv, BudgetInv
  <1> QED
    BY <1>1, <1>3, <1>4, OtherActing, OtherPrivate DEF IInv

(* What a request has read before the copy, it knows to be changed.        *)
LEMMA CopyKeeps ==
    ASSUME IInv, Copy
    PROVE  IInv'
  <1>1. /\ UNCHANGED <<locks, proc, acting, stop, bridge, close>>
        /\ private' \in BOOLEAN
    BY DEF Copy
  <1>2. ASSUME NEW c \in Callers
        PROVE  /\ caller'[c] \in Caller
               /\ caller'[c].step = caller[c].step
               /\ caller'[c].tool = caller[c].tool
               /\ caller'[c].driver = caller[c].driver
               /\ caller'[c].text = caller[c].text
               /\ caller'[c].changed = (caller[c].tool = "read" /\
                                        caller[c].step \notin {"snapshot", "look"})
    <2> DEFINE b == caller[c].tool = "read" /\ caller[c].step \notin {"snapshot", "look"}
    <2>1. caller'[c] = [caller[c] EXCEPT !.changed = b]
      BY DEF Copy
    <2>2. caller[c] \in Caller /\ b \in BOOLEAN
      BY DEF IInv, TypeOK
    <2> HIDE DEF b
    <2>3. /\ caller'[c] \in Caller /\ caller'[c].changed = b
          /\ caller'[c].step = caller[c].step
          /\ caller'[c].tool = caller[c].tool
          /\ caller'[c].driver = caller[c].driver
          /\ caller'[c].text = caller[c].text
      BY <2>1, <2>2 DEF Caller
    <2> QED
      BY <2>3 DEF b
  <1>3. caller' \in [Callers -> Caller]
    <2>1. caller' = [c \in Callers |-> caller'[c]]
      BY DEF Copy
    <2> QED
      BY <1>2, <2>1
  <1>4. TypeOK'
    <2>1. \A c \in Callers :
            /\ caller'[c].step \in {"replacing", "starting", "undoing"} => Has(queue', c)
            /\ caller'[c].step \in {"ensure", "call", "stop"} => Has(turns', c)
            /\ caller'[c].step = "call" => caller'[c].driver # NoDriver
      BY <1>1, <1>2 DEF IInv, TypeOK, locks
    <2> QED
      BY <1>1, <1>3, <2>1 DEF IInv, TypeOK, locks, bridge
  <1>5. BudgetInv'
    <2>1. ASSUME NEW c \in Callers, At(c, "starting")'
          PROVE  client' = NoDriver /\ Latest(caller[c].driver)'
      BY <1>1, <1>2, <2>1 DEF IInv, BudgetInv, At, Latest, bridge
    <2> QED
      BY <1>1, <2>1 DEF IInv, BudgetInv, Latest, bridge
  <1>6. ActingInv'
    <2>1. ASSUME NEW d \in Drivers, acting[d] # NoOne
          PROVE  /\ \/ caller'[acting[d]].step = "call" /\ caller'[acting[d]].driver = d
                    \/ stop[d] # "no"
                    \/ proc[d] = "ending"
                 /\ proc[d] \in {"alive", "ending"}
      <3>1. acting[d] \in Callers
        BY <2>1 DEF IInv, TypeOK
      <3> QED
        BY <1>2, <2>1, <3>1 DEF IInv, ActingInv, ActsForSomeone, At
    <2> QED
      BY <1>1, <2>1 DEF ActingInv, ActsForSomeone, At
  <1>7. PrivateInv'
    <2>1. ASSUME NEW c \in Callers, caller'[c].text = "private"
          PROVE  /\ caller'[c].tool = "read"
                 /\ caller'[c].step \in {"call", "stop", "look again"}
                 /\ caller'[c].changed
                 /\ caller'[c].step = "look again" => ~ListsTypes
      BY <1>2, <2>1 DEF IInv, PrivateInv, At
    <2> QED
      BY <2>1 DEF PrivateInv, At
  <1> QED
    BY <1>4, <1>5, <1>6, <1>7 DEF IInv

LEMMA WindowPassesKeeps ==
    ASSUME IInv, WindowPasses
    PROVE  IInv'
  <1>1. /\ UNCHANGED <<caller, locks, proc, acting, stop, client, starts, ours, close, private>>
        /\ recent' \subseteq recent
    BY DEF WindowPasses
  <1>2. TypeOK'
    BY <1>1, OtherTypes DEF IInv, TypeOK, locks, Tasks
  <1>3. BudgetInv'
    <2>1. Cardinality(recent' \ ours') <= MaxStarts
      <3>1. IsFiniteSet(recent \ ours) /\ recent' \ ours' \subseteq recent \ ours
        <4>1. IsFiniteSet(Drivers) /\ recent \ ours \subseteq Drivers
          BY FS_Interval, ComputerUseAssumption DEF Drivers, IInv, TypeOK
        <4> QED
          BY <1>1, <4>1, FS_Subset
      <3>2. IsFiniteSet(recent' \ ours')
        BY <3>1, FS_Subset
      <3> DEFINE new == Cardinality(recent' \ ours')
                 old == Cardinality(recent \ ours)
      <3>3. new \in Nat /\ old \in Nat /\ new <= old /\ old <= MaxStarts
        BY <3>1, <3>2, FS_CardinalityType, FS_Subset DEF IInv, BudgetInv
      <3>4. MaxStarts \in Nat
        BY ComputerUseAssumption
      <3> HIDE DEF new, old
      <3>5. new <= MaxStarts
        BY <3>3, <3>4
      <3> QED
        BY <3>5 DEF new
    <2>2. /\ client' # NoDriver => Latest(client)'
          /\ \A x \in Callers :
                At(x, "starting")' => client' = NoDriver /\ Latest(caller[x].driver)'
      BY <1>1 DEF IInv, BudgetInv, Latest, At
    <2> QED
      BY <1>1, <2>1, <2>2 DEF IInv, BudgetInv
  <1> QED
    BY <1>1, <1>2, <1>3, OtherActing, OtherPrivate DEF IInv, locks

-----------------------------------------------------------------------------
(* The invariant *)

LEMMA InitHolds == Init => IInv
  <1> SUFFICES ASSUME Init PROVE IInv
    OBVIOUS
  <1>1. TypeOK
    <2>1. caller \in [Callers -> Caller] /\ \A c \in Callers : caller[c].step = "idle"
      <3>1. caller = [c \in Callers |-> Idle] /\ Idle.step = "idle"
        BY DEF Init, Idle
      <3> QED
        BY <3>1, IdleIsCaller
    <2>2. turns \in Seq(Callers) /\ queue \in Seq(Callers \cup Drivers \cup {Closer})
      BY DEF Init
    <2> QED
      BY <2>1, <2>2 DEF Init, TypeOK
  <1>2. BudgetInv
    <2>1. Cardinality(recent \ ours) = 0 /\ MaxStarts \in Nat
      BY FS_EmptySet, ComputerUseAssumption DEF Init
    <2> QED
      BY <2>1 DEF Init, BudgetInv, At, Idle
  <1>3. ActingInv
    BY DEF Init, ActingInv, ActsForSomeone
  <1>4. PrivateInv
    <2>1. \A c \in Callers : caller[c].text = "none"
      BY DEF Init, Idle
    <2> QED
      BY <2>1 DEF PrivateInv
  <1> QED
    BY <1>1, <1>2, <1>3, <1>4 DEF IInv

LEMMA NextKeeps == IInv /\ [Next]_vars => IInv'
  <1> SUFFICES ASSUME IInv, [Next]_vars
               PROVE  IInv'
    OBVIOUS
  <1>1. ASSUME NEW c \in Callers, NEW tool \in {"list", "act", "read"}, Request(c, tool)
        PROVE  IInv'
    BY <1>1, RequestKeeps
  <1>2. ASSUME NEW c \in Callers, FirstLook(c) \/ TakeTurn(c) \/ TurnTimesOut(c)
        PROVE  IInv'
    BY <1>2, FirstLookKeeps, TakeTurnKeeps, GiveUpKeeps
  <1>3. ASSUME NEW c \in Callers, Found(c) \/ Replaces(c) \/ Replaced(c) \/ Refused(c)
        PROVE  IInv'
    BY <1>3, FoundKeeps, ReplacesKeeps, ReplacedKeeps, RefusedKeeps
  <1>4. ASSUME NEW c \in Callers, Starts(c) \/ Started(c) \/ StartFails(c) \/ Undone(c)
        PROVE  IInv'
    BY <1>4, StartsKeeps, StartedKeeps, StartFailsKeeps, GiveUpKeeps
  <1>5. ASSUME NEW c \in Callers, Reads(c) \/ Answered(c) \/ SecondLook(c) \/ CallFails(c)
        PROVE  IInv'
    BY <1>5, ReadsKeeps, AnsweredKeeps, SecondLookKeeps, CallFailsKeeps
  <1>6. ASSUME NEW c \in Callers, Overruns(c) \/ Stopped(c) \/ Cancel(c)
        PROVE  IInv'
    BY <1>6, OverrunsKeeps, GiveUpKeeps, CancelKeeps
  <1>7. ASSUME NEW d \in Drivers, StopTakes(d) \/ Fails(d) \/ Gone(d)
        PROVE  IInv'
    BY <1>7, StopTakesKeeps, FailsKeeps, GoneKeeps
  <1>8. CASE CloseAsked \/ CloseTakes \/ CloseEnds
    BY <1>8, CloseAskedKeeps, CloseTakesKeeps, CloseEndsKeeps
  <1>9. CASE Copy \/ WindowPasses
    BY <1>9, CopyKeeps, WindowPassesKeeps
  <1>10. CASE UNCHANGED vars
    <2>1. /\ UNCHANGED <<caller, locks, proc, acting, stop, bridge, close, private>>
      BY <1>10 DEF vars
    <2>2. TypeOK'
      BY <2>1, OtherTypes DEF IInv, TypeOK, locks, bridge, Tasks
    <2> QED
      BY <2>1, <2>2, OtherActing, OtherBudget, OtherPrivate DEF IInv
  <1> QED
    BY <1>1, <1>2, <1>3, <1>4, <1>5, <1>6, <1>7, <1>8, <1>9, <1>10 DEF Next

(* The invariant holds in every state of every behaviour.                  *)
THEOREM Invariance == Spec => []IInv
  BY InitHolds, NextKeeps, PTL DEF Spec

-----------------------------------------------------------------------------
(* What follows *)

(* Every variable has its type, whoever starts or replaces a driver has    *)
(* the bridge's lock, and whoever calls one has the turn                   *)
(* (CuaDriverBridge._ensure_client, call_tool).                            *)
THEOREM TypeCorrect == Spec => []TypeOK
  BY Invariance, PTL DEF IInv

(* No driver goes on with an action nobody waits for, unless it is being   *)
(* stopped, however calls overrun and are cancelled                        *)
(* (CuaDriverBridge.call_tool, _stop_unfinished).                          *)
THEOREM NoDriverActsForNobody == Spec => []ActsForSomeone
  <1>1. IInv => ActsForSomeone
    BY DEF IInv, ActingInv
  <1> QED
    BY <1>1, Invariance, PTL

(* Of the drivers started in the window, the budget counts those that      *)
(* failed, and no more than MAX_STARTS_PER_WINDOW of them were started     *)
(* (_check_restart_budget, _stop_unfinished).                              *)
THEOREM OnlyFailuresCount == Spec => []BudgetCountsFailures
  <1>1. IInv => BudgetCountsFailures
    BY DEF IInv, BudgetInv, BudgetCountsFailures
  <1> QED
    BY <1>1, Invariance, PTL

(* No text that was private when it was read is sent                       *)
(* (ComputerUseHandler._clipboard_read).                                   *)
THEOREM PrivateTextStays == Spec => []ClipboardKeptPrivate
  <1>1. IInv => ClipboardKeptPrivate
    BY DEF IInv, PrivateInv, ClipboardKeptPrivate, At
  <1> QED
    BY <1>1, Invariance, PTL

-----------------------------------------------------------------------------
(* Who waits for whom                                                      *)

In(q, x)        == \E i \in DOMAIN q : q[i] = x
Once(q)         == \A i, j \in DOMAIN q : q[i] = q[j] => i = j
Before(q, x, y) == \E i, j \in DOMAIN q : i < j /\ q[i] = x /\ q[j] = y

(* The driver was told to end, or has ended.                               *)
Gives(d) == proc[d] \in {"ending", "dead"}

InBridge(c) == caller[c].step \in {"snapshot", "ensure", "replacing", "starting", "undoing"}
InTurn(c)   == caller[c].step \in {"ensure", "replacing", "starting", "undoing", "call", "stop"}

(* A request is in a queue while it waits there or holds the lock.  While  *)
(* it has the turn, no driver is to be stopped after it in the bridge's    *)
(* queue, so it calls none that is.                                        *)
RequestWaits(c) ==
    /\ In(queue, c) <=> InBridge(c)
    /\ In(turns, c) => At(c, "turn") \/ (InTurn(c) /\ Has(turns, c))
    /\ At(c, "turn") => In(turns, c)
    /\ \A d \in Drivers : Before(queue, c, d) => ~Has(turns, c)
    /\ caller[c].step \in {"starting", "call"} =>
          /\ caller[c].driver \in Drivers
          /\ stop[caller[c].driver] = "no" /\ proc[caller[c].driver] # "none"
    /\ At(c, "stop") => caller[c].driver \in Drivers /\ stop[caller[c].driver] # "no"
    /\ caller[c].step \in {"replacing", "undoing"} =>
          caller[c].driver \in Drivers /\ Gives(caller[c].driver)

(* The task that is to stop a driver waits for the bridge's lock.          *)
StopWaits(d) ==
    /\ In(queue, d) <=> stop[d] = "waiting"
    /\ stop[d] = "closing" => Gives(d)
    /\ proc[d] = "none" => stop[d] = "no"

CloseWaits ==
    /\ In(queue, Closer) <=> close \in {"waiting", "closing"}
    /\ close = "closing" /\ client # NoDriver => Gives(client)

(* A driver is not called while it is started.                             *)
StartsAnother ==
    \A c, x \in Callers :
        At(c, "call") /\ At(x, "starting") => caller[c].driver # caller[x].driver

WaitInv ==
    /\ Once(turns) /\ Once(queue)
    /\ \A c \in Callers : RequestWaits(c)
    /\ \A d \in Drivers : StopWaits(d)
    /\ CloseWaits /\ StartsAnother

(* Who has the bridge's lock goes on, or waits for a driver that was told  *)
(* to end.  Who has the turn goes on, or waits in the bridge's queue, or   *)
(* for the task there that stops its driver, or for that driver's end.     *)
LocksMoveOn ==
    /\ queue # <<>> =>
          \/ \E c \in Callers : Ensuring(c) \/ (At(c, "starting") /\ Has(queue, c))
          \/ \E c \in Callers : /\ Has(queue, c) /\ caller[c].step \in {"replacing", "undoing"}
                                /\ Gives(caller[c].driver)
          \/ \E d \in Drivers : Has(queue, d) /\ stop[d] = "waiting"
          \/ /\ Has(queue, Closer)
             /\ \/ close = "waiting"
                \/ close = "closing" /\ (client # NoDriver => Gives(client))
    /\ turns # <<>> =>
          \E c \in Callers :
             /\ Has(turns, c)
             /\ \/ caller[c].step \in {"turn", "call"} \/ In(queue, c)
                \/ /\ At(c, "stop")
                   /\ \/ In(queue, caller[c].driver)
                      \/ stop[caller[c].driver] = "closing" /\ Gives(caller[c].driver)
    /\ \A c \in Callers : /\ caller[c].step \in {"snapshot", "ensure"} => In(queue, c)
                          /\ At(c, "turn") => In(turns, c)

(* r is q after x has left it, or joined it.                               *)
Left(q, r, x) ==
    /\ Once(r) /\ \A y : In(r, y) <=> In(q, y) /\ y # x
    /\ \A y, z : Before(r, y, z) => Before(q, y, z)
Joined(q, r, x) ==
    /\ Once(r) /\ \A y : In(r, y) <=> In(q, y) \/ y = x
    /\ \A y, z : Before(r, y, z) => Before(q, y, z) \/ (z = x /\ In(q, y))

(* Taking one place out of a queue.                                        *)
LEMMA OneOut ==
    ASSUME NEW S, NEW q \in Seq(S), Once(q), NEW i \in 1..Len(q), NEW r \in Seq(S),
           Len(r) = Len(q) - 1,
           \A k \in 1..Len(q) - 1 : r[k] = IF k < i THEN q[k] ELSE q[k + 1]
    PROVE  Left(q, r, q[i])
  <1>1. Len(q) \in Nat /\ DOMAIN q = 1..Len(q) /\ DOMAIN r = 1..Len(q) - 1
    OBVIOUS
  <1> DEFINE at(k) == IF k < i THEN k ELSE k + 1
  <1>2. \A k \in DOMAIN r : at(k) \in DOMAIN q /\ at(k) # i /\ r[k] = q[at(k)]
    BY <1>1
  <1>3. \A j, k \in DOMAIN r : (at(j) = at(k) => j = k) /\ (j < k => at(j) < at(k))
    BY <1>1
  <1>4. \A j \in DOMAIN q : j # i => \E k \in DOMAIN r : at(k) = j
    <2> SUFFICES ASSUME NEW j \in DOMAIN q, j # i PROVE \E k \in DOMAIN r : at(k) = j
      OBVIOUS
    <2>1. CASE j < i
      <3>1. j \in DOMAIN r /\ at(j) = j
        BY <1>1, <2>1
      <3> QED
        BY <3>1
    <2>2. CASE ~(j < i)
      <3>1. j - 1 \in DOMAIN r /\ at(j - 1) = j
        BY <1>1, <2>2
      <3> QED
        BY <3>1
    <2> QED
      BY <2>1, <2>2
  <1> HIDE DEF at
  <1>5. Once(r)
    BY <1>2, <1>3 DEF Once
  <1>6. \A y : In(r, y) <=> In(q, y) /\ y # q[i]
    <2>1. ASSUME NEW k \in DOMAIN r PROVE r[k] # q[i] /\ In(q, r[k])
      BY <1>1, <1>2 DEF Once, In
    <2>2. ASSUME NEW j \in DOMAIN q, q[j] # q[i] PROVE In(r, q[j])
      BY <1>2, <1>4, <2>2 DEF In
    <2> QED
      BY <2>1, <2>2 DEF In
  <1>7. \A y, z : Before(r, y, z) => Before(q, y, z)
    BY <1>2, <1>3 DEF Before
  <1> QED
    BY <1>5, <1>6, <1>7 DEF Left

LEMMA WithoutIs ==
    ASSUME NEW S, NEW q \in Seq(S), Once(q), NEW x
    PROVE  Left(q, Without(q, x), x)
  <1> DEFINE at == {i \in DOMAIN q : q[i] = x}
             i  == CHOOSE j \in at : TRUE
             a  == SubSeq(q, 1, i - 1)
             b  == SubSeq(q, i + 1, Len(q))
  <1>1. CASE at = {}
    <2>1. Without(q, x) = q
      BY <1>1 DEF Without
    <2>2. ~In(q, x)
      BY <1>1 DEF In
    <2> QED
      BY <2>1, <2>2 DEF Left
  <1>2. CASE at # {}
    <2>1. i \in 1..Len(q) /\ q[i] = x
      BY <1>2
    <2>2. Without(q, x) = a \o b
      BY <1>2 DEF Without
    <2> HIDE DEF i
    <2>3. a \in Seq(S) /\ Len(a) = i - 1 /\ \A k \in 1..i - 1 : a[k] = q[k]
      BY <2>1
    <2>4. b \in Seq(S) /\ Len(b) = Len(q) - i /\ \A k \in 1..Len(q) - i : b[k] = q[i + k]
      BY <2>1
    <2> HIDE DEF a, b
    <2>5. /\ a \o b \in Seq(S) /\ Len(a \o b) = Len(a) + Len(b)
          /\ \A k \in 1..Len(a) + Len(b) :
                (a \o b)[k] = IF k <= Len(a) THEN a[k] ELSE b[k - Len(a)]
      BY <2>3, <2>4, ConcatProperties
    <2>6. Len(a \o b) = Len(q) - 1
      BY <2>1, <2>3, <2>4, <2>5
    <2>7. ASSUME NEW k \in 1..Len(q) - 1
          PROVE  (a \o b)[k] = IF k < i THEN q[k] ELSE q[k + 1]
      <3>1. k \in 1..Len(a) + Len(b) /\ Len(q) \in Nat
        BY <2>3, <2>4, <2>1
      <3>2. CASE k < i
        <4>1. k <= Len(a) /\ k \in 1..i - 1
          BY <2>1, <2>3, <3>2
        <4> QED
          BY <2>3, <2>5, <3>1, <3>2, <4>1
      <3>3. CASE ~(k < i)
        <4>1. ~(k <= Len(a)) /\ k - Len(a) \in 1..Len(q) - i /\ i + (k - Len(a)) = k + 1
          <5>1. Len(a) = i - 1 /\ i \in Nat /\ k \in Nat /\ Len(q) \in Nat /\ k <= Len(q) - 1
            BY <2>1, <2>3, <3>1
          <5> QED
            BY <3>3, <5>1
        <4>2. (a \o b)[k] = b[k - Len(a)]
          BY <2>5, <3>1, <4>1
        <4>3. b[k - Len(a)] = q[i + (k - Len(a))]
          BY <2>4, <4>1
        <4> QED
          BY <3>3, <4>1, <4>2, <4>3
      <3> QED
        BY <3>2, <3>3
    <2> QED
      BY <2>1, <2>2, <2>5, <2>6, <2>7, OneOut
  <1> QED
    BY <1>1, <1>2

LEMMA TailIs ==
    ASSUME NEW S, NEW q \in Seq(S), Once(q), NEW x, Has(q, x)
    PROVE  Left(q, Tail(q), x)
  <1>1. q # <<>> /\ q[1] = x /\ 1 \in 1..Len(q) /\ Len(q) \in Nat
    BY DEF Has
  <1>2. Tail(q) \in Seq(S) /\ Len(Tail(q)) = Len(q) - 1
        /\ \A k \in 1..Len(q) - 1 : Tail(q)[k] = q[k + 1]
    BY <1>1
  <1>3. \A k \in 1..Len(q) - 1 : Tail(q)[k] = IF k < 1 THEN q[k] ELSE q[k + 1]
    BY <1>1, <1>2
  <1>4. Left(q, Tail(q), q[1])
    BY <1>1, <1>2, <1>3, OneOut
  <1> QED
    BY <1>1, <1>4

LEMMA AppendIs ==
    ASSUME NEW S, NEW q \in Seq(S), Once(q), NEW x \in S, ~In(q, x)
    PROVE  Joined(q, Append(q, x), x)
  <1> DEFINE r == Append(q, x)  n == Len(q)
  <1>1. /\ n \in Nat /\ DOMAIN q = 1..n /\ DOMAIN r = 1..n + 1
        /\ r[n + 1] = x /\ \A k \in 1..n : r[k] = q[k]
    OBVIOUS
  <1> HIDE DEF r, n
  <1>2. \A k \in 1..n + 1 : k \in 1..n \/ k = n + 1
    BY <1>1
  <1>3. \A k \in 1..n : k \in 1..n + 1 /\ q[k] # x
    BY <1>1 DEF In
  <1>4. Once(r)
    BY <1>1, <1>2, <1>3 DEF Once
  <1>5. \A y : In(r, y) <=> In(q, y) \/ y = x
    <2>1. n + 1 \in 1..n + 1
      BY <1>1
    <2> QED
      BY <1>1, <1>2, <1>3, <2>1 DEF In
  <1>6. \A y, z : Before(r, y, z) => Before(q, y, z) \/ (z = x /\ In(q, y))
    <2> SUFFICES ASSUME NEW i \in 1..n + 1, NEW j \in 1..n + 1, i < j
                 PROVE  Before(q, r[i], r[j]) \/ (r[j] = x /\ In(q, r[i]))
      BY <1>1 DEF Before
    <2>1. i \in 1..n
      BY <1>1
    <2>2. CASE j \in 1..n
      BY <1>1, <2>1, <2>2 DEF Before
    <2>3. CASE j = n + 1
      BY <1>1, <2>1, <2>3 DEF In
    <2> QED
      BY <1>2, <2>2, <2>3
  <1> QED
    BY <1>4, <1>5, <1>6 DEF Joined, r

(* Of the head of a queue.                                                 *)
LEMMA HeadIs ==
    ASSUME NEW S, NEW q \in Seq(S), NEW x, Has(q, x)
    PROVE  /\ In(q, x) /\ \A y : Has(q, y) => y = x
           /\ \A y : In(q, y) /\ y # x => Before(q, x, y)
  <1>1. q # <<>> /\ q[1] = x /\ 1 \in DOMAIN q /\ Len(q) \in Nat /\ DOMAIN q = 1..Len(q)
    BY DEF Has
  <1>2. \A y : In(q, y) /\ y # x => Before(q, x, y)
    BY <1>1 DEF In, Before
  <1> QED
    BY <1>1, <1>2 DEF Has, In

LEMMA BeforeIsIn ==
    ASSUME NEW q, NEW x, NEW y, Before(q, x, y)
    PROVE  In(q, x) /\ In(q, y)
  BY DEF Before, In

-----------------------------------------------------------------------------
(* What the waits come to after a step of c *)

(* The queues lose or get no other task, nobody passes another, and c is   *)
(* the only one to come after somebody.                                    *)
Queued(c) ==
    /\ Once(turns') /\ Once(queue')
    /\ \A x \in Tasks \ {c} : /\ In(turns', x) <=> In(turns, x)
                              /\ In(queue', x) <=> In(queue, x)
    /\ \A x, y : Before(queue', x, y) => Before(queue, x, y) \/ y = c

(* Nobody else calls the driver c starts, or starts the one it calls.      *)
Apart(c) ==
    \A x \in Callers \ {c} :
        /\ At(c, "call") /\ At(x, "starting") => caller[c].driver # caller[x].driver
        /\ At(x, "call") /\ At(c, "starting") => caller[x].driver # caller[c].driver

(* Drivers only get nearer to their end.                                   *)
Onwards ==
    /\ \A d \in Drivers : Gives(d) => Gives(d)'
    /\ \A d \in Drivers : proc[d] # "none" => proc'[d] # "none"

LEMMA TasksDiffer ==
    /\ Callers \cap Drivers = {} /\ Closer \notin Callers \cup Drivers
    /\ Callers \subseteq Tasks /\ Drivers \subseteq Tasks /\ Closer \in Tasks
  BY ComputerUseAssumption DEF Tasks

LEMMA HasOne ==
    ASSUME TypeOK, NEW x, NEW y
    PROVE  /\ Has(queue, x) /\ Has(queue, y) => x = y
           /\ Has(turns, x) /\ Has(turns, y) => x = y
           /\ Has(queue, x) => In(queue, x)
           /\ Has(turns, x) => In(turns, x)
           /\ Has(queue, x) /\ In(queue, y) /\ y # x => Before(queue, x, y)
  <1>1. turns \in Seq(Callers) /\ queue \in Seq(Tasks)
    BY DEF TypeOK, Tasks
  <1> QED
    BY <1>1, HeadIs

LEMMA WaitsKept ==
    ASSUME TypeOK, TypeOK', WaitInv, NEW c \in Callers, Moved(c), Queued(c),
           RequestWaits(c)', Apart(c)', UNCHANGED <<stop, close>>, Onwards,
           client' \in {client, NoDriver} \/ close # "closing"
    PROVE  WaitInv'
  <1>1. ASSUME NEW x \in Callers
        PROVE  RequestWaits(x)'
    <2> SUFFICES ASSUME x # c PROVE RequestWaits(x)'
      OBVIOUS
    <2>1. /\ caller'[x] = caller[x] /\ (Has(turns, x) => Has(turns', x))
          /\ (In(turns', x) <=> In(turns, x)) /\ (In(queue', x) <=> In(queue, x))
      BY TasksDiffer DEF Moved, Queued
    <2>2. RequestWaits(x)
      BY DEF WaitInv
    <2>3. ASSUME NEW d \in Drivers, Before(queue', x, d)
          PROVE  ~Has(turns', x)
      <3>1. Before(queue, x, d)
        BY <2>3, TasksDiffer DEF Queued
      <3>2. In(queue, x) /\ ~Has(turns, x)
        BY <2>2, <3>1, BeforeIsIn DEF RequestWaits
      <3>3. ~In(turns, x)
        BY <2>2, <3>2 DEF RequestWaits, InBridge, At
      <3>4. turns' \in Seq(Callers)
        BY DEF Moved
      <3> QED
        BY <2>1, <3>3, <3>4, HeadIs
    <2>4. /\ In(queue', x) <=> InBridge(x)'
          /\ In(turns', x) => At(x, "turn")' \/ (InTurn(x)' /\ Has(turns', x))
          /\ At(x, "turn")' => In(turns', x)
      BY <2>1, <2>2 DEF RequestWaits, At, InBridge, InTurn
    <2>5. /\ caller'[x].step \in {"starting", "call"} =>
                /\ caller'[x].driver \in Drivers
                /\ stop'[caller'[x].driver] = "no" /\ proc'[caller'[x].driver] # "none"
          /\ At(x, "stop")' => caller'[x].driver \in Drivers /\ stop'[caller'[x].driver] # "no"
          /\ caller'[x].step \in {"replacing", "undoing"} =>
                caller'[x].driver \in Drivers /\ proc'[caller'[x].driver] \in {"ending", "dead"}
      BY <2>1, <2>2 DEF RequestWaits, At, Onwards, Gives
    <2> QED
      BY <2>3, <2>4, <2>5 DEF RequestWaits, Gives, At
  <1>2. ASSUME NEW d \in Drivers
        PROVE  StopWaits(d)'
    <2>1. StopWaits(d) /\ (In(queue', d) <=> In(queue, d))
      BY TasksDiffer DEF WaitInv, Queued
    <2> QED
      BY <2>1 DEF StopWaits, Onwards, Gives
  <1>3. CloseWaits'
    <2>1. CloseWaits /\ (In(queue', Closer) <=> In(queue, Closer))
      BY TasksDiffer DEF WaitInv, Queued
    <2>2. close = "closing" /\ client' # NoDriver => Gives(client) /\ client \in Drivers
            /\ client' = client
      BY <2>1 DEF CloseWaits, TypeOK
    <2> QED
      BY <2>1, <2>2 DEF CloseWaits, Onwards, Gives
  <1>4. StartsAnother'
    <2>1. \A x \in Callers \ {c} : caller'[x] = caller[x]
      BY DEF Moved
    <2>2. StartsAnother
      BY DEF WaitInv
    <2> QED
      BY <2>1, <2>2 DEF StartsAnother, Apart, At
  <1>5. Once(turns') /\ Once(queue')
    BY DEF Queued
  <1> QED
    BY <1>1, <1>2, <1>3, <1>4, <1>5 DEF WaitInv

(* How the queues of a step of c come about.                               *)
LEMMA QueuesMove ==
    ASSUME WaitInv, NEW c \in Callers,
           turns' = turns \/ Left(turns, turns', c) \/ Joined(turns, turns', c),
           queue' = queue \/ Left(queue, queue', c) \/ Joined(queue, queue', c)
    PROVE  Queued(c) /\ \A d \in Drivers : Before(queue', c, d) => Before(queue, c, d)
  <1>1. Once(turns) /\ Once(queue)
    BY DEF WaitInv
  <1>2. Once(turns') /\ \A x : x # c => (In(turns', x) <=> In(turns, x))
    BY <1>1 DEF Left, Joined
  <1>3. Once(queue') /\ \A x : x # c => (In(queue', x) <=> In(queue, x))
    BY <1>1 DEF Left, Joined
  <1>4. \A x, y : Before(queue', x, y) => Before(queue, x, y) \/ y = c
    BY DEF Left, Joined
  <1>5. \A d \in Drivers : d # c
    BY TasksDiffer
  <1> QED
    BY <1>2, <1>3, <1>4, <1>5 DEF Queued

LEMMA Leaves ==
    ASSUME TypeOK, WaitInv, NEW x
    PROVE  Left(turns, Without(turns, x), x) /\ Left(queue, Without(queue, x), x)
  <1>1. turns \in Seq(Callers) /\ queue \in Seq(Tasks) /\ Once(turns) /\ Once(queue)
    BY DEF TypeOK, Tasks, WaitInv
  <1> QED
    BY <1>1, WithoutIs

LEMMA Joins ==
    ASSUME TypeOK, WaitInv, NEW x \in Tasks
    PROVE  /\ x \in Callers /\ ~In(turns, x) => Joined(turns, Append(turns, x), x)
           /\ ~In(queue, x) => Joined(queue, Append(queue, x), x)
  <1>1. turns \in Seq(Callers) /\ queue \in Seq(Tasks) /\ Once(turns) /\ Once(queue)
    BY DEF TypeOK, Tasks, WaitInv
  <1> QED
    BY <1>1, AppendIs

(* A request that is answered waits for nothing, and nobody for it.        *)
LEMMA EndsWaits ==
    ASSUME IInv, IInv', WaitInv, NEW c \in Callers, Ends(c),
           UNCHANGED <<stop, close, proc>>,
           client' \in {client, NoDriver} \/ close # "closing"
    PROVE  WaitInv'
  <1>1. Moved(c) /\ caller'[c] = Idle
    BY EndsMoves DEF IInv
  <1>2. Left(turns, turns', c) /\ Left(queue, queue', c)
    BY Leaves DEF Ends, IInv
  <1>3. Queued(c)
    BY <1>2, QueuesMove
  <1>4. ~In(turns', c) /\ ~In(queue', c)
    BY <1>2 DEF Left
  <1>5. \A d \in Drivers : ~Before(queue', c, d)
    BY <1>4, BeforeIsIn
  <1>6. RequestWaits(c)' /\ Apart(c)'
    BY <1>1, <1>4, <1>5 DEF RequestWaits, Apart, At, InBridge, InTurn, Idle
  <1> QED
    BY <1>1, <1>3, <1>6, WaitsKept DEF IInv, Onwards, Gives

(* A step of c that touches no driver and neither calls nor starts one.    *)
LEMMA QuietWaits ==
    ASSUME IInv, IInv', WaitInv, NEW c \in Callers, Moved(c),
           turns' = turns \/ Left(turns, turns', c) \/ Joined(turns, turns', c),
           queue' = queue \/ Left(queue, queue', c) \/ Joined(queue, queue', c),
           UNCHANGED <<stop, close, proc>>,
           client' \in {client, NoDriver} \/ close # "closing",
           caller'[c].step \notin {"call", "starting"}, RequestWaits(c)'
    PROVE  WaitInv'
  <1>1. Queued(c)
    BY QueuesMove
  <1>2. Apart(c)'
    BY DEF Apart, At
  <1> QED
    BY <1>1, <1>2, WaitsKept DEF IInv, Onwards, Gives

LEMMA MovesOn ==
    ASSUME IInv, IInv', WaitInv, NEW c \in Callers,
           \A x \in Callers \ {c} : caller'[x] = caller[x],
           \/ turns' = turns \/ turns' = Without(turns, c)
           \/ turns' = Append(turns, c) /\ ~In(turns, c),
           \/ queue' = queue \/ queue' = Without(queue, c)
           \/ queue' = Append(queue, c) /\ ~In(queue, c)
    PROVE  /\ Moved(c)
           /\ turns' = turns \/ Left(turns, turns', c) \/ Joined(turns, turns', c)
           /\ queue' = queue \/ Left(queue, queue', c) \/ Joined(queue, queue', c)
  <1>1. /\ turns \in Seq(Callers) /\ queue \in Seq(Tasks) /\ c \in Tasks
        /\ caller' \in [Callers -> Caller]
    BY DEF IInv, TypeOK, Tasks
  <1>2. turns' \in Seq(Callers) /\ \A x \in Callers \ {c} : Has(turns, x) => Has(turns', x)
    <2>1. /\ Without(turns, c) \in Seq(Callers)
          /\ \A x : x # c /\ Has(turns, x) => Has(Without(turns, c), x)
      BY <1>1, WithoutFacts
    <2>2. /\ Append(turns, c) \in Seq(Callers)
          /\ \A x : Has(turns, x) => Has(Append(turns, c), x)
      BY <1>1, AppendFacts
    <2> QED
      BY <1>1, <2>1, <2>2
  <1>3. queue' \in Seq(Tasks) /\ \A x \in Tasks \ {c} : Has(queue, x) => Has(queue', x)
    <2>1. /\ Without(queue, c) \in Seq(Tasks)
          /\ \A x : x # c /\ Has(queue, x) => Has(Without(queue, c), x)
      BY <1>1, WithoutFacts
    <2>2. /\ Append(queue, c) \in Seq(Tasks)
          /\ \A x : Has(queue, x) => Has(Append(queue, c), x)
      BY <1>1, AppendFacts
    <2> QED
      BY <1>1, <2>1, <2>2
  <1>4. /\ turns' = turns \/ Left(turns, turns', c) \/ Joined(turns, turns', c)
        /\ queue' = queue \/ Left(queue, queue', c) \/ Joined(queue, queue', c)
    BY <1>1, Leaves, Joins DEF IInv
  <1> QED
    BY <1>1, <1>2, <1>3, <1>4 DEF Moved

LEMMA RequestLocks ==
    ASSUME IInv, IInv', WaitInv, NEW c \in Callers, NEW tool \in {"list", "act", "read"},
           Request(c, tool)
    PROVE  WaitInv'
  <1>1. /\ \A x \in Callers \ {c} : caller'[x] = caller[x]
        /\ caller'[c].step = "snapshot" /\ At(c, "idle")
    BY DEF IInv, TypeOK, Request, Idle
  <1>2. RequestWaits(c) /\ ~In(queue, c) /\ ~In(turns, c)
    BY <1>1 DEF WaitInv, RequestWaits, At, InBridge, InTurn
  <1>3. turns' = turns /\ queue' = Append(queue, c) /\ UNCHANGED <<stop, close, proc, client>>
    BY DEF Request, bridge
  <1>4. /\ Moved(c)
        /\ turns' = turns \/ Left(turns, turns', c) \/ Joined(turns, turns', c)
        /\ queue' = queue \/ Left(queue, queue', c) \/ Joined(queue, queue', c)
    BY <1>1, <1>2, <1>3, MovesOn
  <1>5. In(queue', c) /\ ~In(turns', c)
    BY <1>2, <1>3, Joins, TasksDiffer DEF Joined, IInv
  <1>6. \A d \in Drivers : ~Before(queue', c, d)
    BY <1>2, <1>4, QueuesMove, BeforeIsIn
  <1>7. RequestWaits(c)'
    BY <1>1, <1>5, <1>6 DEF RequestWaits, At, InBridge, InTurn
  <1> QED
    BY <1>1, <1>3, <1>4, <1>7, QuietWaits

LEMMA FirstLookLocks ==
    ASSUME IInv, IInv', WaitInv, NEW c \in Callers, FirstLook(c)
    PROVE  WaitInv'
  <1>1. CASE Ends(c)
    BY <1>1, EndsWaits DEF FirstLook, bridge
  <1>2. CASE /\ caller' = [caller EXCEPT ![c].step = "turn", ![c].changed = FALSE]
             /\ turns' = Append(turns, c) /\ UNCHANGED queue
    <2>1. /\ \A x \in Callers \ {c} : caller'[x] = caller[x]
          /\ caller'[c].step = "turn" /\ At(c, "look")
      BY <1>2 DEF IInv, TypeOK, Caller, FirstLook
    <2>2. RequestWaits(c) /\ ~In(queue, c) /\ ~In(turns, c)
      BY <2>1 DEF WaitInv, RequestWaits, At, InBridge, InTurn
    <2>3. UNCHANGED <<stop, close, proc, client>>
      BY DEF FirstLook, bridge
    <2>4. /\ Moved(c)
          /\ turns' = turns \/ Left(turns, turns', c) \/ Joined(turns, turns', c)
          /\ queue' = queue \/ Left(queue, queue', c) \/ Joined(queue, queue', c)
      BY <1>2, <2>1, <2>2, MovesOn
    <2>5. In(turns', c) /\ ~In(queue', c)
      BY <1>2, <2>2, Joins, TasksDiffer DEF Joined, IInv
    <2>6. \A d \in Drivers : ~Before(queue', c, d)
      BY <2>5, BeforeIsIn
    <2>7. RequestWaits(c)'
      BY <2>1, <2>5, <2>6 DEF RequestWaits, At, InBridge, InTurn
    <2> QED
      BY <2>1, <2>3, <2>4, <2>7, QuietWaits
  <1> QED
    BY <1>1, <1>2 DEF FirstLook

LEMMA TakeTurnLocks ==
    ASSUME IInv, IInv', WaitInv, NEW c \in Callers, TakeTurn(c)
    PROVE  WaitInv'
  <1>1. /\ \A x \in Callers \ {c} : caller'[x] = caller[x]
        /\ caller'[c].step = "ensure" /\ At(c, "turn") /\ Has(turns, c)
    BY DEF IInv, TypeOK, Caller, TakeTurn, Goes
  <1>2. RequestWaits(c) /\ ~In(queue, c)
    BY <1>1 DEF WaitInv, RequestWaits, At, InBridge, InTurn
  <1>3. turns' = turns /\ queue' = Append(queue, c) /\ UNCHANGED <<stop, close, proc, client>>
    BY DEF TakeTurn, bridge
  <1>4. /\ Moved(c)
        /\ turns' = turns \/ Left(turns, turns', c) \/ Joined(turns, turns', c)
        /\ queue' = queue \/ Left(queue, queue', c) \/ Joined(queue, queue', c)
    BY <1>1, <1>2, <1>3, MovesOn
  <1>5. In(queue', c)
    BY <1>2, <1>3, Joins, TasksDiffer DEF Joined, IInv
  <1>6. \A d \in Drivers : ~Before(queue', c, d)
    BY <1>2, <1>4, QueuesMove, BeforeIsIn
  <1>7. RequestWaits(c)'
    BY <1>1, <1>3, <1>5, <1>6 DEF RequestWaits, At, InBridge, InTurn
  <1> QED
    BY <1>1, <1>3, <1>4, <1>7, QuietWaits

(* A request that gets driver d.  The driver it calls is not to be stopped: *)
(* whatever is to stop it would have passed before it in the queue.        *)
LEMMA EnsuredLocks ==
    ASSUME IInv, IInv', WaitInv, NEW c \in Callers, NEW d \in Drivers, Ensured(c, d),
           caller[c].step \in {"snapshot", "ensure", "starting"},
           UNCHANGED <<stop, close, proc>>,
           client' \in {client, NoDriver} \/ close # "closing",
           Has(turns, c) => stop[d] = "no" /\ proc[d] # "none",
           \A x \in Callers \ {c} : ~At(x, "starting")
    PROVE  WaitInv'
  <1> DEFINE Queues == /\ turns' = turns \/ Left(turns, turns', c) \/ Joined(turns, turns', c)
                       /\ queue' = queue \/ Left(queue, queue', c) \/ Joined(queue, queue', c)
  <1>1. RequestWaits(c) /\ (~Has(turns, c) => ~In(turns, c)) /\ caller[c] \in Caller
        /\ caller \in [Callers -> Caller]
    BY DEF WaitInv, RequestWaits, At, IInv, TypeOK
  <1>2. /\ Left(queue, Without(queue, c), c)
        /\ ~In(turns, c) => Joined(turns, Append(turns, c), c)
    BY Leaves, Joins, TasksDiffer DEF IInv
  <1>3. ASSUME queue' = Without(queue, c)
        PROVE  ~In(queue', c) /\ \A e \in Drivers : ~Before(queue', c, e)
    BY <1>2, <1>3, BeforeIsIn DEF Left
  <1>4. CASE Has(turns, c)
    <2> DEFINE r == [caller[c] EXCEPT !.step = "call", !.driver = d]
    <2>1. r \in Caller /\ r.step = "call" /\ r.driver = d
      BY <1>1 DEF Caller, Step
    <2>2. caller' = [caller EXCEPT ![c] = r] /\ queue' = Without(queue, c) /\ turns' = turns
      BY <1>4 DEF Ensured
    <2> HIDE DEF r
    <2>3. caller'[c] = r /\ \A x \in Callers \ {c} : caller'[x] = caller[x]
      BY <2>1, <2>2, Becomes DEF IInv
    <2>4. Moved(c) /\ Queues
      BY <2>2, <2>3, MovesOn
    <2>5. Queued(c)
      BY <2>4, QueuesMove
    <2>6. RequestWaits(c)'
      BY <1>3, <1>4, <2>1, <2>2, <2>3 DEF RequestWaits, At, InBridge, InTurn
    <2>7. Apart(c)'
      BY <2>1, <2>3 DEF Apart, At
    <2> QED
      BY <2>4, <2>5, <2>6, <2>7, WaitsKept DEF IInv, Onwards, Gives
  <1>5. CASE ~Has(turns, c) /\ Ends(c)
    BY <1>5, EndsWaits
  <1>6. CASE /\ ~Has(turns, c) /\ Goes(c, "look")
             /\ queue' = Without(queue, c) /\ UNCHANGED turns
    <2>1. caller'[c].step = "look" /\ \A x \in Callers \ {c} : caller'[x] = caller[x]
      BY <1>6, GoesOn DEF IInv, Step
    <2>2. Moved(c) /\ Queues
      BY <1>6, <2>1, MovesOn
    <2>3. RequestWaits(c)'
      BY <1>1, <1>3, <1>6, <2>1 DEF RequestWaits, At, InBridge, InTurn
    <2> QED
      BY <2>1, <2>2, <2>3, QuietWaits
  <1>7. CASE /\ ~Has(turns, c) /\ Goes(c, "turn")
             /\ queue' = Without(queue, c) /\ turns' = Append(turns, c)
    <2>1. caller'[c].step = "turn" /\ \A x \in Callers \ {c} : caller'[x] = caller[x]
      BY <1>7, GoesOn DEF IInv, Step
    <2>2. Moved(c) /\ Queues
      BY <1>1, <1>7, <2>1, MovesOn
    <2>3. In(turns', c)
      BY <1>1, <1>2, <1>7 DEF Joined
    <2>4. RequestWaits(c)'
      BY <1>3, <1>7, <2>1, <2>3 DEF RequestWaits, At, InBridge, InTurn
    <2> QED
      BY <2>1, <2>2, <2>4, QuietWaits
  <1> QED
    BY <1>4, <1>5, <1>6, <1>7 DEF Ensured

LEMMA FoundLocks ==
    ASSUME IInv, IInv', WaitInv, NEW c \in Callers, Found(c)
    PROVE  WaitInv'
  <1>1. /\ client \in Drivers /\ Alive(client) /\ Ensured(c, client) /\ Has(queue, c)
        /\ caller[c].step \in {"snapshot", "ensure"} /\ client # c
    BY TasksDiffer DEF Found, Ensuring, IInv, TypeOK
  <1>2. UNCHANGED <<stop, close, proc, client>>
    BY DEF Found, bridge
  <1>3. \A x \in Callers : ~At(x, "starting")
    BY <1>1, DriversAreSome DEF IInv, BudgetInv
  <1>4. ASSUME Has(turns, c)
        PROVE  stop[client] = "no" /\ proc[client] # "none"
    <2>1. RequestWaits(c) /\ StopWaits(client)
      BY <1>1 DEF WaitInv
    <2>2. ~In(queue, client)
      BY <1>1, <1>4, <2>1, HasOne DEF RequestWaits, IInv
    <2>3. stop[client] \in {"no", "waiting", "closing"}
      BY <1>1 DEF IInv, TypeOK
    <2> QED
      BY <1>1, <2>1, <2>2, <2>3 DEF StopWaits, Alive, Gives
  <1> QED
    BY <1>1, <1>2, <1>3, <1>4, EnsuredLocks

LEMMA StartedLocks ==
    ASSUME IInv, IInv', WaitInv, NEW c \in Callers, Started(c)
    PROVE  WaitInv'
  <1> DEFINE d == caller[c].driver
  <1>1. At(c, "starting") /\ Ensured(c, d) /\ UNCHANGED <<stop, close, proc>>
    BY DEF Started
  <1>2. d \in Drivers /\ stop[d] = "no" /\ proc[d] # "none"
    BY <1>1 DEF WaitInv, RequestWaits, At
  <1>3. Has(queue, c) /\ \A x \in Callers : At(x, "starting") => Has(queue, x)
    BY <1>1 DEF IInv, TypeOK, At
  <1>4. \A x \in Callers \ {c} : ~At(x, "starting")
    BY <1>3, HasOne DEF IInv
  <1>5. close # "closing"
    BY <1>3, HasOne, TasksDiffer DEF IInv, TypeOK
  <1> QED
    BY <1>1, <1>2, <1>4, <1>5, EnsuredLocks DEF At

LEMMA ReplacesLocks ==
    ASSUME IInv, IInv', WaitInv, NEW c \in Callers, Replaces(c)
    PROVE  WaitInv'
  <1>1. /\ client \in Drivers /\ proc[client] \notin {"alive", "none"}
        /\ caller[c].step \in {"snapshot", "ensure"}
    BY DEF Replaces, Ensuring, Alive, IInv, TypeOK, BudgetInv, Latest
  <1>2. Gives(client)
    BY <1>1 DEF Gives, IInv, TypeOK
  <1>3. /\ \A x \in Callers \ {c} : caller'[x] = caller[x]
        /\ caller'[c].step = "replacing" /\ caller'[c].driver = client
    BY DEF Replaces, IInv, TypeOK, Caller
  <1>4. UNCHANGED <<turns, queue, stop, close, proc>> /\ client' = NoDriver
    BY DEF Replaces, locks
  <1>5. RequestWaits(c)
    BY DEF WaitInv
  <1>6. RequestWaits(c)'
    BY <1>1, <1>2, <1>3, <1>4, <1>5
    DEF RequestWaits, At, InBridge, InTurn, Gives, IInv, TypeOK
  <1>7. Moved(c)
    BY <1>3, <1>4, MovesOn
  <1> QED
    BY <1>3, <1>4, <1>6, <1>7, QuietWaits

LEMMA ReplacedLocks ==
    ASSUME IInv, IInv', WaitInv, NEW c \in Callers, Replaced(c)
    PROVE  WaitInv'
  <1>1. /\ At(c, "replacing")
        /\ \A x \in Callers \ {c} : caller'[x] = caller[x]
        /\ caller'[c].step = IF Has(turns, c) THEN "ensure" ELSE "snapshot"
    BY DEF Replaced, IInv, TypeOK, Caller
  <1>2. UNCHANGED <<turns, queue, stop, close, proc, client>>
    BY DEF Replaced, locks, bridge
  <1>3. RequestWaits(c)
    BY DEF WaitInv
  <1>4. RequestWaits(c)'
    BY <1>1, <1>2, <1>3 DEF RequestWaits, At, InBridge, InTurn
  <1>5. Moved(c)
    BY <1>1, <1>2, MovesOn
  <1> QED
    BY <1>1, <1>2, <1>4, <1>5, QuietWaits

(* No driver that was never started is to be stopped, or is called.        *)
LEMMA StartsLocks ==
    ASSUME IInv, IInv', WaitInv, NEW c \in Callers, Starts(c)
    PROVE  WaitInv'
  <1>1. PICK d \in Drivers :
          /\ proc[d] = "none" /\ proc' = [proc EXCEPT ![d] = "alive"]
          /\ caller' = [caller EXCEPT ![c].step = "starting", ![c].driver = d]
    BY DEF Starts
  <1>2. /\ \A x \in Callers \ {c} : caller'[x] = caller[x]
        /\ caller'[c].step = "starting" /\ caller'[c].driver = d
    BY <1>1 DEF IInv, TypeOK, Caller
  <1>3. /\ proc'[d] = "alive" /\ \A e \in Drivers : e # d => proc'[e] = proc[e]
    BY <1>1 DEF IInv, TypeOK
  <1>4. UNCHANGED <<turns, queue, stop, close, client>> /\ caller[c].step \in {"snapshot", "ensure"}
    BY DEF Starts, locks, Ensuring
  <1>5. RequestWaits(c) /\ stop[d] = "no"
    BY <1>1 DEF WaitInv, StopWaits
  <1>6. RequestWaits(c)'
    BY <1>2, <1>3, <1>4, <1>5 DEF RequestWaits, At, InBridge, InTurn
  <1>7. Moved(c)
    BY <1>2, <1>4, MovesOn
  <1>8. Queued(c)
    BY <1>4, QueuesMove
  <1>9. Apart(c)'
    <2>1. \A x \in Callers \ {c} : At(x, "call") => caller[x].driver # d
      BY <1>1 DEF WaitInv, RequestWaits, At
    <2> QED
      BY <1>2, <2>1 DEF Apart, At
  <1>10. Onwards
    BY <1>1, <1>3 DEF Onwards, Gives
  <1> QED
    BY <1>4, <1>6, <1>7, <1>8, <1>9, <1>10, WaitsKept DEF IInv

LEMMA ToldOnwards ==
    ASSUME IInv, NEW d \in Drivers, Told(d)
    PROVE  Onwards /\ (proc[d] # "none" => proc'[d] \in {"ending", "dead"})
  <1>1. /\ proc'[d] = IF proc[d] = "alive" THEN "ending" ELSE proc[d]
        /\ \A e \in Drivers : e # d => proc'[e] = proc[e]
        /\ proc[d] \in {"none", "alive", "ending", "dead"}
    BY DEF IInv, TypeOK, Told
  <1> QED
    BY <1>1 DEF Onwards, Gives

LEMMA StartFailsLocks ==
    ASSUME IInv, IInv', WaitInv, NEW c \in Callers, StartFails(c)
    PROVE  WaitInv'
  <1> DEFINE d == caller[c].driver
  <1>1. At(c, "starting") /\ UNCHANGED <<turns, queue, stop, close, client>> /\ Told(d)
    BY DEF StartFails, locks, bridge
  <1>2. RequestWaits(c)
    BY DEF WaitInv
  <1>3. d \in Drivers /\ proc[d] # "none"
    BY <1>1, <1>2 DEF RequestWaits, At
  <1>4. Onwards /\ proc'[d] \in {"ending", "dead"}
    <2>1. ASSUME NEW e \in Drivers, Told(e), proc[e] # "none"
          PROVE  Onwards /\ proc'[e] \in {"ending", "dead"}
      BY <2>1, ToldOnwards
    <2> QED
      BY <1>1, <1>3, <2>1
  <1>5. /\ \A x \in Callers \ {c} : caller'[x] = caller[x]
        /\ caller'[c].step = "undoing" /\ caller'[c].driver = d
    BY GoesOn DEF StartFails, IInv, Step
  <1>6. RequestWaits(c)'
    BY <1>1, <1>2, <1>3, <1>4, <1>5 DEF RequestWaits, At, InBridge, InTurn, Gives
  <1>7. Moved(c)
    BY <1>1, <1>5, MovesOn
  <1>8. Queued(c)
    BY <1>1, QueuesMove
  <1>9. Apart(c)'
    BY <1>5 DEF Apart, At
  <1> QED
    BY <1>1, <1>4, <1>6, <1>7, <1>8, <1>9, WaitsKept DEF IInv

(* A request that is answered, or has given up.                            *)
LEMMA GiveUpLocks ==
    ASSUME IInv, IInv', WaitInv, NEW c \in Callers,
           TurnTimesOut(c) \/ Refused(c) \/ Undone(c) \/ CallFails(c) \/ Stopped(c)
    PROVE  WaitInv'
  <1>1. Ends(c) /\ UNCHANGED <<stop, close, proc, client>>
    BY DEF TurnTimesOut, Refused, Undone, CallFails, Stopped, bridge
  <1> QED
    BY <1>1, EndsWaits

LEMMA ReadsLocks ==
    ASSUME IInv, IInv', WaitInv, NEW c \in Callers, Reads(c)
    PROVE  WaitInv'
  <1>1. /\ \A x \in Callers \ {c} : caller'[x] = caller[x]
        /\ caller'[c].step = caller[c].step /\ caller'[c].driver = caller[c].driver
    BY DEF Reads, IInv, TypeOK, Caller
  <1>2. UNCHANGED <<turns, queue, stop, close, proc, client>>
    BY DEF Reads, locks, bridge
  <1>3. RequestWaits(c) /\ Apart(c)
    BY DEF WaitInv, StartsAnother, Apart
  <1>4. RequestWaits(c)'
    BY <1>1, <1>2, <1>3 DEF RequestWaits, At, InBridge, InTurn, Gives
  <1>5. Apart(c)'
    BY <1>1, <1>3 DEF Apart, At
  <1>6. Moved(c)
    BY <1>1, <1>2, MovesOn
  <1>7. Queued(c)
    BY <1>2, QueuesMove
  <1> QED
    BY <1>2, <1>4, <1>5, <1>6, <1>7, WaitsKept DEF IInv, Onwards, Gives

LEMMA AnsweredLocks ==
    ASSUME IInv, IInv', WaitInv, NEW c \in Callers, Answered(c)
    PROVE  WaitInv'
  <1>1. At(c, "call") /\ UNCHANGED <<stop, close, proc, client>>
    BY DEF Answered, bridge
  <1>2. CASE Ends(c)
    BY <1>1, <1>2, EndsWaits
  <1>3. CASE Goes(c, "look again") /\ turns' = Without(turns, c) /\ UNCHANGED queue
    <2>1. /\ caller'[c].step = "look again" /\ \A x \in Callers \ {c} : caller'[x] = caller[x]
      BY <1>3, GoesOn DEF IInv, Step
    <2>2. /\ Moved(c)
          /\ turns' = turns \/ Left(turns, turns', c) \/ Joined(turns, turns', c)
          /\ queue' = queue \/ Left(queue, queue', c) \/ Joined(queue, queue', c)
      BY <1>3, <2>1, MovesOn
    <2>3. ~In(turns', c)
      BY <1>3, Leaves DEF Left, IInv
    <2>4. ~In(queue', c)
      BY <1>1, <1>3 DEF WaitInv, RequestWaits, InBridge, At
    <2>5. \A d \in Drivers : ~Before(queue', c, d)
      BY <2>4, BeforeIsIn
    <2>6. RequestWaits(c)'
      BY <2>1, <2>3, <2>4, <2>5 DEF RequestWaits, At, InBridge, InTurn
    <2> QED
      BY <1>1, <2>1, <2>2, <2>6, QuietWaits
  <1> QED
    BY <1>2, <1>3 DEF Answered

LEMMA SecondLookLocks ==
    ASSUME IInv, IInv', WaitInv, NEW c \in Callers, SecondLook(c)
    PROVE  WaitInv'
  <1>1. /\ \A x \in Callers \ {c} : caller'[x] = caller[x]
        /\ caller'[c].step = "idle" /\ At(c, "look again")
    BY DEF SecondLook, IInv, TypeOK, Idle
  <1>2. UNCHANGED <<turns, queue, stop, close, proc, client>>
    BY DEF SecondLook, locks, bridge
  <1>3. RequestWaits(c)
    BY DEF WaitInv
  <1>4. ~In(turns', c) /\ ~In(queue', c)
    BY <1>1, <1>2, <1>3 DEF RequestWaits, At, InBridge, InTurn
  <1>5. \A d \in Drivers : ~Before(queue', c, d)
    BY <1>4, BeforeIsIn
  <1>6. RequestWaits(c)'
    BY <1>1, <1>4, <1>5 DEF RequestWaits, At, InBridge, InTurn
  <1>7. Moved(c)
    BY <1>1, <1>2, MovesOn
  <1> QED
    BY <1>1, <1>2, <1>6, <1>7, QuietWaits

-----------------------------------------------------------------------------
(* Steps that add or take a task of another kind *)

(* A step that leaves the requests where they are, and the queues to them. *)
LEMMA OthersWait ==
    ASSUME IInv, IInv', WaitInv,
           \A x \in Callers : /\ caller'[x].step = caller[x].step
                              /\ caller'[x].driver = caller[x].driver,
           turns' = turns, Onwards,
           \A x \in Callers : In(queue', x) <=> In(queue, x),
           \A x \in Callers, d \in Drivers : Before(queue', x, d) => Before(queue, x, d),
           \A d \in Drivers : stop'[d] = "no" <=> stop[d] = "no"
    PROVE  Once(turns') /\ (\A x \in Callers : RequestWaits(x)') /\ StartsAnother'
  <1>1. ASSUME NEW x \in Callers
        PROVE  RequestWaits(x)'
    <2>1. RequestWaits(x) /\ caller'[x].step = caller[x].step
            /\ caller'[x].driver = caller[x].driver
      BY DEF WaitInv
    <2>2. /\ In(queue', x) <=> InBridge(x)'
          /\ In(turns', x) => At(x, "turn")' \/ (InTurn(x)' /\ Has(turns', x))
          /\ At(x, "turn")' => In(turns', x)
      BY <2>1 DEF RequestWaits, At, InBridge, InTurn
    <2>3. \A d \in Drivers : Before(queue', x, d) => ~Has(turns', x)
      BY <2>1 DEF RequestWaits
    <2>4. /\ caller'[x].step \in {"starting", "call"} =>
                /\ caller'[x].driver \in Drivers
                /\ stop'[caller'[x].driver] = "no" /\ proc'[caller'[x].driver] # "none"
          /\ At(x, "stop")' => caller'[x].driver \in Drivers /\ stop'[caller'[x].driver] # "no"
          /\ caller'[x].step \in {"replacing", "undoing"} =>
                caller'[x].driver \in Drivers /\ proc'[caller'[x].driver] \in {"ending", "dead"}
      BY <2>1 DEF RequestWaits, At, Onwards, Gives
    <2> QED
      BY <2>2, <2>3, <2>4 DEF RequestWaits, Gives, At
  <1>2. StartsAnother'
    BY DEF WaitInv, StartsAnother, At
  <1> QED
    BY <1>1, <1>2 DEF WaitInv

(* The task that is to stop a driver takes it.                             *)
LEMMA StopTakesLocks ==
    ASSUME IInv, IInv', WaitInv, NEW d \in Drivers, StopTakes(d)
    PROVE  WaitInv'
  <1>1. /\ stop[d] = "waiting" /\ Has(queue, d) /\ queue' = Tail(queue)
        /\ Told(d) /\ UNCHANGED <<caller, turns, close>> /\ client' \in {client, NoDriver}
    BY DEF StopTakes
  <1>2. stop'[d] = "closing" /\ \A e \in Drivers : e # d => stop'[e] = stop[e]
    BY DEF StopTakes, IInv, TypeOK
  <1>3. Left(queue, queue', d)
    <2>1. queue \in Seq(Tasks) /\ Once(queue)
      BY DEF IInv, TypeOK, Tasks, WaitInv
    <2> QED
      BY <1>1, <2>1, TailIs
  <1>4. /\ Once(queue') /\ ~In(queue', d)
        /\ \A x \in Tasks : x # d => (In(queue', x) <=> In(queue, x))
        /\ \A x, y : Before(queue', x, y) => Before(queue, x, y)
    BY <1>3 DEF Left
  <1>5. \A x \in Callers : x # d /\ x \in Tasks
    BY TasksDiffer
  <1>6. proc[d] # "none"
    BY <1>1 DEF WaitInv, StopWaits
  <1>7. Onwards /\ proc'[d] \in {"ending", "dead"}
    BY <1>1, <1>6, ToldOnwards
  <1>8. Once(turns') /\ (\A x \in Callers : RequestWaits(x)') /\ StartsAnother'
    BY <1>1, <1>2, <1>4, <1>5, <1>7, OthersWait
  <1>9. ASSUME NEW e \in Drivers
        PROVE  StopWaits(e)'
    <2>1. CASE e = d
      BY <1>2, <1>4, <1>7, <2>1 DEF StopWaits, Gives
    <2>2. CASE e # d
      <3>1. StopWaits(e) /\ (In(queue', e) <=> In(queue, e))
        BY <1>4, <2>2, TasksDiffer DEF WaitInv
      <3> QED
        BY <1>2, <1>7, <2>2, <3>1 DEF StopWaits, Onwards, Gives
    <2> QED
      BY <2>1, <2>2
  <1>10. CloseWaits'
    <2>1. CloseWaits /\ (In(queue', Closer) <=> In(queue, Closer))
      BY <1>4, TasksDiffer DEF WaitInv
    <2>2. client' # NoDriver => client' = client /\ client \in Drivers
      BY <1>1 DEF IInv, TypeOK
    <2> QED
      BY <1>1, <1>7, <2>1, <2>2 DEF CloseWaits, Onwards, Gives
  <1> QED
    BY <1>4, <1>8, <1>9, <1>10 DEF WaitInv

(* A call that overran: its driver is not called by, nor started for,      *)
(* another request, and no other that has the turn is in the queue.        *)
LEMMA OverrunsLocks ==
    ASSUME IInv, IInv', WaitInv, NEW c \in Callers, Overruns(c)
    PROVE  WaitInv'
  <1>1. PICK d \in Drivers : d = caller[c].driver
    BY DEF Overruns, WaitInv, RequestWaits, At
  <1>2. /\ At(c, "call") /\ queue' = Append(queue, d) /\ Has(turns, c)
        /\ UNCHANGED <<turns, proc, close, client>>
    BY <1>1 DEF Overruns, bridge, IInv, TypeOK, At
  <1>3. stop'[d] = "waiting" /\ \A e \in Drivers : e # d => stop'[e] = stop[e]
    BY <1>1 DEF Overruns, IInv, TypeOK
  <1>4. /\ \A x \in Callers \ {c} : caller'[x] = caller[x]
        /\ caller'[c].step = "stop" /\ caller'[c].driver = d
    BY <1>1, GoesOn DEF Overruns, IInv, Step
  <1>5. RequestWaits(c) /\ stop[d] = "no" /\ proc[d] # "none" /\ ~In(queue, c)
    BY <1>1, <1>2 DEF WaitInv, RequestWaits, At, InBridge
  <1>6. ~In(queue, d)
    BY <1>5 DEF WaitInv, StopWaits
  <1>7. Joined(queue, queue', d)
    BY <1>2, <1>6, Joins, TasksDiffer DEF IInv
  <1>8. /\ Once(queue') /\ In(queue', d)
        /\ \A x \in Tasks : x # d => (In(queue', x) <=> In(queue, x))
        /\ \A x, y : Before(queue', x, y) => Before(queue, x, y) \/ (y = d /\ In(queue, x))
    BY <1>7 DEF Joined
  <1>9. ASSUME NEW x \in Callers
        PROVE  RequestWaits(x)'
    <2>1. /\ RequestWaits(x) /\ x # d /\ x \in Tasks /\ (In(queue', x) <=> In(queue, x))
      BY <1>8, TasksDiffer DEF WaitInv
    <2>2. ASSUME NEW e \in Drivers, Before(queue', x, e)
          PROVE  ~Has(turns', x)
      <3>1. CASE Before(queue, x, e)
        BY <1>2, <2>1, <3>1 DEF RequestWaits
      <3>2. CASE In(queue, x)
        BY <1>2, <1>5, <3>2, HasOne DEF IInv
      <3> QED
        BY <1>8, <2>2, <3>1, <3>2
    <2>3. CASE x = c
      BY <1>2, <1>3, <1>4, <1>5, <2>1, <2>2, <2>3 DEF RequestWaits, At, InBridge, InTurn
    <2>4. CASE x # c
      <3>1. caller'[x] = caller[x]
        BY <1>4, <2>4
      <3>2. caller[x].step \in {"starting", "call"} => caller[x].driver # d
        <4>1. At(x, "call") => Has(turns, x)
          BY DEF IInv, TypeOK, At
        <4>2. ~At(x, "call")
          BY <1>2, <2>4, <4>1, HasOne DEF IInv
        <4> QED
          BY <1>1, <1>2, <4>2 DEF WaitInv, StartsAnother, At
      <3>3. /\ In(queue', x) <=> InBridge(x)'
            /\ In(turns', x) => At(x, "turn")' \/ (InTurn(x)' /\ Has(turns', x))
            /\ At(x, "turn")' => In(turns', x)
        BY <1>2, <2>1, <3>1 DEF RequestWaits, At, InBridge, InTurn
      <3>4. /\ caller'[x].step \in {"starting", "call"} =>
                  /\ caller'[x].driver \in Drivers
                  /\ stop'[caller'[x].driver] = "no" /\ proc'[caller'[x].driver] # "none"
            /\ At(x, "stop")' => caller'[x].driver \in Drivers /\ stop'[caller'[x].driver] # "no"
            /\ caller'[x].step \in {"replacing", "undoing"} =>
                  caller'[x].driver \in Drivers /\ proc'[caller'[x].driver] \in {"ending", "dead"}
        BY <1>2, <1>3, <2>1, <3>1, <3>2 DEF RequestWaits, At, Gives
      <3> QED
        BY <2>2, <3>3, <3>4 DEF RequestWaits, Gives, At
    <2> QED
      BY <2>3, <2>4
  <1>10. ASSUME NEW e \in Drivers
         PROVE  StopWaits(e)'
    <2>1. CASE e = d
      BY <1>2, <1>3, <1>5, <1>8, <2>1 DEF StopWaits, Gives
    <2>2. CASE e # d
      <3>1. StopWaits(e) /\ (In(queue', e) <=> In(queue, e))
        BY <1>8, <2>2, TasksDiffer DEF WaitInv
      <3> QED
        BY <1>2, <1>3, <2>2, <3>1 DEF StopWaits, Gives
    <2> QED
      BY <2>1, <2>2
  <1>11. CloseWaits'
    <2>1. CloseWaits /\ (In(queue', Closer) <=> In(queue, Closer))
      BY <1>8, TasksDiffer DEF WaitInv
    <2> QED
      BY <1>2, <2>1 DEF CloseWaits, Gives
  <1>12. StartsAnother'
    BY <1>4 DEF WaitInv, StartsAnother, At
  <1> QED
    BY <1>2, <1>8, <1>9, <1>10, <1>11, <1>12 DEF WaitInv

LEMMA CancelLocks ==
    ASSUME IInv, IInv', WaitInv, NEW c \in Callers, Cancel(c)
    PROVE  WaitInv'
  <1>1. CASE At(c, "call")
    BY <1>1, OverrunsLocks DEF Cancel
  <1>2. CASE ~At(c, "call") /\ At(c, "starting")
    BY <1>2, StartFailsLocks DEF Cancel
  <1>3. CASE ~At(c, "call") /\ ~At(c, "starting")
    BY <1>3, EndsWaits DEF Cancel, bridge
  <1> QED
    BY <1>1, <1>2, <1>3

(* A driver's end.                                                         *)
LEMMA EndLocks ==
    ASSUME IInv, IInv', WaitInv, NEW d \in Drivers, Fails(d) \/ Gone(d)
    PROVE  WaitInv'
  <1>1. UNCHANGED <<caller, turns, queue, stop, close, client>>
    BY DEF Fails, Gone, locks, bridge
  <1>2. Onwards
    <2>1. /\ proc[d] \in {"alive", "ending"} /\ proc'[d] \in {"ending", "dead"}
          /\ \A e \in Drivers : e # d => proc'[e] = proc[e]
      BY DEF Fails, Gone, IInv, TypeOK
    <2> QED
      BY <2>1 DEF Onwards, Gives
  <1>3. Once(turns') /\ (\A x \in Callers : RequestWaits(x)') /\ StartsAnother'
    BY <1>1, <1>2, OthersWait
  <1>4. \A e \in Drivers : StopWaits(e)'
    BY <1>1, <1>2 DEF WaitInv, StopWaits, Onwards, Gives
  <1>5. CloseWaits'
    BY <1>1, <1>2 DEF WaitInv, CloseWaits, Onwards, Gives, IInv, TypeOK
  <1> QED
    BY <1>1, <1>3, <1>4, <1>5 DEF WaitInv

(* The bridge is closed: asked for once, it waits behind the others.       *)
LEMMA CloseAskedLocks ==
    ASSUME IInv, IInv', WaitInv, CloseAsked
    PROVE  WaitInv'
  <1>1. /\ close = "no" /\ close' = "waiting" /\ queue' = Append(queue, Closer)
        /\ UNCHANGED <<caller, turns, proc, stop, client>>
    BY DEF CloseAsked, bridge
  <1>2. ~In(queue, Closer)
    BY <1>1 DEF WaitInv, CloseWaits
  <1>3. Joined(queue, queue', Closer)
    BY <1>1, <1>2, Joins, TasksDiffer DEF IInv
  <1>4. /\ Once(queue') /\ In(queue', Closer)
        /\ \A x \in Tasks : x # Closer => (In(queue', x) <=> In(queue, x))
        /\ \A x, y : Before(queue', x, y) => Before(queue, x, y) \/ y = Closer
    BY <1>3 DEF Joined
  <1>5. \A x \in Callers \cup Drivers : x # Closer /\ x \in Tasks
    BY TasksDiffer
  <1>6. Onwards
    BY <1>1 DEF Onwards, Gives
  <1>7. Once(turns') /\ (\A x \in Callers : RequestWaits(x)') /\ StartsAnother'
    BY <1>1, <1>4, <1>5, <1>6, OthersWait
  <1>8. \A d \in Drivers : StopWaits(d)'
    BY <1>1, <1>4, <1>5 DEF WaitInv, StopWaits, Gives
  <1>9. CloseWaits'
    BY <1>1, <1>4 DEF CloseWaits
  <1> QED
    BY <1>4, <1>7, <1>8, <1>9 DEF WaitInv

LEMMA CloseTakesLocks ==
    ASSUME IInv, IInv', WaitInv, CloseTakes
    PROVE  WaitInv'
  <1>1. /\ close = "waiting" /\ close' = "closing"
        /\ UNCHANGED <<caller, turns, queue, stop, client>>
    BY DEF CloseTakes, locks, bridge
  <1>2. Onwards /\ (client # NoDriver => proc'[client] \in {"ending", "dead"})
    <2>1. CASE client = NoDriver
      BY <2>1 DEF CloseTakes, Onwards, Gives
    <2>2. CASE client # NoDriver
      <3>1. client \in Drivers /\ proc[client] # "none" /\ Told(client)
        BY <2>2 DEF CloseTakes, IInv, TypeOK, BudgetInv, Latest
      <3>2. ASSUME NEW d \in Drivers, Told(d), proc[d] # "none"
            PROVE  Onwards /\ proc'[d] \in {"ending", "dead"}
        BY <3>2, ToldOnwards
      <3> QED
        BY <3>1, <3>2
    <2> QED
      BY <2>1, <2>2
  <1>3. Once(turns') /\ (\A x \in Callers : RequestWaits(x)') /\ StartsAnother'
    BY <1>1, <1>2, OthersWait
  <1>4. \A d \in Drivers : StopWaits(d)'
    BY <1>1, <1>2 DEF WaitInv, StopWaits, Onwards, Gives
  <1>5. CloseWaits'
    BY <1>1, <1>2 DEF WaitInv, CloseWaits, Gives
  <1> QED
    BY <1>1, <1>3, <1>4, <1>5 DEF WaitInv

LEMMA CloseEndsLocks ==
    ASSUME IInv, IInv', WaitInv, CloseEnds
    PROVE  WaitInv'
  <1>1. /\ close = "closing" /\ close' = "done" /\ queue' = Tail(queue)
        /\ UNCHANGED <<caller, turns, proc, stop>> /\ client' = NoDriver
    BY DEF CloseEnds
  <1>2. Left(queue, queue', Closer)
    <2>1. queue \in Seq(Tasks) /\ Once(queue) /\ Has(queue, Closer)
      BY <1>1 DEF IInv, TypeOK, Tasks, WaitInv
    <2> QED
      BY <1>1, <2>1, TailIs
  <1>3. /\ Once(queue') /\ ~In(queue', Closer)
        /\ \A x \in Tasks : x # Closer => (In(queue', x) <=> In(queue, x))
        /\ \A x, y : Before(queue', x, y) => Before(queue, x, y)
    BY <1>2 DEF Left
  <1>4. \A x \in Callers \cup Drivers : x # Closer /\ x \in Tasks
    BY TasksDiffer
  <1>5. Onwards
    BY <1>1 DEF Onwards, Gives
  <1>6. Once(turns') /\ (\A x \in Callers : RequestWaits(x)') /\ StartsAnother'
    BY <1>1, <1>3, <1>4, <1>5, OthersWait
  <1>7. \A d \in Drivers : StopWaits(d)'
    BY <1>1, <1>3, <1>4 DEF WaitInv, StopWaits, Gives
  <1>8. CloseWaits'
    BY <1>1, <1>3 DEF CloseWaits
  <1> QED
    BY <1>3, <1>6, <1>7, <1>8 DEF WaitInv

(* Somebody copies something, time passes, or nothing happens.             *)
LEMMA QuietLocks ==
    ASSUME IInv, IInv', WaitInv, Copy \/ WindowPasses \/ UNCHANGED vars
    PROVE  WaitInv'
  <1>1. UNCHANGED <<turns, queue, proc, stop, client, close>>
    BY DEF Copy, WindowPasses, vars, locks, bridge
  <1>2. \A x \in Callers : caller'[x].step = caller[x].step /\ caller'[x].driver = caller[x].driver
    <2>1. CASE caller' = caller
      BY <2>1
    <2>2. CASE Copy
      BY <2>2 DEF Copy, IInv, TypeOK, Caller
    <2> QED
      BY <2>1, <2>2 DEF WindowPasses, vars
  <1>3. Onwards
    BY <1>1 DEF Onwards, Gives
  <1>4. Once(turns') /\ (\A x \in Callers : RequestWaits(x)') /\ StartsAnother'
    BY <1>1, <1>2, <1>3, OthersWait
  <1>5. (\A d \in Drivers : StopWaits(d)') /\ CloseWaits'
    BY <1>1 DEF WaitInv, StopWaits, CloseWaits, Gives
  <1> QED
    BY <1>1, <1>4, <1>5 DEF WaitInv

LEMMA LocksStart == Init => WaitInv
  <1> SUFFICES ASSUME Init PROVE WaitInv
    OBVIOUS
  <1>1. \A x, y : ~In(turns, x) /\ ~In(queue, x) /\ ~Before(queue, x, y) /\ ~Has(turns, x)
    BY DEF Init, In, Before, Has
  <1>2. Once(turns) /\ Once(queue)
    BY DEF Init, Once
  <1>3. \A c \in Callers : caller[c].step = "idle"
    BY DEF Init, Idle
  <1>4. \A c \in Callers : RequestWaits(c)
    BY <1>1, <1>3 DEF RequestWaits, At, InBridge, InTurn
  <1>5. (\A d \in Drivers : StopWaits(d)) /\ CloseWaits
    BY <1>1 DEF Init, StopWaits, CloseWaits
  <1>6. StartsAnother
    BY <1>3 DEF StartsAnother, At
  <1> QED
    BY <1>2, <1>4, <1>5, <1>6 DEF WaitInv

LEMMA LocksKept == IInv /\ IInv' /\ WaitInv /\ [Next]_vars => WaitInv'
  <1> SUFFICES ASSUME IInv, IInv', WaitInv, [Next]_vars
               PROVE  WaitInv'
    OBVIOUS
  <1>1. ASSUME NEW c \in Callers, NEW tool \in {"list", "act", "read"}, Request(c, tool)
        PROVE  WaitInv'
    BY <1>1, RequestLocks
  <1>2. ASSUME NEW c \in Callers, FirstLook(c) \/ TakeTurn(c) \/ TurnTimesOut(c)
        PROVE  WaitInv'
    BY <1>2, FirstLookLocks, TakeTurnLocks, GiveUpLocks
  <1>3. ASSUME NEW c \in Callers, Found(c) \/ Replaces(c) \/ Replaced(c) \/ Refused(c)
        PROVE  WaitInv'
    BY <1>3, FoundLocks, ReplacesLocks, ReplacedLocks, GiveUpLocks
  <1>4. ASSUME NEW c \in Callers, Starts(c) \/ Started(c) \/ StartFails(c) \/ Undone(c)
        PROVE  WaitInv'
    BY <1>4, StartsLocks, StartedLocks, StartFailsLocks, GiveUpLocks
  <1>5. ASSUME NEW c \in Callers, Reads(c) \/ Answered(c) \/ SecondLook(c) \/ CallFails(c)
        PROVE  WaitInv'
    BY <1>5, ReadsLocks, AnsweredLocks, SecondLookLocks, GiveUpLocks
  <1>6. ASSUME NEW c \in Callers, Overruns(c) \/ Stopped(c) \/ Cancel(c)
        PROVE  WaitInv'
    BY <1>6, OverrunsLocks, GiveUpLocks, CancelLocks
  <1>7. ASSUME NEW d \in Drivers, StopTakes(d) \/ Fails(d) \/ Gone(d)
        PROVE  WaitInv'
    BY <1>7, StopTakesLocks, EndLocks
  <1>8. CASE CloseAsked \/ CloseTakes \/ CloseEnds
    BY <1>8, CloseAskedLocks, CloseTakesLocks, CloseEndsLocks
  <1>9. CASE Copy \/ WindowPasses \/ UNCHANGED vars
    BY <1>9, QuietLocks
  <1> QED
    BY <1>1, <1>2, <1>3, <1>4, <1>5, <1>6, <1>7, <1>8, <1>9 DEF Next

LEMMA LocksMove ==
    ASSUME IInv, WaitInv
    PROVE  LocksMoveOn
  <1>1. ASSUME queue # <<>>
        PROVE  \/ \E c \in Callers : Ensuring(c) \/ (At(c, "starting") /\ Has(queue, c))
               \/ \E c \in Callers : /\ Has(queue, c) /\ caller[c].step \in {"replacing", "undoing"}
                                     /\ Gives(caller[c].driver)
               \/ \E d \in Drivers : Has(queue, d) /\ stop[d] = "waiting"
               \/ /\ Has(queue, Closer)
                  /\ \/ close = "waiting"
                     \/ close = "closing" /\ (client # NoDriver => Gives(client))
    <2>1. PICK x \in Tasks : Has(queue, x) /\ In(queue, x)
      <3>1. queue \in Seq(Tasks)
        BY DEF IInv, TypeOK, Tasks
      <3>2. Head(queue) \in Tasks /\ Has(queue, Head(queue))
        BY <1>1, <3>1 DEF Has
      <3> QED
        BY <3>2, HasOne DEF IInv
    <2>2. CASE x \in Callers
      BY <2>1, <2>2 DEF WaitInv, RequestWaits, InBridge, Ensuring, At
    <2>3. CASE x \in Drivers
      BY <2>1, <2>3 DEF WaitInv, StopWaits
    <2>4. CASE x = Closer
      BY <2>1, <2>4 DEF WaitInv, CloseWaits
    <2> QED
      BY <2>2, <2>3, <2>4 DEF Tasks
  <1>2. ASSUME turns # <<>>
        PROVE  \E c \in Callers :
                  /\ Has(turns, c)
                  /\ \/ caller[c].step \in {"turn", "call"} \/ In(queue, c)
                     \/ /\ At(c, "stop")
                        /\ \/ In(queue, caller[c].driver)
                           \/ stop[caller[c].driver] = "closing" /\ Gives(caller[c].driver)
    <2>1. PICK c \in Callers : Has(turns, c) /\ In(turns, c)
      <3>1. turns \in Seq(Callers)
        BY DEF IInv, TypeOK
      <3>2. Head(turns) \in Callers /\ Has(turns, Head(turns))
        BY <1>2, <3>1 DEF Has
      <3> QED
        BY <3>2, HasOne DEF IInv
    <2>2. CASE At(c, "stop")
      <3>1. /\ caller[c].driver \in Drivers
            /\ stop[caller[c].driver] \in {"waiting", "closing"}
        BY <2>2 DEF WaitInv, RequestWaits, IInv, TypeOK
      <3>2. StopWaits(caller[c].driver)
        BY <3>1 DEF WaitInv
      <3> QED
        BY <2>1, <2>2, <3>1, <3>2 DEF StopWaits
    <2>3. CASE ~At(c, "stop")
      BY <2>1, <2>3 DEF WaitInv, RequestWaits, InBridge, InTurn, At
    <2> QED
      BY <2>2, <2>3
  <1>3. \A c \in Callers : /\ caller[c].step \in {"snapshot", "ensure"} => In(queue, c)
                           /\ At(c, "turn") => In(turns, c)
    BY DEF WaitInv, RequestWaits, InBridge
  <1> QED
    BY <1>1, <1>2, <1>3 DEF LocksMoveOn

(* Nobody waits for a lock of the bridge that nobody will give back: its   *)
(* holder can go on, or waits for a driver told to end; the lock for calls *)
(* waits for the bridge's, never the other way round                       *)
(* (CuaDriverBridge.call_tool, _ensure_client, _stop_unfinished, close).   *)
THEOREM LocksAreGivenBack == Spec => []LocksMoveOn
  <1>1. IInv /\ WaitInv => LocksMoveOn
    BY LocksMove
  <1> QED
    BY <1>1, Invariance, LocksStart, LocksKept, PTL DEF Spec

=============================================================================
