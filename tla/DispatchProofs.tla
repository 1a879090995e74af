--------------------------- MODULE DispatchProofs ---------------------------
(***************************************************************************)
(* Proofs about Dispatch, for every number of chats, requests and slots.   *)
(***************************************************************************)
EXTENDS Dispatch, FiniteSetTheorems, TLAPS

(* The statuses of a connection whose requests are not cancelled yet.      *)
USE DEF Serving

(* The empty daemon and the empty request have their types. *)
LEMMA EmptyTypes == NoDaemon \in Daemon /\ NoRequest \in Request
  BY DispatchAssumption
     DEF NoDaemon, Daemon, NoRequest, Request, Status, Phase

(* Monus is subtraction on Nat, floored at 0 (max(..., 0) in daemon.py). *)
LEMMA MonusType == ASSUME NEW m \in Nat, NEW n \in Nat
                   PROVE  Monus(m, n) \in Nat
  BY DEF Monus

(* _available_capacity is a natural number for any state of the counters. *)
LEMMA CapacityType == ASSUME NEW d \in Daemon
                      PROVE  AvailableCapacity(d) \in Nat
  <1>1. /\ d.pending \in Nat /\ d.inFlight \in Nat /\ d.queueDepth \in Nat
        /\ d.limit \in Nat
    BY DispatchAssumption DEF Daemon
  <1>2. Larger(d.pending, d.inFlight + d.queueDepth) \in Nat
    BY <1>1 DEF Larger
  <1> QED
    BY <1>1, <1>2, MonusType DEF AvailableCapacity

(* The sets the invariants count are finite. *)
LEMMA CountedSetsFinite ==
  ASSUME NEW c, NEW p
  PROVE  /\ IsFiniteSet(Queued(c)) /\ Cardinality(Queued(c)) \in Nat
         /\ IsFiniteSet(Started(c)) /\ Cardinality(Started(c)) \in Nat
         /\ IsFiniteSet(Holding(p)) /\ Cardinality(Holding(p)) \in Nat
  <1>1. /\ Queued(c) \in SUBSET Requests
        /\ Started(c) \in SUBSET Requests
        /\ Holding(p) \in SUBSET Requests
    BY DEF Queued, Started, Holding
  <1> QED
    BY <1>1, FS_Subset, FS_CardinalityType, DispatchAssumption

(* A non-empty one has at least one member, and a set without a member of  *)
(* its own is one smaller.                                                 *)
LEMMA CardinalityRemove ==
  ASSUME NEW S, IsFiniteSet(S), NEW x \in S
  PROVE  /\ Cardinality(S) \in Nat \ {0}
         /\ Cardinality(S \ {x}) = Cardinality(S) - 1
  BY FS_RemoveElement, FS_EmptySet, FS_CardinalityType

(* A request that counts in a child's counters is one of its Started ones, *)
(* so those counters are not zero.                                         *)
LEMMA CountedIsStarted ==
  ASSUME IInv, NEW r \in Requests, HasWork(r), Counted(r)
  PROVE  LET c == req[r].chat IN
         /\ c \in Chats
         /\ r \in Started(c)
         /\ daemon[c].inFlight \in Nat \ {0}
  <1> DEFINE c == req[r].chat
  <1>1. c \in Chats /\ r \in Started(c)
    BY DEF IInv, RequestInv, InUse, HasWork, Counted, Started
  <1>2. daemon[c].inFlight = Cardinality(Started(c))
    BY <1>1 DEF IInv, CounterInv, Tally, Counted
  <1>3. Cardinality(Started(c)) \in Nat \ {0}
    BY <1>1, CountedSetsFinite, CardinalityRemove
  <1> QED
    BY <1>1, <1>2, <1>3

(* Settling keeps the daemon's type: no counter goes below zero. *)
LEMMA SettledType ==
  ASSUME IInv, NEW r \in Requests, HasWork(r)
  PROVE  req[r].chat \in Chats /\ Settled(r) \in Daemon
  <1> DEFINE c == req[r].chat
  <1>1. c \in Chats /\ daemon[c] \in Daemon
    BY DEF IInv, TypeOK, RequestInv, InUse, HasWork
  <1>2. CASE Counted(r)
    <2>1. daemon[c].inFlight \in Nat \ {0}
      BY <1>2, CountedIsStarted
    <2>2. Settled(r) = [daemon[c] EXCEPT !.inFlight = daemon[c].inFlight - 1,
                                        !.pending = Monus(daemon[c].pending, 1),
                                        !.semaphore = daemon[c].semaphore + 1]
      BY <1>2 DEF Settled
    <2>3. daemon[c].pending \in Nat /\ daemon[c].semaphore \in Nat
      BY <1>1 DEF Daemon
    <2>4. daemon[c].inFlight - 1 \in Nat /\ daemon[c].semaphore + 1 \in Nat
      BY <2>1, <2>3
    <2>5. Monus(daemon[c].pending, 1) \in Nat
      BY <2>3, MonusType
    <2> QED
      BY <1>1, <2>2, <2>4, <2>5 DEF Daemon
  <1>3. CASE ~Counted(r)
    BY <1>1, <1>3 DEF Settled
  <1> QED
    BY <1>1, <1>2, <1>3

(* The daemons e and d differ only in how many requests they count, in     *)
(* what the platform has heard, and in their tasks.                        *)
SameLife(e, d) ==
    /\ e \in Daemon
    /\ e.status = d.status /\ e.revoked = d.revoked /\ e.limit = d.limit
    /\ e.disableReconnect = d.disableReconnect
    /\ e.detaching = d.detaching /\ e.pool = d.pool
    /\ e.queueDepth = d.queueDepth

(* A frame changes no more than what the platform has heard, and that only *)
(* on a connection that is up, to the capacity that is left.               *)
LEMMA ToldFields ==
  ASSUME IInv, NEW r \in Requests, InUse(r), NEW e,
         SameLife(e, daemon[req[r].chat])
  PROVE  /\ Told(r, e) \in Daemon
         /\ SameLife(Told(r, e), daemon[req[r].chat])
         /\ Told(r, e).tasks = e.tasks /\ Told(r, e).pending = e.pending
         /\ Told(r, e).inFlight = e.inFlight
         /\ Told(r, e).semaphore = e.semaphore
         /\ \/ Told(r, e).heard = e.heard
            \/ /\ daemon[req[r].chat].status = "up"
               /\ Told(r, e).heard = AvailableCapacity(Told(r, e))
  <1> DEFINE d == daemon[req[r].chat]
             told == [e EXCEPT !.heard = AvailableCapacity(e)]
  <1>1. e \in Daemon /\ AvailableCapacity(e) \in Nat
    BY CapacityType DEF SameLife
  <1>2. /\ told \in Daemon /\ told.heard = AvailableCapacity(e)
        /\ told.status = e.status /\ told.revoked = e.revoked
        /\ told.limit = e.limit
        /\ told.disableReconnect = e.disableReconnect
        /\ told.detaching = e.detaching /\ told.pool = e.pool
        /\ told.queueDepth = e.queueDepth /\ told.tasks = e.tasks
        /\ told.pending = e.pending /\ told.inFlight = e.inFlight
        /\ told.semaphore = e.semaphore
    BY <1>1 DEF Daemon
  <1>3. CASE ~(SendAllowed(e) /\ req[r].ws = generation[req[r].chat])
    <2>1. Told(r, e) = e
      BY <1>3 DEF Told
    <2> QED
      BY <1>1, <2>1
  <1>4. CASE SendAllowed(e) /\ req[r].ws = generation[req[r].chat]
    <2>1. Told(r, e) = told
      BY <1>4 DEF Told
    <2> HIDE DEF told
    <2>2. told.heard = AvailableCapacity(told)
      BY <1>2 DEF AvailableCapacity
    <2>3. d.status = "up"
      <3>1. d.status \in {"up", "revoking"} /\ ~d.revoked
        BY <1>4 DEF SendAllowed, SameLife
      <3>2. req[r].chat \in Chats
        BY DEF IInv, RequestInv
      <3> QED
        BY <3>1, <3>2 DEF IInv, CounterInv, Tally
    <2>4. SameLife(told, d)
      BY <1>2 DEF SameLife
    <2> QED
      BY <1>2, <2>1, <2>2, <2>3, <2>4
  <1> QED
    BY <1>3, <1>4

(* A daemon is alive as itself, and settling a request changes no more     *)
(* than its counters.                                                      *)
LEMMA SettledLives ==
  ASSUME IInv, NEW r \in Requests, HasWork(r)
  PROVE  InUse(r) /\ SameLife(Settled(r), daemon[req[r].chat])
  <1> DEFINE d == daemon[req[r].chat]
  <1>1. d \in Daemon /\ Settled(r) \in Daemon
    BY SettledType DEF IInv, TypeOK
  <1>2. /\ Settled(r).status = d.status /\ Settled(r).revoked = d.revoked
        /\ Settled(r).limit = d.limit
        /\ Settled(r).disableReconnect = d.disableReconnect
        /\ Settled(r).detaching = d.detaching /\ Settled(r).pool = d.pool
        /\ Settled(r).queueDepth = d.queueDepth
    BY <1>1 DEF Settled, Daemon
  <1> QED
    BY <1>1, <1>2 DEF SameLife, HasWork, InUse

-----------------------------------------------------------------------------
(* Types *)

(* The task bookkeeping of EndTask keeps the types. *)
LEMMA EndTaskType ==
  ASSUME TypeOK, NEW r \in Requests, req[r].chat \in Chats, NEW d \in Daemon,
         EndTask(r, d)
  PROVE  /\ daemon' \in [Chats -> Daemon]
         /\ generation' \in [Chats -> Nat]
         /\ req' \in [Requests -> Request]
  <1>1. [d EXCEPT !.tasks = d.tasks \ {r}] \in Daemon
    BY DEF Daemon
  <1>2. daemon' = [daemon EXCEPT
                     ![req[r].chat] = [d EXCEPT !.tasks = d.tasks \ {r}]]
    BY DEF EndTask
  <1> QED
    BY <1>1, <1>2, EmptyTypes DEF EndTask, TypeOK

LEMMA RespondType ==
  ASSUME IInv, NEW r \in Requests, HasWork(r), Respond(r)
  PROVE  /\ daemon' \in [Chats -> Daemon]
         /\ generation' \in [Chats -> Nat]
         /\ req' \in [Requests -> Request]
  <1> DEFINE told == Told(r, Settled(r))
  <1>1. req[r].chat \in Chats /\ told \in Daemon
    BY SettledType, SettledLives, ToldFields
  <1>2. TypeOK
    BY DEF IInv
  <1>3. CASE WasFull(r)
    BY <1>1, <1>2, <1>3 DEF Respond, TypeOK, Request, Phase
  <1>4. CASE ~WasFull(r)
    BY <1>1, <1>2, <1>4, EndTaskType DEF Respond
  <1> QED
    BY <1>3, <1>4

(* Cancelling changes only the flag. *)
LEMMA CancelType ==
  ASSUME TypeOK, NEW c \in Chats, CancelRequests(c)
  PROVE  req' \in [Requests -> Request]
  BY DEF TypeOK, CancelRequests, Request

(* Every request step keeps the types. *)
LEMMA RequestStepType ==
  ASSUME IInv, NEW r \in Requests, RequestStep(r)
  PROVE  TypeOK'
  <1> USE DEF IInv, TypeOK
  <1>1. ASSUME NEW c \in Chats, Admit(c, r)
        PROVE  TypeOK'
    <2>1. daemon' \in [Chats -> Daemon]
      BY <1>1 DEF Admit, Daemon
    <2>2. req' \in [Requests -> Request]
      BY <1>1, EmptyTypes DEF Admit, Request, Phase, NoRequest
    <2> QED
      BY <1>1, <2>1, <2>2 DEF Admit, machine
  <1>2. CASE Start(r)
    <2> DEFINE c == req[r].chat
    <2>1. c \in Chats /\ daemon[c].status \in Serving /\ r \in Queued(c)
      BY <1>2 DEF Start, RequestInv, CurrentInv, Current, InUse, Queued
    <2>2. daemon[c].queueDepth = Cardinality(Queued(c))
      BY <2>1 DEF CounterInv, Tally
    <2>3. Cardinality(Queued(c)) \in Nat \ {0}
      BY <2>1, CountedSetsFinite, CardinalityRemove
    <2>4. /\ daemon[c].semaphore - 1 \in Nat
          /\ daemon[c].inFlight + 1 \in Nat
          /\ daemon[c].pool \in Nat
          /\ generation[c] \in Nat
      <3>1. daemon[c] \in Daemon /\ generation[c] \in Nat
        BY <2>1
      <3>2. /\ daemon[c].semaphore \in Nat /\ daemon[c].inFlight \in Nat
            /\ daemon[c].pool \in Nat
        BY <3>1 DEF Daemon
      <3>3. daemon[c].semaphore > 0
        BY <1>2 DEF Start
      <3> QED
        BY ONLY <3>1, <3>2, <3>3
    <2>5. daemon' \in [Chats -> Daemon]
      <3> DEFINE new == [daemon[c] EXCEPT
                           !.semaphore = daemon[c].semaphore - 1,
                           !.queueDepth = daemon[c].queueDepth - 1,
                           !.inFlight = daemon[c].inFlight + 1]
      <3>0. daemon[c] \in Daemon
        BY <2>1
      <3>1. daemon[c].queueDepth - 1 \in Nat
        BY <2>2, <2>3
      <3>2. new \in Daemon
        BY <2>4, <3>0, <3>1 DEF Daemon
      <3>3. daemon' = [daemon EXCEPT ![c] = new]
        BY <1>2 DEF Start
      <3> QED
        BY <2>1, <3>2, <3>3
    <2>6. req' \in [Requests -> Request]
      <3> DEFINE new == [req[r] EXCEPT !.phase = "waiting",
                                       !.gen = generation[c],
                                       !.pool = daemon[c].pool]
      <3>1. new \in Request
        BY <2>4 DEF Request, Phase
      <3>2. req' = [req EXCEPT ![r] = new]
        BY <1>2 DEF Start
      <3> QED
        BY <3>1, <3>2
    <2> QED
      BY <1>2, <2>5, <2>6 DEF Start, machine
  <1>3. CASE TakeSlot(r)
    <2>1. req' \in [Requests -> Request]
      BY <1>3 DEF TakeSlot, Request, Phase
    <2> QED
      BY <1>3, <2>1 DEF TakeSlot
  <1>4. ASSUME HasWork(r), ReleaseSlot(r)
        PROVE  pool' \in Nat /\ slotsFree' \in Nat
    BY <1>4 DEF ReleaseSlot
  <1>5. CASE Finish(r)
    <2>1. HasWork(r) /\ ReleaseSlot(r) /\ Respond(r)
      BY <1>5 DEF Finish, HasWork
    <2> QED
      BY <2>1, <1>4, RespondType
  <1>6. CASE SlotTimeout(r)
    <2>1. HasWork(r) /\ Respond(r) /\ UNCHANGED machine
      BY <1>6 DEF SlotTimeout, WaitIsOver, HasWork
    <2> QED
      BY <2>1, RespondType DEF machine
  <1>7. CASE Drop(r) \/ UnwindRunning(r)
    <2>1. HasWork(r) /\ ReleaseSlot(r) /\ EndTask(r, Settled(r))
      BY <1>7 DEF Drop, UnwindRunning, HasWork
    <2> QED
      BY <2>1, <1>4, SettledType, EndTaskType
  <1>8. CASE UnwindWaiting(r)
    <2>1. HasWork(r) /\ EndTask(r, Settled(r)) /\ UNCHANGED machine
      BY <1>8 DEF UnwindWaiting, HasWork
    <2> QED
      BY <2>1, SettledType, EndTaskType DEF machine
  <1>9. CASE EdgeStatus(r)
    <2> DEFINE d == daemon[req[r].chat]
    <2>1. req[r].chat \in Chats /\ InUse(r) /\ d \in Daemon
      BY <1>9 DEF EdgeStatus, RequestInv, InUse
    <2>2. SameLife(d, d)
      BY <2>1 DEF SameLife
    <2>3. Told(r, d) \in Daemon
      BY <2>1, <2>2, ToldFields
    <2>4. EndTask(r, Told(r, d)) /\ UNCHANGED machine
      BY <1>9 DEF EdgeStatus
    <2> QED
      BY <2>1, <2>3, <2>4, EndTaskType DEF machine
  <1>10. CASE UnwindUnstarted(r)
    <2> DEFINE d == daemon[req[r].chat]
    <2>1. req[r].chat \in Chats /\ d \in Daemon
      BY <1>10 DEF UnwindUnstarted, RequestInv, InUse
    <2>2. EndTask(r, d) /\ UNCHANGED machine
      BY <1>10 DEF UnwindUnstarted
    <2> QED
      BY <2>1, <2>2, EndTaskType DEF machine
  <1> QED
    BY <1>1, <1>2, <1>3, <1>5, <1>6, <1>7, <1>8, <1>9, <1>10 DEF RequestStep

(* Every chat step keeps the types. *)
LEMMA ChatStepType ==
  ASSUME IInv, NEW c \in Chats, ChatStep(c)
  PROVE  TypeOK'
  <1> USE DEF IInv, TypeOK
  <1>0. daemon[c] \in Daemon
    OBVIOUS
  <1>1. CASE \/ Refuse(c) \/ RevokedClosed(c) \/ FatalClose(c)
             \/ ReapDecide(c) \/ ReapAbandon(c)
    <2>1. /\ [daemon[c] EXCEPT !.heard = 0] \in Daemon
          /\ [daemon[c] EXCEPT !.status = "closing",
                               !.disableReconnect = TRUE] \in Daemon
          /\ [daemon[c] EXCEPT !.status = "ending"] \in Daemon
          /\ [daemon[c] EXCEPT !.detaching = TRUE] \in Daemon
          /\ [daemon[c] EXCEPT !.detaching = FALSE] \in Daemon
      BY <1>0 DEF Daemon, Status
    <2> QED
      BY <1>1, <2>1 DEF Refuse, RevokedClosed, FatalClose, ReapDecide,
                        ReapAbandon, machine
  <1>2. CASE Ticker(c)
    <2>1. AvailableCapacity(daemon[c]) \in Nat
      BY <1>0, CapacityType
    <2>2. [daemon[c] EXCEPT !.heard = AvailableCapacity(daemon[c])] \in Daemon
      BY <1>0, <2>1 DEF Daemon
    <2> QED
      BY <1>2, <2>2 DEF Ticker, machine
  <1>3. CASE Connect(c)
    <2> DEFINE st == IF daemon[c].running THEN "up" ELSE "stopping"
    <2>1. PICK max \in 1..MachineSlots :
             daemon' = [daemon EXCEPT ![c].status = st, ![c].limit = max,
                                      ![c].semaphore = max, ![c].pending = 0,
                                      ![c].queueDepth = 0, ![c].inFlight = 0,
                                      ![c].revoked = FALSE,
                                      ![c].heard = NoSignal]
      BY <1>3 DEF Connect
    <2>0. st \in {"up", "stopping"}
      OBVIOUS
    <2> HIDE DEF st
    <2> DEFINE new == [daemon[c] EXCEPT !.status = st, !.limit = max,
                                        !.semaphore = max, !.pending = 0,
                                        !.queueDepth = 0, !.inFlight = 0,
                                        !.revoked = FALSE, !.heard = NoSignal]
    <2>2. max \in Nat
      BY DispatchAssumption
    <2>3. new \in Daemon
      BY <1>0, <2>0, <2>2 DEF Daemon, Status
    <2>4. daemon' = [daemon EXCEPT ![c] = new]
      BY <2>1
    <2> QED
      BY <1>3, <2>3, <2>4 DEF Connect, machine
  <1>4. CASE Disconnect(c) \/ CloseAudited(c) \/ Revoke(c)
    <2>1. /\ [daemon[c] EXCEPT !.status = "ending"] \in Daemon
          /\ [daemon[c] EXCEPT !.status = "revoking", !.revoked = TRUE,
                               !.disableReconnect = TRUE] \in Daemon
      BY <1>0 DEF Daemon, Status
    <2> QED
      BY <1>4, <2>1, CancelType DEF Disconnect, CloseAudited, Revoke, machine
  <1>5. CASE StopBegin(c)
    <2>1. PICK st \in Status :
            daemon' = [daemon EXCEPT ![c].running = FALSE, ![c].status = st]
      <3>1. daemon[c].status \in Status /\ "stopping" \in Status
        BY <1>0 DEF Daemon, Status
      <3> QED
        BY <1>5, <3>1 DEF StopBegin
    <2>2. [daemon[c] EXCEPT !.running = FALSE, !.status = st] \in Daemon
      BY <1>0 DEF Daemon
    <2> QED
      BY <1>5, <2>1, <2>2 DEF StopBegin, machine
  <1>6. CASE DrainDone(c)
    <2>1. [daemon[c] EXCEPT !.status = "backoff", !.tasks = {},
                            !.pending = 0, !.queueDepth = 0, !.inFlight = 0]
            \in Daemon
      BY <1>0 DEF Daemon, Status
    <2> QED
      BY <1>6, <2>1, EmptyTypes DEF DrainDone, machine
  <1>7. CASE StartChild(c)
    <2>1. [NoDaemon EXCEPT !.status = "backoff", !.running = TRUE,
                           !.pool = pool] \in Daemon
      BY EmptyTypes DEF Daemon, Status
    <2> QED
      BY <1>7, <2>1 DEF StartChild, machine
  <1>8. CASE StopCancels(c)
    <2>1. [daemon[c] EXCEPT !.status = "ending"] \in Daemon
      BY <1>0 DEF Daemon, Status
    <2> QED
      BY <1>8, <2>1, EmptyTypes, CancelType DEF StopCancels, machine
  <1> QED
    BY <1>1, <1>2, <1>3, <1>4, <1>5, <1>6, <1>7, <1>8 DEF ChatStep


-----------------------------------------------------------------------------
(* Requests that end *)

(* Beside the types, what a step has to keep. *)
Rest == RequestInv /\ CurrentInv /\ TaskInv /\ CounterInv
          /\ IdleDetachCutsNothing

(* A step ends r: its task is gone, or owes no more than a STATUS frame;   *)
(* no other request, no generation and no slot pool changes.               *)
Ends(r) ==
    /\ \A q \in Requests \ {r} : req'[q] = req[q]
    /\ req'[r] = NoRequest \/ req'[r] = [req[r] EXCEPT !.phase = "edge"]
    /\ UNCHANGED <<generation, pool>>

(* A step changes r's daemon into e, which knows r as long as r exists. *)
Becomes(r, e) ==
    LET d == daemon[req[r].chat] IN
    /\ daemon' = [daemon EXCEPT ![req[r].chat] = e]
    /\ SameLife(e, d)
    /\ e.tasks = IF req'[r] = NoRequest THEN d.tasks \ {r} ELSE d.tasks

(* The counters of e are those of r's daemon, less r if it counts there.   *)
Accounts(r, e) ==
    LET d == daemon[req[r].chat] IN
    \/ /\ HasWork(r) /\ Counted(r)
       /\ e.inFlight = d.inFlight - 1
       /\ e.pending = Monus(d.pending, 1)
       /\ e.semaphore = d.semaphore + 1
    \/ /\ d.status = "absent" \/ r \notin Started(req[r].chat)
       /\ d.status \in Serving => r \notin Queued(req[r].chat)
       /\ e.inFlight = d.inFlight
       /\ e.pending = d.pending
       /\ e.semaphore = d.semaphore

(* An ended request leaves the sets it was in, and no other does. *)
LEMMA EndedSets ==
  ASSUME TypeOK, NEW r \in Requests, Ends(r)
  PROVE  /\ \A k \in Chats : Queued(k)' = Queued(k) \ {r}
         /\ \A k \in Chats : Started(k)' = Started(k) \ {r}
         /\ \A p : Holding(p)' = Holding(p) \ {r}
  <1>1. req'[r].phase \in {"none", "edge"}
    BY DEF Ends, NoRequest, TypeOK, Request
  <1> QED
    BY <1>1 DEF Ends, Queued, Started, Holding

(* Ending a request keeps the invariant, if the counters keep track.       *)
LEMMA EndKeepsRest ==
  ASSUME IInv, NEW r \in Requests, InUse(r), Ends(r), NEW e, Becomes(r, e),
         Accounts(r, e)
  PROVE  Rest'
  <1> DEFINE c == req[r].chat
             d == daemon[c]
  <1>1. c \in Chats /\ d \in Daemon /\ req[r] \in Request
    BY DEF IInv, TypeOK, RequestInv, InUse
  <1>2. /\ \A k \in Chats \ {c} : daemon'[k] = daemon[k]
        /\ daemon'[c] = e
    BY <1>1 DEF Becomes, IInv, TypeOK
  <1>3. /\ \A q \in Requests \ {r} : req'[q] = req[q]
        /\ generation' = generation
        /\ pool' = pool
    BY DEF Ends
  <1>4. \/ req'[r] = NoRequest
        \/ /\ req'[r].phase = "edge" /\ req'[r].chat = c
           /\ req'[r].ws = req[r].ws /\ req'[r].pool = req[r].pool
           /\ req'[r].cancelled = req[r].cancelled
    BY <1>1 DEF Ends, Request
  <1>5. NoRequest.phase = "none" /\ NoRequest.pool = 0 /\ NoRequest.chat = NoChat
    BY DEF NoRequest
  <1>6. RequestInv'
    BY <1>1, <1>3, <1>4, <1>5 DEF IInv, TypeOK, RequestInv, InUse, HasWork
  <1>7. CurrentInv'
    <2> SUFFICES ASSUME NEW q \in Requests, InUse(q)'
                 PROVE  Current(q)'
      BY DEF CurrentInv
    <2>1. /\ InUse(q) /\ req'[q].chat = req[q].chat
          /\ req'[q].ws = req[q].ws
          /\ req'[q].cancelled = req[q].cancelled
          /\ q = r => req'[r] # NoRequest
      BY <1>3, <1>4, <1>5 DEF InUse
    <2>2. req[q].chat \in Chats
      BY <2>1 DEF IInv, RequestInv
    <2>3. /\ daemon'[req[q].chat].status = daemon[req[q].chat].status
          /\ q \in daemon[req[q].chat].tasks => q \in daemon'[req[q].chat].tasks
      <3>1. CASE req[q].chat = c
        <4>1. /\ e.status = d.status
              /\ e.tasks = IF req'[r] = NoRequest THEN d.tasks \ {r} ELSE d.tasks
          BY DEF Becomes, SameLife
        <4> QED
          BY <1>2, <2>1, <3>1, <4>1
      <3>2. CASE req[q].chat # c
        BY <1>2, <2>2, <3>2
      <3> QED
        BY <3>1, <3>2
    <2> QED
      BY <1>3, <2>1, <2>3 DEF IInv, CurrentInv, Current
  <1>8. TaskInv'
    <2> SUFFICES ASSUME NEW k \in Chats, NEW q \in daemon'[k].tasks
                 PROVE  req'[q].chat = k
      BY DEF TaskInv
    <2>1. q \in daemon[k].tasks /\ (q = r => req'[r] # NoRequest)
      <3>1. CASE k = c
        BY <1>2, <3>1 DEF Becomes, SameLife
      <3>2. CASE k # c
        BY <1>1, <1>2, <1>4, <3>2 DEF IInv, TaskInv
      <3> QED
        BY <3>1, <3>2
    <2>2. req[q].chat = k /\ q \in Requests
      BY <1>1, <2>1 DEF IInv, TaskInv, TypeOK, Daemon
    <2> QED
      BY <1>3, <1>4, <2>1, <2>2
  <1>9. IdleDetachCutsNothing'
    <2> SUFFICES ASSUME NEW k \in Chats, daemon'[k].detaching
                 PROVE  daemon'[k].tasks = {}
      BY DEF IdleDetachCutsNothing
    <2>1. CASE k = c
      <3>1. /\ e.detaching = d.detaching
            /\ e.tasks = IF req'[r] = NoRequest THEN d.tasks \ {r} ELSE d.tasks
        BY DEF Becomes, SameLife
      <3> QED
        BY <1>1, <1>2, <2>1, <3>1 DEF IInv, IdleDetachCutsNothing
    <2>2. CASE k # c
      BY <1>2, <2>2 DEF IInv, IdleDetachCutsNothing
    <2> QED
      BY <2>1, <2>2
  <1>10. CounterInv'
    <2> SUFFICES ASSUME NEW k \in Chats
                 PROVE  Tally(k)'
      BY DEF CounterInv
    <2>1. Queued(k)' = Queued(k) \ {r} /\ Started(k)' = Started(k) \ {r}
      BY EndedSets DEF IInv
    <2>2. CASE k # c
      <3>1. Queued(k)' = Queued(k) /\ Started(k)' = Started(k)
        BY <2>1, <2>2 DEF Queued, Started
      <3>2. daemon'[k] = daemon[k]
        BY <1>2, <2>2
      <3> QED
        BY <1>3, <3>1, <3>2 DEF IInv, CounterInv, Tally
    <2>3. CASE k = c
      <3>1. /\ e.status = d.status /\ e.revoked = d.revoked
            /\ e.limit = d.limit /\ e.pool = d.pool
            /\ e.disableReconnect = d.disableReconnect
            /\ e.queueDepth = d.queueDepth
        BY DEF Becomes, SameLife
      <3>2. Tally(c)
        BY <1>1 DEF IInv, CounterInv
      <3>3. /\ d.inFlight \in Nat /\ d.pending \in Nat /\ d.semaphore \in Nat
            /\ d.queueDepth \in Nat /\ d.limit \in Nat
        BY <1>1, DispatchAssumption DEF Daemon
      <3>4. CASE /\ HasWork(r) /\ Counted(r)
                 /\ e.inFlight = d.inFlight - 1
                 /\ e.pending = Monus(d.pending, 1)
                 /\ e.semaphore = d.semaphore + 1
        <4>1. r \in Started(c) /\ d.inFlight \in Nat \ {0}
          BY <3>4, CountedIsStarted
        <4>2. Cardinality(Started(k)') = Cardinality(Started(c)) - 1
          BY <2>1, <2>3, <4>1, CountedSetsFinite, CardinalityRemove
        <4>3. Queued(k)' = Queued(c)
          BY <2>1, <2>3, <3>4 DEF HasWork, Queued
        <4>4. d.status \in Serving => Monus(d.pending, 1) = d.pending - 1
          BY <3>2, <3>3, <4>1 DEF Tally, Monus
        <4> QED
          BY SMTT(20), <1>2, <1>3, <2>3, <3>1, <3>2, <3>3, <3>4, <4>1, <4>2, <4>3, <4>4
             DEF Tally, Counted
      <3>5. CASE /\ d.status = "absent" \/ r \notin Started(c)
                 /\ d.status \in Serving => r \notin Queued(c)
                 /\ e.inFlight = d.inFlight
                 /\ e.pending = d.pending
                 /\ e.semaphore = d.semaphore
        <4>1. d.status # "absent" => Started(k)' = Started(c)
          BY <2>1, <2>3, <3>5
        <4>2. d.status \in Serving => Queued(k)' = Queued(c)
          BY <2>1, <2>3, <3>5
        <4> QED
          BY <1>2, <1>3, <2>3, <3>1, <3>2, <3>5, <4>1, <4>2 DEF Tally
      <3> QED
        BY <3>4, <3>5 DEF Accounts
    <2> QED
      BY <2>2, <2>3
  <1> QED
    BY <1>6, <1>7, <1>8, <1>9, <1>10 DEF Rest

(* What settling does to each field. *)
LEMMA SettledFields ==
  ASSUME IInv, NEW r \in Requests, HasWork(r)
  PROVE  /\ SameLife(Settled(r), daemon[req[r].chat])
         /\ Settled(r).tasks = daemon[req[r].chat].tasks
         /\ Settled(r).heard = daemon[req[r].chat].heard
         /\ Accounts(r, Settled(r))
  <1> DEFINE d == daemon[req[r].chat]
  <1>1. /\ req[r].chat \in Chats /\ d \in Daemon
        /\ Settled(r) \in Daemon
    BY SettledType DEF IInv, TypeOK
  <1>2. CASE Counted(r)
    BY <1>1, <1>2 DEF Settled, SameLife, Accounts, Daemon
  <1>3. CASE ~Counted(r)
    <2>1. Settled(r) = d
      BY <1>3 DEF Settled
    <2>2. d.status = "absent" \/ r \notin Started(req[r].chat)
      BY <1>3 DEF Counted, Started
    <2>3. r \notin Queued(req[r].chat)
      BY DEF HasWork, Queued
    <2> QED
      BY <1>1, <2>1, <2>2, <2>3 DEF SameLife, Accounts
  <1> QED
    BY <1>2, <1>3

(* A task that ends with its daemon's counters right keeps the invariant.  *)
LEMMA EndTaskKeepsRest ==
  ASSUME IInv, NEW r \in Requests, InUse(r), NEW e,
         SameLife(e, daemon[req[r].chat]), Accounts(r, e),
         e.tasks = daemon[req[r].chat].tasks,
         EndTask(r, e), pool' = pool
  PROVE  Rest'
  <1> DEFINE f == [e EXCEPT !.tasks = e.tasks \ {r}]
  <1>1. req[r].chat \in Chats
    BY DEF IInv, RequestInv, InUse
  <1>2. /\ req' = [req EXCEPT ![r] = NoRequest]
        /\ daemon' = [daemon EXCEPT ![req[r].chat] = f]
        /\ generation' = generation
    BY DEF EndTask
  <1>3. Ends(r) /\ req'[r] = NoRequest
    BY <1>2 DEF Ends, IInv, TypeOK
  <1>4. e \in Daemon
    BY DEF SameLife
  <1>5. /\ f \in Daemon /\ f.tasks = e.tasks \ {r}
        /\ f.status = e.status /\ f.revoked = e.revoked /\ f.limit = e.limit
        /\ f.disableReconnect = e.disableReconnect
        /\ f.detaching = e.detaching /\ f.pool = e.pool
        /\ f.queueDepth = e.queueDepth /\ f.pending = e.pending
        /\ f.inFlight = e.inFlight /\ f.semaphore = e.semaphore
    BY <1>4 DEF Daemon
  <1> HIDE DEF f
  <1>6. Becomes(r, f)
    BY <1>2, <1>3, <1>5 DEF Becomes, SameLife
  <1>7. Accounts(r, f)
    BY <1>5 DEF Accounts
  <1> QED
    BY <1>3, <1>6, <1>7, EndKeepsRest

(* A response keeps the invariant. *)
LEMMA RespondKeepsRest ==
  ASSUME IInv, NEW r \in Requests, HasWork(r), Respond(r), pool' = pool
  PROVE  Rest'
  <1> DEFINE told == Told(r, Settled(r))
             d == daemon[req[r].chat]
  <1>1. InUse(r) /\ SameLife(Settled(r), d)
    BY SettledLives
  <1>4. \/ /\ req' = [req EXCEPT ![r].phase = "edge"]
           /\ daemon' = [daemon EXCEPT ![req[r].chat] = told]
           /\ generation' = generation
        \/ EndTask(r, told)
    BY DEF Respond
  <1>5. /\ SameLife(told, d) /\ told.tasks = d.tasks
        /\ Accounts(r, told)
    BY <1>1, ToldFields, SettledFields DEF Accounts
  <1> HIDE DEF told
  <1>6. CASE EndTask(r, told)
    BY <1>1, <1>5, <1>6, EndTaskKeepsRest
  <1>7. CASE /\ req' = [req EXCEPT ![r].phase = "edge"]
             /\ daemon' = [daemon EXCEPT ![req[r].chat] = told]
             /\ generation' = generation
    <2>1. req[r] \in Request
      BY DEF IInv, TypeOK
    <2>2. Ends(r) /\ req'[r].phase = "edge"
      BY <1>7, <2>1 DEF Ends, IInv, TypeOK, Request
    <2>3. req'[r] # NoRequest
      BY <2>2 DEF NoRequest
    <2>4. Becomes(r, told)
      BY <1>5, <1>7, <2>3 DEF Becomes
    <2> QED
      BY <1>1, <1>5, <2>2, <2>4, EndKeepsRest
  <1> QED
    BY <1>4, <1>6, <1>7

(* The request that ends gives back the slot it held, and only that one.   *)
LEMMA EndKeepsSlots ==
  ASSUME IInv, NEW r \in Requests, Ends(r),
         \/ req[r].phase = "running" /\ ReleaseSlot(r)
         \/ req[r].phase # "running" /\ UNCHANGED machine
  PROVE  SlotsConserved'
  <1>1. Holding(pool)' = Holding(pool) \ {r}
    BY EndedSets DEF IInv, Ends, Holding
  <1>2. /\ slotsFree + Cardinality(Holding(pool)) = MachineSlots
        /\ slotsFree \in Nat /\ Cardinality(Holding(pool)) \in Nat
    BY CountedSetsFinite DEF IInv, TypeOK, SlotsConserved
  <1>3. CASE req[r].phase = "running" /\ ReleaseSlot(r) /\ req[r].pool = pool
    <2>1. r \in Holding(pool) /\ slotsFree' = slotsFree + 1
      BY <1>3 DEF Holding, ReleaseSlot
    <2>2. Cardinality(Holding(pool) \ {r}) = Cardinality(Holding(pool)) - 1
      BY <2>1, CountedSetsFinite, CardinalityRemove
    <2> QED
      BY <1>1, <1>2, <2>1, <2>2, DispatchAssumption DEF SlotsConserved
  <1>4. CASE ~(req[r].phase = "running" /\ req[r].pool = pool)
    <2>1. Holding(pool)' = Holding(pool) /\ slotsFree' = slotsFree
      BY <1>1, <1>4 DEF Holding, ReleaseSlot, machine
    <2> QED
      BY <1>2, <2>1 DEF SlotsConserved
  <1> QED
    BY <1>3, <1>4

(* Both ways of ending a task end the request. *)
LEMMA WaysOut ==
  ASSUME IInv, NEW r \in Requests, pool' = pool,
         Respond(r) \/ (\E d : EndTask(r, d))
  PROVE  Ends(r)
  <1>1. /\ req' = [req EXCEPT ![r].phase = "edge"]
             \/ req' = [req EXCEPT ![r] = NoRequest]
        /\ generation' = generation
    BY DEF Respond, EndTask
  <1> QED
    BY <1>1 DEF Ends, IInv, TypeOK

-----------------------------------------------------------------------------
(* Requests that come and go on *)

(* A request admitted is counted, known, and of the connection that is up. *)
LEMMA AdmitKeeps ==
  ASSUME IInv, NEW c \in Chats, NEW r \in Requests, Admit(c, r)
  PROVE  Rest' /\ SlotsConserved'
  <1> DEFINE d == daemon[c]
             e == [d EXCEPT !.pending = d.pending + 1,
                            !.queueDepth = d.queueDepth + 1,
                            !.tasks = d.tasks \cup {r}]
             n == [NoRequest EXCEPT !.phase = "queued", !.chat = c,
                                    !.ws = generation[c]]
  <1>1. /\ d \in Daemon /\ generation[c] \in Nat
        /\ d.pending \in Nat /\ d.queueDepth \in Nat /\ d.inFlight \in Nat
        /\ d.limit \in Nat /\ d.semaphore \in Nat
    BY DispatchAssumption DEF IInv, TypeOK, Daemon
  <1>2. /\ daemon' = [daemon EXCEPT ![c] = e]
        /\ req' = [req EXCEPT ![r] = n]
        /\ generation' = generation /\ pool' = pool
        /\ slotsFree' = slotsFree
        /\ d.status \in {"up", "stopping"} /\ ~d.detaching /\ d.pending < d.limit
        /\ req[r] = NoRequest
    BY DEF Admit, HasRoom, machine
  <1>3. /\ e.status = d.status /\ e.revoked = d.revoked /\ e.limit = d.limit
        /\ e.disableReconnect = d.disableReconnect
        /\ e.detaching = d.detaching /\ e.pool = d.pool
        /\ e.inFlight = d.inFlight /\ e.semaphore = d.semaphore
        /\ e.pending = d.pending + 1 /\ e.queueDepth = d.queueDepth + 1
        /\ e.tasks = d.tasks \cup {r}
    BY <1>1, <1>2 DEF Daemon
  <1>4. /\ n.phase = "queued" /\ n.chat = c /\ n.ws = generation[c]
        /\ n.pool = 0 /\ ~n.cancelled
    BY DEF NoRequest
  <1>5. NoRequest.phase = "none" /\ NoRequest.chat = NoChat
    BY DEF NoRequest
  <1> HIDE DEF d, e, n
  <1>6. /\ daemon'[c] = e /\ \A k \in Chats \ {c} : daemon'[k] = daemon[k]
        /\ req'[r] = n /\ \A q \in Requests \ {r} : req'[q] = req[q]
    BY <1>2 DEF IInv, TypeOK
  <1>7. RequestInv'
    BY <1>1, <1>2, <1>4, <1>6 DEF IInv, TypeOK, RequestInv, InUse, HasWork
  <1>8. CurrentInv'
    <2> SUFFICES ASSUME NEW q \in Requests, InUse(q)'
                 PROVE  Current(q)'
      BY DEF CurrentInv
    <2>1. CASE q = r
      BY <1>1, <1>2, <1>3, <1>4, <1>6, <2>1 DEF Current
    <2>2. CASE q # r
      <3>1. InUse(q) /\ Current(q) /\ req'[q] = req[q] /\ req[q].chat \in Chats
        BY <1>6, <2>2 DEF IInv, CurrentInv, RequestInv, InUse
      <3> QED
        BY <1>2, <1>3, <1>6, <3>1 DEF Current, d
    <2> QED
      BY <2>1, <2>2
  <1>9. TaskInv'
    <2>1. r \notin UNION {daemon[k].tasks : k \in Chats}
      BY <1>2, <1>5, DispatchAssumption DEF IInv, TaskInv
    <2> QED
      BY <1>3, <1>4, <1>6, <2>1 DEF IInv, TaskInv, TypeOK, Daemon, d
  <1>10. IdleDetachCutsNothing'
    BY <1>2, <1>3, <1>6 DEF IInv, IdleDetachCutsNothing
  <1>11. /\ \A k \in Chats : Started(k)' = Started(k)
         /\ \A k \in Chats \ {c} : Queued(k)' = Queued(k)
         /\ Queued(c)' = Queued(c) \cup {r} /\ r \notin Queued(c)
         /\ Holding(pool)' = Holding(pool)
    BY <1>2, <1>4, <1>5, <1>6 DEF Started, Queued, Holding
  <1>12. Cardinality(Queued(c)') = Cardinality(Queued(c)) + 1
    BY <1>11, CountedSetsFinite, FS_AddElement
  <1>13. CounterInv'
    <2> SUFFICES ASSUME NEW k \in Chats PROVE Tally(k)'
      BY DEF CounterInv
    <2>1. Tally(k)
      BY DEF IInv, CounterInv
    <2>2. CASE k = c
      <3>1. /\ d.pool <= pool /\ d.inFlight = Cardinality(Started(c))
            /\ d.semaphore + d.inFlight = d.limit
            /\ d.queueDepth = Cardinality(Queued(c))
            /\ d.pending = d.queueDepth + d.inFlight
            /\ ~d.revoked
        BY <1>2, <2>1, <2>2 DEF Tally, d
      <3>2. /\ e.pool <= pool' /\ e.inFlight = Cardinality(Started(c)')
            /\ e.semaphore + e.inFlight = e.limit
            /\ e.queueDepth = Cardinality(Queued(c)')
            /\ e.pending = e.queueDepth + e.inFlight
            /\ e.pending <= e.limit
            /\ ~e.revoked
        BY <1>1, <1>2, <1>3, <1>11, <1>12, <3>1
      <3> QED
        BY <1>2, <1>3, <1>6, <2>2, <3>2 DEF Tally
    <2>3. CASE k # c
      BY <1>2, <1>6, <1>11, <2>1, <2>3 DEF Tally
    <2> QED
      BY <2>2, <2>3
  <1>14. SlotsConserved'
    BY <1>2, <1>11 DEF IInv, SlotsConserved
  <1> QED
    BY <1>7, <1>8, <1>9, <1>10, <1>13, <1>14 DEF Rest

(* A request that starts moves from one counter to the other. *)
LEMMA StartKeeps ==
  ASSUME IInv, NEW r \in Requests, NEW c \in Chats, c = req[r].chat, Start(r)
  PROVE  Rest' /\ SlotsConserved'
  <1> DEFINE d == daemon[c]
             e == [d EXCEPT !.semaphore = d.semaphore - 1,
                            !.queueDepth = d.queueDepth - 1,
                            !.inFlight = d.inFlight + 1]
             n == [req[r] EXCEPT !.phase = "waiting", !.gen = generation[c],
                                 !.pool = d.pool]
  <1>1. /\ d \in Daemon /\ req[r] \in Request /\ generation[c] \in Nat
        /\ d.pending \in Nat /\ d.queueDepth \in Nat /\ d.inFlight \in Nat
        /\ d.limit \in Nat /\ d.semaphore \in Nat /\ d.pool \in Nat
    BY DispatchAssumption DEF IInv, TypeOK, Daemon
  <1>2. /\ daemon' = [daemon EXCEPT ![c] = e]
        /\ req' = [req EXCEPT ![r] = n]
        /\ generation' = generation /\ pool' = pool
        /\ slotsFree' = slotsFree
        /\ req[r].phase = "queued" /\ ~req[r].cancelled
    BY DEF Start, machine
  <1>3. /\ e.status = d.status /\ e.revoked = d.revoked /\ e.limit = d.limit
        /\ e.disableReconnect = d.disableReconnect
        /\ e.detaching = d.detaching /\ e.pool = d.pool
        /\ e.pending = d.pending /\ e.tasks = d.tasks
        /\ e.inFlight = d.inFlight + 1 /\ e.semaphore = d.semaphore - 1
        /\ e.queueDepth = d.queueDepth - 1
    BY <1>1 DEF Daemon
  <1>4. /\ n.phase = "waiting" /\ n.chat = c /\ n.ws = req[r].ws
        /\ n.gen = generation[c] /\ n.pool = d.pool
        /\ n.cancelled = req[r].cancelled
    BY <1>1 DEF Request
  <1> HIDE DEF d, e, n
  <1>5. /\ daemon'[c] = e /\ \A k \in Chats \ {c} : daemon'[k] = daemon[k]
        /\ req'[r] = n /\ \A q \in Requests \ {r} : req'[q] = req[q]
    BY <1>2 DEF IInv, TypeOK
  <1>6. d.status \in Serving /\ req[r].ws = generation[c]
    BY <1>2 DEF IInv, CurrentInv, Current, InUse, d
  <1>7. d.pool <= pool /\ Tally(c)
    BY DEF IInv, CounterInv, Tally, d
  <1>8. RequestInv'
    <2> SUFFICES ASSUME NEW q \in Requests
                 PROVE  (/\ InUse(q) => /\ req[q].chat \in Chats
                                        /\ req[q].ws <= generation[req[q].chat]
                         /\ HasWork(q) => req[q].gen = req[q].ws
                         /\ req[q].pool <= pool)'
      BY DEF RequestInv
    <2>1. CASE q = r
      BY <1>1, <1>2, <1>4, <1>5, <1>6, <1>7, <2>1 DEF d
    <2>2. CASE q # r
      BY <1>2, <1>5, <2>2 DEF IInv, RequestInv, InUse, HasWork
    <2> QED
      BY <2>1, <2>2
  <1>9. CurrentInv'
    <2> SUFFICES ASSUME NEW q \in Requests, InUse(q)'
                 PROVE  Current(q)'
      BY DEF CurrentInv
    <2>1. /\ InUse(q) /\ req'[q].chat = req[q].chat
          /\ req'[q].ws = req[q].ws /\ req'[q].cancelled = req[q].cancelled
      BY <1>2, <1>4, <1>5 DEF InUse
    <2>2. Current(q) /\ req[q].chat \in Chats
      BY <2>1 DEF IInv, CurrentInv, RequestInv
    <2>3. /\ daemon'[req[q].chat].status = daemon[req[q].chat].status
          /\ daemon'[req[q].chat].tasks = daemon[req[q].chat].tasks
      BY <1>3, <1>5, <2>2 DEF d
    <2> QED
      BY <1>2, <2>1, <2>2, <2>3 DEF Current
  <1>10. TaskInv'
    <2> SUFFICES ASSUME NEW k \in Chats, NEW q \in daemon'[k].tasks
                 PROVE  req'[q].chat = k
      BY DEF TaskInv
    <2>1. q \in daemon[k].tasks
      BY <1>3, <1>5 DEF d
    <2>2. q \in Requests /\ req[q].chat = k
      BY <2>1 DEF IInv, TaskInv, TypeOK, Daemon
    <2> QED
      BY <1>4, <1>5, <2>2
  <1>11. IdleDetachCutsNothing'
    BY <1>3, <1>5 DEF IInv, IdleDetachCutsNothing, d
  <1>12. /\ \A k \in Chats \ {c} : /\ Started(k)' = Started(k)
                                   /\ Queued(k)' = Queued(k)
         /\ Queued(c)' = Queued(c) \ {r} /\ r \in Queued(c)
         /\ Started(c)' = Started(c) \cup {r} /\ r \notin Started(c)
         /\ Holding(pool)' = Holding(pool)
    BY <1>2, <1>4, <1>5, <1>6 DEF Started, Queued, Holding
  <1>13. /\ Cardinality(Queued(c)') = Cardinality(Queued(c)) - 1
         /\ Cardinality(Started(c)') = Cardinality(Started(c)) + 1
    <2>1. Cardinality(Queued(c)') = Cardinality(Queued(c)) - 1
      BY <1>12, CountedSetsFinite, CardinalityRemove
    <2>2. Cardinality(Started(c)') = Cardinality(Started(c)) + 1
      <3>1. IsFiniteSet(Started(c))
        BY CountedSetsFinite
      <3>2. Started(c)' = Started(c) \cup {r} /\ r \notin Started(c)
        BY <1>12
      <3> QED
        BY <3>1, <3>2, FS_AddElement
    <2> QED
      BY <2>1, <2>2
  <1>14. CounterInv'
    <2> SUFFICES ASSUME NEW k \in Chats PROVE Tally(k)'
      BY DEF CounterInv
    <2>1. CASE k = c
      <3>1. /\ d.pool <= pool /\ d.inFlight = Cardinality(Started(c))
            /\ d.semaphore + d.inFlight = d.limit
            /\ d.queueDepth = Cardinality(Queued(c))
            /\ d.pending = d.queueDepth + d.inFlight
            /\ d.pending <= d.limit
            /\ ~d.revoked
        BY <1>6, <1>7 DEF Tally, d
      <3>2. /\ e.pool <= pool' /\ e.inFlight = Cardinality(Started(c)')
            /\ e.semaphore + e.inFlight = e.limit
            /\ e.queueDepth = Cardinality(Queued(c)')
            /\ e.pending = e.queueDepth + e.inFlight
            /\ e.pending <= e.limit
            /\ ~e.revoked /\ e.status \in Serving
        BY <1>1, <1>2, <1>3, <1>6, <1>13, <3>1
      <3> QED
        BY <1>5, <2>1, <3>2 DEF Tally
    <2>2. CASE k # c
      BY <1>2, <1>5, <1>12, <2>2 DEF IInv, CounterInv, Tally
    <2> QED
      BY <2>1, <2>2
  <1>15. SlotsConserved'
    BY <1>2, <1>12 DEF IInv, SlotsConserved
  <1> QED
    BY <1>8, <1>9, <1>10, <1>11, <1>14, <1>15 DEF Rest

(* Taking a machine slot changes what nothing else depends on. *)
LEMMA TakeSlotKeeps ==
  ASSUME IInv, NEW r \in Requests, TakeSlot(r)
  PROVE  Rest' /\ SlotsConserved'
  <1> DEFINE n == [req[r] EXCEPT !.phase = "running"]
  <1>1. req[r] \in Request
    BY DEF IInv, TypeOK
  <1>2. /\ req' = [req EXCEPT ![r] = n]
        /\ daemon' = daemon /\ generation' = generation /\ pool' = pool
        /\ slotsFree' = slotsFree - 1
        /\ req[r].phase = "waiting" /\ req[r].pool = pool
    BY DEF TakeSlot
  <1>3. /\ n.phase = "running" /\ n.chat = req[r].chat /\ n.ws = req[r].ws
        /\ n.gen = req[r].gen /\ n.pool = req[r].pool
        /\ n.cancelled = req[r].cancelled
    BY <1>1 DEF Request
  <1> HIDE DEF n
  <1>4. req'[r] = n /\ \A q \in Requests \ {r} : req'[q] = req[q]
    BY <1>2 DEF IInv, TypeOK
  <1>5. RequestInv' /\ CurrentInv'
    BY <1>2, <1>3, <1>4
       DEF IInv, RequestInv, CurrentInv, Current, InUse, HasWork
  <1>6. TaskInv' /\ IdleDetachCutsNothing'
    BY <1>2, <1>3, <1>4
       DEF IInv, TaskInv, IdleDetachCutsNothing, TypeOK, Daemon
  <1>7. /\ \A k \in Chats : /\ Started(k)' = Started(k)
                            /\ Queued(k)' = Queued(k)
        /\ Holding(pool)' = Holding(pool) \cup {r} /\ r \notin Holding(pool)
    BY <1>2, <1>3, <1>4 DEF Started, Queued, Holding
  <1>8. CounterInv'
    BY <1>2, <1>7 DEF IInv, CounterInv, Tally
  <1>9. Cardinality(Holding(pool)') = Cardinality(Holding(pool)) + 1
    BY <1>7, CountedSetsFinite, FS_AddElement
  <1>10. slotsFree \in Nat /\ Cardinality(Holding(pool)) \in Nat
    BY CountedSetsFinite DEF IInv, TypeOK
  <1>11. SlotsConserved'
    BY <1>2, <1>9, <1>10, DispatchAssumption DEF IInv, SlotsConserved
  <1> QED
    BY <1>5, <1>6, <1>8, <1>11 DEF Rest

(* Every request step keeps the invariant. *)
LEMMA RequestStepKeeps ==
  ASSUME IInv, NEW r \in Requests, RequestStep(r)
  PROVE  IInv'
  <1>1. SUFFICES Rest' /\ SlotsConserved'
    BY RequestStepType DEF Rest, IInv
  <1>2. ASSUME NEW c \in Chats, Admit(c, r)
        PROVE  Rest' /\ SlotsConserved'
    BY <1>2, AdmitKeeps
  <1>3. CASE Start(r)
    <2>1. req[r].chat \in Chats
      BY <1>3 DEF Start, IInv, RequestInv, InUse
    <2> QED
      BY <1>3, <2>1, StartKeeps
  <1>4. CASE TakeSlot(r)
    BY <1>4, TakeSlotKeeps
  <1>5. CASE Finish(r)
    <2>1. /\ HasWork(r) /\ Respond(r) /\ ReleaseSlot(r) /\ pool' = pool
          /\ req[r].phase = "running"
      BY <1>5 DEF Finish, HasWork, ReleaseSlot
    <2>2. Rest'
      BY <2>1, RespondKeepsRest
    <2>3. Ends(r)
      BY <2>1, WaysOut
    <2> QED
      BY <2>1, <2>2, <2>3, EndKeepsSlots
  <1>6. CASE SlotTimeout(r)
    <2>1. /\ HasWork(r) /\ Respond(r) /\ UNCHANGED machine /\ pool' = pool
          /\ req[r].phase # "running"
      BY <1>6 DEF SlotTimeout, WaitIsOver, HasWork, machine
    <2>2. Rest'
      BY <2>1, RespondKeepsRest
    <2>3. Ends(r)
      BY <2>1, WaysOut
    <2> QED
      BY <2>1, <2>2, <2>3, EndKeepsSlots
  <1>7. CASE Drop(r) \/ UnwindRunning(r)
    <2>1. /\ HasWork(r) /\ EndTask(r, Settled(r)) /\ ReleaseSlot(r)
          /\ pool' = pool /\ req[r].phase = "running" /\ InUse(r)
      BY <1>7 DEF Drop, UnwindRunning, HasWork, ReleaseSlot, InUse
    <2>2. Rest'
      BY <2>1, SettledFields, EndTaskKeepsRest
    <2>3. Ends(r)
      BY <2>1, WaysOut
    <2> QED
      BY <2>1, <2>2, <2>3, EndKeepsSlots
  <1>8. CASE UnwindWaiting(r)
    <2>1. /\ HasWork(r) /\ EndTask(r, Settled(r)) /\ UNCHANGED machine
          /\ pool' = pool /\ req[r].phase # "running" /\ InUse(r)
      BY <1>8 DEF UnwindWaiting, HasWork, InUse, machine
    <2>2. Rest'
      BY <2>1, SettledFields, EndTaskKeepsRest
    <2>3. Ends(r)
      BY <2>1, WaysOut
    <2> QED
      BY <2>1, <2>2, <2>3, EndKeepsSlots
  <1>9. CASE EdgeStatus(r) \/ UnwindUnstarted(r)
    <2> DEFINE d == daemon[req[r].chat]
               told == Told(r, d)
    <2>1. /\ InUse(r) /\ UNCHANGED machine /\ pool' = pool
          /\ req[r].phase \in {"queued", "edge"}
          /\ req[r].phase = "queued" => req[r].cancelled
          /\ EndTask(r, d) \/ EndTask(r, told)
      BY <1>9 DEF EdgeStatus, UnwindUnstarted, InUse, machine
    <2>2. SameLife(d, d)
      BY <2>1 DEF IInv, TypeOK, RequestInv, SameLife
    <2>3. /\ SameLife(told, d) /\ told.tasks = d.tasks
          /\ told.pending = d.pending /\ told.inFlight = d.inFlight
          /\ told.semaphore = d.semaphore
      BY <2>1, <2>2, ToldFields
    <2>4. /\ r \notin Started(req[r].chat)
          /\ d.status \in Serving => r \notin Queued(req[r].chat)
      BY <2>1 DEF Started, Queued, IInv, CurrentInv, Current
    <2>5. Accounts(r, d) /\ Accounts(r, told)
      BY <2>3, <2>4 DEF Accounts
    <2>6. Rest'
      BY <2>1, <2>2, <2>3, <2>5, EndTaskKeepsRest
    <2>7. Ends(r)
      BY <2>1, WaysOut
    <2> QED
      BY <2>1, <2>6, <2>7, EndKeepsSlots
  <1> QED
    BY <1>2, <1>3, <1>4, <1>5, <1>6, <1>7, <1>8, <1>9 DEF RequestStep

-----------------------------------------------------------------------------
(* Connections that go on, end, and begin *)

(* A step replaces the daemon of one chat. *)
Replaces(c, e) ==
    /\ e \in Daemon
    /\ daemon' = [daemon EXCEPT ![c] = e]

(* e counts what d counts, on the same connection. *)
SameCounters(e, d) ==
    /\ e.limit = d.limit /\ e.pool = d.pool /\ e.tasks = d.tasks
    /\ e.queueDepth = d.queueDepth /\ e.pending = d.pending
    /\ e.inFlight = d.inFlight /\ e.semaphore = d.semaphore

(* A step that leaves the requests alone, and the connection as it was,    *)
(* serving on, or closed after its revocation, keeps the invariant.        *)
LEMMA QuietKeeps ==
  ASSUME IInv, NEW c \in Chats, NEW e, Replaces(c, e),
         SameCounters(e, daemon[c]),
         \/ e.status = daemon[c].status
         \/ daemon[c].status = "revoking" /\ e.status = "ending"
         \/ daemon[c].status \in Serving /\ e.status \in Serving,
         e.revoked = daemon[c].revoked,
         daemon[c].disableReconnect => e.disableReconnect,
         e.detaching => e.tasks = {},
         UNCHANGED <<generation, req, machine>>
  PROVE  Rest' /\ SlotsConserved'
  <1>1. /\ daemon'[c] = e /\ \A k \in Chats \ {c} : daemon'[k] = daemon[k]
        /\ generation' = generation /\ req' = req /\ pool' = pool
        /\ slotsFree' = slotsFree
    BY DEF IInv, TypeOK, Replaces, machine
  <1>2. /\ \A k \in Chats : Queued(k)' = Queued(k) /\ Started(k)' = Started(k)
        /\ Holding(pool)' = Holding(pool)
    BY <1>1 DEF Queued, Started, Holding
  <1>3. RequestInv' /\ SlotsConserved'
    BY <1>1, <1>2
       DEF IInv, RequestInv, SlotsConserved, InUse, HasWork
  <1>4. TaskInv' /\ IdleDetachCutsNothing'
    BY <1>1 DEF IInv, TaskInv, IdleDetachCutsNothing, SameCounters
  <1>5. CurrentInv'
    <2> SUFFICES ASSUME NEW q \in Requests, InUse(q)'
                 PROVE  Current(q)'
      BY DEF CurrentInv
    <2>1. InUse(q) /\ Current(q) /\ req[q].chat \in Chats
      BY <1>1 DEF IInv, CurrentInv, RequestInv, InUse
    <2>2. CASE req[q].chat = c
      BY <1>1, <2>1, <2>2 DEF Current, SameCounters
    <2>3. CASE req[q].chat # c
      BY <1>1, <2>1, <2>3 DEF Current
    <2> QED
      BY <2>2, <2>3
  <1>6. CounterInv'
    <2> SUFFICES ASSUME NEW k \in Chats PROVE Tally(k)'
      BY DEF CounterInv
    <2>1. Tally(k)
      BY DEF IInv, CounterInv
    <2>2. CASE k = c
      BY <1>1, <1>2, <2>1, <2>2 DEF Tally, SameCounters
    <2>3. CASE k # c
      BY <1>1, <1>2, <2>1, <2>3 DEF Tally
    <2> QED
      BY <2>2, <2>3
  <1> QED
    BY <1>3, <1>4, <1>5, <1>6 DEF Rest

(* A connection that ends takes the counters along and cancels exactly its *)
(* own requests.                                                           *)
LEMMA EndingKeeps ==
  ASSUME IInv, NEW c \in Chats, NEW e, Replaces(c, e),
         SameCounters(e, daemon[c]),
         daemon[c].status \in Serving \cup {"revoking"},
         e.status \in {"revoking", "ending"},
         e.revoked => e.disableReconnect,
         e.status = "revoking" => e.revoked,
         e.detaching = daemon[c].detaching,
         CancelRequests(c), UNCHANGED <<generation, machine>>
  PROVE  Rest' /\ SlotsConserved'
  <1>1. /\ daemon'[c] = e /\ \A k \in Chats \ {c} : daemon'[k] = daemon[k]
        /\ generation' = generation /\ pool' = pool
        /\ slotsFree' = slotsFree
    BY DEF IInv, TypeOK, Replaces, machine
  <1>2. \A q \in Requests :
           /\ req'[q].phase = req[q].phase /\ req'[q].chat = req[q].chat
           /\ req'[q].ws = req[q].ws /\ req'[q].gen = req[q].gen
           /\ req'[q].pool = req[q].pool
           /\ q \in daemon[c].tasks => req'[q].cancelled
           /\ q \notin daemon[c].tasks => req'[q].cancelled = req[q].cancelled
    BY DEF CancelRequests, IInv, TypeOK, Request
  <1>3. /\ \A k \in Chats : Queued(k)' = Queued(k) /\ Started(k)' = Started(k)
        /\ Holding(pool)' = Holding(pool)
    BY <1>1, <1>2 DEF Queued, Started, Holding
  <1>4. RequestInv' /\ SlotsConserved'
    BY <1>1, <1>2, <1>3
       DEF IInv, RequestInv, SlotsConserved, InUse, HasWork
  <1>5. TaskInv'
    BY <1>1, <1>2 DEF IInv, TypeOK, Daemon, TaskInv, SameCounters
  <1>6. IdleDetachCutsNothing'
    BY <1>1 DEF IInv, IdleDetachCutsNothing, SameCounters
  <1>7. CurrentInv'
    <2> SUFFICES ASSUME NEW q \in Requests, InUse(q)'
                 PROVE  Current(q)'
      BY DEF CurrentInv
    <2>1. InUse(q) /\ Current(q) /\ req[q].chat \in Chats
      BY <1>2 DEF IInv, CurrentInv, RequestInv, InUse
    <2>2. CASE req[q].chat = c
      BY <1>1, <1>2, <2>1, <2>2 DEF Current
    <2>3. CASE req[q].chat # c
      <3>1. q \notin daemon[c].tasks
        BY <2>3 DEF IInv, TaskInv
      <3> QED
        BY <1>1, <1>2, <2>1, <2>3, <3>1 DEF Current
    <2> QED
      BY <2>2, <2>3
  <1>8. CounterInv'
    <2> SUFFICES ASSUME NEW k \in Chats PROVE Tally(k)'
      BY DEF CounterInv
    <2>1. Tally(k)
      BY DEF IInv, CounterInv
    <2>2. CASE k = c
      BY <1>1, <1>3, <2>1, <2>2 DEF Tally, SameCounters
    <2>3. CASE k # c
      BY <1>1, <1>3, <2>1, <2>3 DEF Tally
    <2> QED
      BY <2>2, <2>3
  <1> QED
    BY <1>4, <1>5, <1>6, <1>7, <1>8 DEF Rest

(* Whatever replaces a daemon that has no connection starts from zero: no  *)
(* request of an earlier connection counts in it.                          *)
LEMMA RenewalKeeps ==
  ASSUME IInv, NEW c \in Chats, NEW e, Replaces(c, e),
         NEW g \in Nat, generation' = [generation EXCEPT ![c] = g],
         \/ e.status = "absent" /\ g >= generation[c]
         \/ e.status = "backoff" /\ g > generation[c]
         \/ /\ e.status \in {"up", "stopping"} /\ daemon[c].status = "backoff"
            /\ g = generation[c]
            /\ e.semaphore = e.limit /\ e.pending = 0 /\ e.queueDepth = 0,
         daemon[c].status \in {"absent", "backoff", "ending"},
         e.inFlight = 0, ~e.revoked,
         e.pool <= pool,
         e.tasks = {} \/ e.tasks = daemon[c].tasks,
         e.detaching => daemon[c].detaching,
         UNCHANGED <<req, machine>>
  PROVE  Rest' /\ SlotsConserved'
  <1>1. /\ daemon'[c] = e /\ \A k \in Chats \ {c} : daemon'[k] = daemon[k]
        /\ generation'[c] = g
        /\ \A k \in Chats \ {c} : generation'[k] = generation[k]
        /\ req' = req /\ pool' = pool /\ slotsFree' = slotsFree
    BY DEF IInv, TypeOK, Replaces, machine
  <1>2. /\ generation[c] \in Nat /\ e.limit \in Nat /\ g >= generation[c]
        /\ \A q \in Requests : req[q].ws \in Nat
    BY DispatchAssumption DEF IInv, TypeOK, Replaces, Daemon, Request
  <1>3. /\ \A k \in Chats \ {c} : /\ Queued(k)' = Queued(k)
                                  /\ Started(k)' = Started(k)
        /\ Holding(pool)' = Holding(pool)
    BY <1>1 DEF Queued, Started, Holding
  <1>4. \A q \in Requests : InUse(q) /\ req[q].chat = c =>
           /\ req[q].cancelled
           /\ req[q].ws <= generation[c]
           /\ e.status \in {"backoff", "up", "stopping"} => req[q].ws < g
           /\ HasWork(q) => req[q].gen = req[q].ws
    <2> SUFFICES ASSUME NEW q \in Requests, InUse(q), req[q].chat = c
                 PROVE  /\ req[q].cancelled
                        /\ req[q].ws <= generation[c]
                        /\ e.status \in {"backoff", "up", "stopping"} => req[q].ws < g
                        /\ HasWork(q) => req[q].gen = req[q].ws
      OBVIOUS
    <2>1. Current(q)
      BY DEF IInv, CurrentInv
    <2>2. req[q].cancelled
      BY <2>1 DEF Current
    <2>3. req[q].ws <= generation[c] /\ (HasWork(q) => req[q].gen = req[q].ws)
      BY DEF IInv, RequestInv
    <2>4. daemon[c].status = "backoff" => req[q].ws < generation[c]
      BY <2>1 DEF Current
    <2> QED
      BY <1>2, <2>2, <2>3, <2>4
  <1>5. e.status \in {"backoff", "up", "stopping"} => /\ Queued(c)' = {}
                                          /\ Started(c)' = {}
    BY <1>1, <1>2, <1>4 DEF Queued, Started, InUse, HasWork
  <1>6. RequestInv'
    <2> SUFFICES ASSUME NEW q \in Requests
                 PROVE  (/\ InUse(q) => /\ req[q].chat \in Chats
                                        /\ req[q].ws <= generation[req[q].chat]
                         /\ HasWork(q) => req[q].gen = req[q].ws
                         /\ req[q].pool <= pool)'
      BY DEF RequestInv
    <2>1. CASE req[q].chat = c
      BY <1>1, <1>2, <2>1 DEF IInv, RequestInv, InUse, HasWork
    <2>2. CASE req[q].chat # c
      BY <1>1, <2>2 DEF IInv, RequestInv, InUse, HasWork
    <2> QED
      BY <2>1, <2>2
  <1>7. CurrentInv'
    <2> SUFFICES ASSUME NEW q \in Requests, InUse(q)'
                 PROVE  Current(q)'
      BY DEF CurrentInv
    <2>1. InUse(q) /\ req[q].chat \in Chats /\ Current(q)
      BY <1>1 DEF IInv, RequestInv, CurrentInv, InUse
    <2>2. CASE req[q].chat = c
      BY <1>1, <1>2, <1>4, <2>1, <2>2 DEF Current
    <2>3. CASE req[q].chat # c
      BY <1>1, <2>1, <2>3 DEF Current
    <2> QED
      BY <2>2, <2>3
  <1>8. TaskInv' /\ IdleDetachCutsNothing'
    BY <1>1 DEF IInv, TaskInv, IdleDetachCutsNothing
  <1>9. CounterInv'
    <2> SUFFICES ASSUME NEW k \in Chats PROVE Tally(k)'
      BY DEF CounterInv
    <2>1. CASE k = c
      <3>1. daemon'[k] = e /\ pool' = pool
        BY <1>1, <2>1
      <3>2. e.status # "absent" => e.inFlight = Cardinality(Started(k)')
        BY <1>2, <1>5, <2>1, FS_EmptySet
      <3>3. e.status \in Serving =>
              /\ e.semaphore = e.limit /\ e.pending = 0 /\ e.queueDepth = 0
              /\ Cardinality(Queued(k)') = 0
        BY <1>5, <2>1, FS_EmptySet
      <3>4. e.status \notin {"revoking", "ending"}
        OBVIOUS
      <3> QED
        BY <1>2, <3>1, <3>2, <3>3, <3>4 DEF Tally
    <2>2. CASE k # c
      BY <1>1, <1>3, <2>2 DEF IInv, CounterInv, Tally
    <2> QED
      BY <2>1, <2>2
  <1>10. SlotsConserved'
    BY <1>1, <1>3 DEF IInv, SlotsConserved
  <1> QED
    BY <1>6, <1>7, <1>8, <1>9, <1>10 DEF Rest

(* Every chat step keeps the invariant. *)
LEMMA ChatStepKeeps ==
  ASSUME IInv, NEW c \in Chats, ChatStep(c)
  PROVE  IInv'
  <1> SUFFICES Rest' /\ SlotsConserved'
    BY ChatStepType DEF Rest, IInv
  <1> DEFINE d == daemon[c]
  <1>1. /\ d \in Daemon /\ daemon \in [Chats -> Daemon]
        /\ generation \in [Chats -> Nat] /\ generation[c] \in Nat
    BY DEF IInv, TypeOK
  <1>2. /\ Tally(c) /\ (d.detaching => d.tasks = {})
    BY DEF IInv, CounterInv, IdleDetachCutsNothing
  <1>3. daemon' \in [Chats -> Daemon]
    BY ChatStepType DEF TypeOK
  <1>4. daemon'[c] \in Daemon
    BY <1>3
  <1>5. ASSUME NEW h \in Nat \cup {NoSignal},
               daemon' = [daemon EXCEPT ![c].heard = h],
               UNCHANGED <<generation, req, machine>>
        PROVE  Rest' /\ SlotsConserved'
    <2> DEFINE e == [d EXCEPT !.heard = h]
    <2>1. Replaces(c, e) /\ SameCounters(e, d) /\ e.status = d.status
          /\ e.revoked = d.revoked /\ e.disableReconnect = d.disableReconnect
          /\ e.detaching = d.detaching
      BY <1>1, <1>5 DEF Replaces, SameCounters, Daemon
    <2> HIDE DEF e
    <2> QED
      BY <1>2, <1>5, <2>1, QuietKeeps DEF SameCounters
  <1>6. CASE Refuse(c)
    BY <1>5, <1>6 DEF Refuse
  <1>7. CASE Ticker(c)
    <2>1. AvailableCapacity(d) \in Nat
      BY <1>1, CapacityType
    <2> QED
      BY <1>5, <1>7, <2>1 DEF Ticker
  <1>8. ASSUME NEW b \in BOOLEAN, b => d.tasks = {},
               daemon' = [daemon EXCEPT ![c].detaching = b],
               UNCHANGED <<generation, req, machine>>
        PROVE  Rest' /\ SlotsConserved'
    <2> DEFINE e == [d EXCEPT !.detaching = b]
    <2>1. Replaces(c, e) /\ SameCounters(e, d) /\ e.status = d.status
          /\ e.revoked = d.revoked /\ e.disableReconnect = d.disableReconnect
          /\ e.detaching = b
      BY <1>1, <1>8 DEF Replaces, SameCounters, Daemon
    <2> HIDE DEF e
    <2> QED
      BY <1>8, <2>1, QuietKeeps DEF SameCounters
  <1>9. CASE ReapDecide(c)
    BY <1>8, <1>9 DEF ReapDecide, IdleSince
  <1>10. CASE ReapAbandon(c)
    BY <1>8, <1>10 DEF ReapAbandon
  <1>11. CASE RevokedClosed(c)
    <2> DEFINE e == [d EXCEPT !.status = "ending"]
    <2>1. Replaces(c, e) /\ SameCounters(e, d) /\ e.status = "ending"
          /\ e.revoked = d.revoked /\ e.disableReconnect = d.disableReconnect
          /\ e.detaching = d.detaching
      BY <1>1, <1>11 DEF RevokedClosed, Replaces, SameCounters, Daemon, Status
    <2> HIDE DEF e
    <2> QED
      BY <1>2, <1>11, <2>1, QuietKeeps DEF RevokedClosed, SameCounters
  <1>12. CASE Disconnect(c) \/ CloseAudited(c)
    <2> DEFINE e == [d EXCEPT !.status = "ending"]
    <2>1. Replaces(c, e) /\ SameCounters(e, d) /\ e.status = "ending"
          /\ e.revoked = d.revoked /\ e.detaching = d.detaching
      BY <1>1, <1>12
         DEF Disconnect, CloseAudited, Replaces, SameCounters, Daemon, Status
    <2>2. d.status \in Serving /\ CancelRequests(c)
          /\ UNCHANGED <<generation, machine>>
      BY <1>12 DEF Disconnect, CloseAudited
    <2> HIDE DEF e
    <2>3. ~e.revoked
      BY <1>2, <2>1, <2>2 DEF Tally
    <2> QED
      BY <2>1, <2>2, <2>3, EndingKeeps
  <1>21. CASE FatalClose(c)
    <2> DEFINE e == [d EXCEPT !.status = "closing", !.disableReconnect = TRUE]
    <2>1. Replaces(c, e) /\ SameCounters(e, d) /\ e.status = "closing"
          /\ e.revoked = d.revoked /\ e.disableReconnect
          /\ e.detaching = d.detaching
      BY <1>1, <1>21 DEF FatalClose, Replaces, SameCounters, Daemon, Status
    <2> HIDE DEF e
    <2> QED
      BY <1>2, <1>21, <2>1, QuietKeeps DEF FatalClose, SameCounters
  <1>22. CASE StopBegin(c)
    <2>1. PICK st : /\ daemon' = [daemon EXCEPT ![c].running = FALSE,
                                               ![c].status = st]
                    /\ \/ st = d.status
                       \/ d.status = "up" /\ st = "stopping"
      BY <1>22 DEF StopBegin
    <2> DEFINE e == [d EXCEPT !.running = FALSE, !.status = st]
    <2>2. Replaces(c, e) /\ SameCounters(e, d) /\ e.status = st
          /\ e.revoked = d.revoked /\ e.disableReconnect = d.disableReconnect
          /\ e.detaching = d.detaching
      BY <1>1, <2>1 DEF Replaces, SameCounters, Daemon, Status
    <2> HIDE DEF e
    <2> QED
      BY <1>2, <1>22, <2>1, <2>2, QuietKeeps DEF StopBegin, SameCounters
  <1>13. CASE Revoke(c)
    <2> DEFINE e == [d EXCEPT !.status = "revoking", !.revoked = TRUE,
                              !.disableReconnect = TRUE]
    <2>1. Replaces(c, e) /\ SameCounters(e, d) /\ e.status = "revoking"
          /\ e.revoked /\ e.disableReconnect /\ e.detaching = d.detaching
      BY <1>1, <1>13 DEF Revoke, Replaces, SameCounters, Daemon, Status
    <2>2. d.status \in Serving /\ CancelRequests(c)
          /\ UNCHANGED <<generation, machine>>
      BY <1>13 DEF Revoke
    <2> HIDE DEF e
    <2> QED
      BY <2>1, <2>2, EndingKeeps
  <1>14. CASE StopCancels(c) /\ d.status \notin {"backoff", "ending"}
    <2> DEFINE e == [d EXCEPT !.status = "ending"]
    <2>1. Replaces(c, e) /\ SameCounters(e, d) /\ e.status = "ending"
          /\ e.revoked = d.revoked /\ e.disableReconnect = d.disableReconnect
          /\ e.detaching = d.detaching
      BY <1>1, <1>14 DEF StopCancels, Replaces, SameCounters, Daemon, Status
    <2>2. d.status \in Serving \cup {"revoking"} /\ CancelRequests(c)
          /\ UNCHANGED <<generation, machine>>
      BY <1>1, <1>14 DEF StopCancels, Daemon, Status
    <2>3. e.revoked => e.disableReconnect
      BY <1>2, <2>1 DEF Tally
    <2> HIDE DEF e
    <2> QED
      BY <2>1, <2>2, <2>3, EndingKeeps
  <1>15. CASE Connect(c)
    <2> DEFINE st == IF daemon[c].running THEN "up" ELSE "stopping"
    <2>1. PICK max \in 1..MachineSlots :
             daemon' = [daemon EXCEPT ![c].status = st, ![c].limit = max,
                                      ![c].semaphore = max, ![c].pending = 0,
                                      ![c].queueDepth = 0, ![c].inFlight = 0,
                                      ![c].revoked = FALSE,
                                      ![c].heard = NoSignal]
      BY <1>15 DEF Connect
    <2>0. st \in {"up", "stopping"}
      OBVIOUS
    <2> HIDE DEF st
    <2> DEFINE e == daemon'[c]
    <2>2. /\ daemon' = [daemon EXCEPT ![c] = e]
          /\ e.status = st /\ e.limit = max /\ e.semaphore = max
          /\ e.pending = 0 /\ e.queueDepth = 0 /\ e.inFlight = 0
          /\ e.revoked = FALSE /\ e.pool = d.pool /\ e.tasks = d.tasks
          /\ e.detaching = d.detaching
      BY ZenonT(40), <1>1, <2>1 DEF Daemon
    <2>3. Replaces(c, e)
      BY <1>4, <2>2 DEF Replaces
    <2>4. /\ d.status = "backoff" /\ UNCHANGED <<req, machine>>
          /\ generation' = [generation EXCEPT ![c] = generation[c]]
      BY <1>1, <1>15 DEF Connect
    <2>5. e.pool <= pool
      BY <1>2, <2>2 DEF Tally
    <2> HIDE DEF e, d
    <2> QED
      BY <1>1, <2>0, <2>2, <2>3, <2>4, <2>5, RenewalKeeps DEF d
  <1>16. CASE DrainDone(c) /\ GoesOn(d)
    <2> DEFINE e == [d EXCEPT !.status = "backoff", !.tasks = {}, !.pending = 0,
                              !.queueDepth = 0, !.inFlight = 0]
    <2>1. /\ Replaces(c, e) /\ e.status = "backoff" /\ e.tasks = {}
          /\ e.inFlight = 0 /\ e.revoked = d.revoked /\ e.pool = d.pool
          /\ e.detaching = d.detaching
      BY <1>1, <1>16 DEF DrainDone, Replaces, Daemon, Status
    <2>2. /\ d.status = "ending" /\ UNCHANGED <<req, machine>>
          /\ generation' = [generation EXCEPT ![c] = generation[c] + 1]
      BY <1>16 DEF DrainDone, Drained
    <2> HIDE DEF e
    <2>3. ~e.revoked /\ e.pool <= pool
      BY <1>2, <1>16, <2>1 DEF Tally, GoesOn
    <2>4. generation[c] + 1 \in Nat /\ generation[c] + 1 > generation[c]
      BY <1>1
    <2> QED
      BY <2>1, <2>2, <2>3, <2>4, RenewalKeeps
  <1>17. ASSUME NEW g \in Nat, g >= generation[c],
                d.status \in {"backoff", "ending"},
                daemon' = [daemon EXCEPT ![c] = NoDaemon],
                generation' = [generation EXCEPT ![c] = g],
                UNCHANGED <<req, machine>>
         PROVE  Rest' /\ SlotsConserved'
    <2>1. /\ Replaces(c, NoDaemon) /\ NoDaemon.status = "absent"
          /\ NoDaemon.tasks = {} /\ NoDaemon.inFlight = 0
          /\ ~NoDaemon.revoked /\ ~NoDaemon.detaching /\ NoDaemon.pool = 0
      BY <1>17, EmptyTypes DEF Replaces, NoDaemon
    <2>2. NoDaemon.pool <= pool
      BY <2>1 DEF IInv, TypeOK
    <2> QED
      BY <1>17, <2>1, <2>2, RenewalKeeps
  <1>18. CASE DrainDone(c) /\ ~GoesOn(d)
    <2>1. generation[c] + 1 \in Nat /\ generation[c] + 1 >= generation[c]
      BY <1>1
    <2> QED
      BY <1>17, <1>18, <2>1 DEF DrainDone, Drained
  <1>19. CASE StopCancels(c) /\ d.status \in {"backoff", "ending"}
    <2>1. generation' = [generation EXCEPT ![c] = generation[c]]
      BY <1>1, <1>19 DEF StopCancels
    <2>2. generation[c] \in Nat /\ generation[c] >= generation[c]
      BY <1>1
    <2>3. /\ d.status \in {"backoff", "ending"} /\ UNCHANGED <<req, machine>>
          /\ daemon' = [daemon EXCEPT ![c] = NoDaemon]
      BY <1>19 DEF StopCancels
    <2> QED
      BY <1>17, <2>1, <2>2, <2>3
  <1>20. CASE StartChild(c)
    <2> DEFINE e == [NoDaemon EXCEPT !.status = "backoff", !.running = TRUE,
                                     !.pool = pool]
    <2>1. /\ Replaces(c, e) /\ e.status = "backoff" /\ e.tasks = {}
          /\ e.inFlight = 0 /\ ~e.revoked /\ ~e.detaching /\ e.pool = pool
      BY <1>20, EmptyTypes
         DEF StartChild, Replaces, NoDaemon, Daemon, Status, IInv, TypeOK
    <2>2. /\ d.status = "absent" /\ UNCHANGED <<req, machine>>
          /\ generation' = [generation EXCEPT ![c] = generation[c] + 1]
      BY <1>20 DEF StartChild
    <2>3. /\ generation[c] + 1 \in Nat /\ generation[c] + 1 > generation[c]
          /\ e.pool <= pool
      BY <1>1, <2>1 DEF IInv, TypeOK
    <2> HIDE DEF e
    <2> QED
      BY <2>1, <2>2, <2>3, RenewalKeeps
  <1> QED
    BY <1>6, <1>7, <1>9, <1>10, <1>11, <1>12, <1>13, <1>14, <1>15, <1>16,
       <1>18, <1>19, <1>20, <1>21, <1>22 DEF ChatStep

(* A new control connection starts with every slot of its pool free. *)
LEMMA ControlReconnectKeeps ==
  ASSUME IInv, ControlReconnect
  PROVE  IInv'
  <1>1. /\ pool' = pool + 1 /\ slotsFree' = MachineSlots
        /\ daemon' = daemon /\ generation' = generation /\ req' = req
    BY DEF ControlReconnect
  <1>2. pool \in Nat /\ req \in [Requests -> Request] /\ MachineSlots \in Nat
    BY DispatchAssumption DEF IInv, TypeOK
  <1>3. /\ \A c \in Chats : Queued(c)' = Queued(c) /\ Started(c)' = Started(c)
        /\ Holding(pool)' = {}
    BY <1>1, <1>2 DEF Queued, Started, Holding, IInv, RequestInv
  <1>4. SlotsConserved'
    BY <1>1, <1>2, <1>3, FS_EmptySet DEF SlotsConserved
  <1>5. TypeOK' /\ CurrentInv' /\ TaskInv' /\ IdleDetachCutsNothing'
    BY <1>1, <1>2 DEF IInv, TypeOK, CurrentInv, Current, TaskInv, InUse,
                      IdleDetachCutsNothing
  <1>6. RequestInv'
    BY <1>1, <1>2 DEF IInv, RequestInv, Request, InUse, HasWork
  <1>7. CounterInv'
    BY <1>1, <1>2, <1>3 DEF IInv, TypeOK, Daemon, CounterInv, Tally
  <1> QED
    BY <1>4, <1>5, <1>6, <1>7 DEF IInv

-----------------------------------------------------------------------------
(* The invariant *)

(* The program starts with no child, no request, and every slot free. *)
LEMMA InitInv == Init => IInv
  <1> SUFFICES ASSUME Init PROVE IInv
    OBVIOUS
  <1>1. /\ \A c \in Chats : daemon[c] = NoDaemon /\ generation[c] = 0
        /\ \A r \in Requests : req[r] = NoRequest
        /\ pool = 1 /\ slotsFree = MachineSlots /\ MachineSlots \in Nat
    BY DispatchAssumption DEF Init
  <1>2. /\ NoRequest.phase = "none" /\ NoRequest.pool = 0
        /\ NoDaemon.status = "absent" /\ NoDaemon.pool = 0
        /\ NoDaemon.tasks = {} /\ ~NoDaemon.revoked /\ ~NoDaemon.detaching
    BY DEF NoRequest, NoDaemon
  <1>3. TypeOK
    BY <1>1, EmptyTypes DEF Init, TypeOK
  <1>4. RequestInv /\ CurrentInv /\ TaskInv
    BY <1>1, <1>2 DEF RequestInv, CurrentInv, TaskInv, InUse, HasWork
  <1>5. CounterInv /\ IdleDetachCutsNothing
    BY <1>1, <1>2 DEF CounterInv, Tally, IdleDetachCutsNothing
  <1>6. Holding(pool) = {}
    BY <1>1, <1>2 DEF Holding
  <1>7. SlotsConserved
    BY <1>1, <1>6, FS_EmptySet DEF SlotsConserved
  <1> QED
    BY <1>3, <1>4, <1>5, <1>7 DEF IInv

(* A step that changes nothing keeps it. *)
LEMMA StutterInv == IInv /\ UNCHANGED vars => IInv'
  <1> SUFFICES ASSUME IInv, UNCHANGED vars PROVE IInv'
    OBVIOUS
  <1>1. /\ daemon' = daemon /\ generation' = generation /\ req' = req
        /\ pool' = pool /\ slotsFree' = slotsFree
    BY DEF vars, machine
  <1>2. /\ \A c \in Chats : Queued(c)' = Queued(c) /\ Started(c)' = Started(c)
        /\ Holding(pool)' = Holding(pool)
    BY <1>1 DEF Queued, Started, Holding
  <1> QED
    BY <1>1, <1>2
       DEF IInv, TypeOK, RequestInv, CurrentInv, Current, TaskInv, CounterInv,
           Tally, SlotsConserved, IdleDetachCutsNothing, InUse, HasWork

(***************************************************************************)
(* The invariant holds in every reachable state, for every number of       *)
(* chats, requests and slots.                                              *)
(***************************************************************************)
THEOREM Invariance == Spec => []IInv
  <1>1. Init => IInv
    BY InitInv
  <1>2. IInv /\ [Next]_vars => IInv'
    <2> SUFFICES ASSUME IInv, [Next]_vars PROVE IInv'
      OBVIOUS
    <2>1. ASSUME NEW r \in Requests, RequestStep(r) PROVE IInv'
      BY <2>1, RequestStepKeeps
    <2>2. ASSUME NEW c \in Chats, ChatStep(c) PROVE IInv'
      BY <2>2, ChatStepKeeps
    <2>3. CASE ControlReconnect
      BY <2>3, ControlReconnectKeeps
    <2>4. CASE UNCHANGED vars
      BY <2>4, StutterInv
    <2> QED
      BY <2>1, <2>2, <2>3, <2>4 DEF Next
  <1> QED
    BY <1>1, <1>2, PTL DEF Spec

-----------------------------------------------------------------------------
(* What follows from it *)

(* Every variable keeps its type: in particular no counter, permit or slot *)
(* count goes below zero.                                                  *)
THEOREM TypeCorrect == Spec => []TypeOK
  <1>1. IInv => TypeOK
    BY DEF IInv
  <1> QED
    BY <1>1, Invariance, PTL

(* The counters of a connection that serves are exact (_dispatch's          *)
(* counted(), whatever work of earlier connections ends meanwhile).        *)
THEOREM CountersAreExact == Spec => []CountersExact
  <1>1. IInv => CountersExact
    BY DEF IInv, CounterInv, Tally, CountersExact
  <1> QED
    BY <1>1, Invariance, PTL

(* A request that _on_frame admits never waits for its connection's        *)
(* semaphore, and the negotiated limit is kept.                            *)
THEOREM AdmissionIsEnough == Spec => []AdmissionCoversSemaphore
  <1>1. IInv => AdmissionCoversSemaphore
    <2> SUFFICES ASSUME IInv PROVE AdmissionCoversSemaphore
      OBVIOUS
    <2>1. ASSUME NEW c \in Chats, daemon[c].status \in Serving
          PROVE  /\ daemon[c].semaphore + daemon[c].inFlight = daemon[c].limit
                 /\ daemon[c].inFlight = Cardinality(Started(c))
                 /\ daemon[c].queueDepth = Cardinality(Queued(c))
                 /\ daemon[c].queueDepth + daemon[c].inFlight <= daemon[c].limit
                 /\ daemon[c].semaphore \in Nat /\ daemon[c].limit \in Nat
                 /\ daemon[c].inFlight \in Nat /\ daemon[c].queueDepth \in Nat
      <3>1. daemon[c] \in Daemon /\ Tally(c)
        BY DEF IInv, TypeOK, CounterInv
      <3> QED
        BY <2>1, <3>1, DispatchAssumption DEF Tally, Daemon
    <2>2. ASSUME NEW r \in Requests, req[r].phase = "queued", ~req[r].cancelled
          PROVE  daemon[req[r].chat].semaphore > 0
      <3> DEFINE c == req[r].chat
      <3>1. c \in Chats /\ daemon[c].status \in Serving /\ r \in Queued(c)
        BY <2>2 DEF IInv, RequestInv, CurrentInv, Current, InUse, Queued
      <3>2. Cardinality(Queued(c)) \in Nat \ {0}
        BY <3>1, CountedSetsFinite, CardinalityRemove
      <3> QED
        BY <2>1, <3>1, <3>2
    <2>3. ASSUME NEW c \in Chats, daemon[c].status \in Serving
          PROVE  Cardinality(Started(c)) <= daemon[c].limit
      BY <2>1, <2>3
    <2> QED
      BY <2>2, <2>3 DEF AdmissionCoversSemaphore
  <1> QED
    BY <1>1, Invariance, PTL

(* No machine slot leaks and none is released twice. *)
THEOREM SlotsAreConserved == Spec => []SlotsConserved
  <1>1. IInv => SlotsConserved
    BY DEF IInv
  <1> QED
    BY <1>1, Invariance, PTL

(* A child the reaper decided on has nothing the stop would cut off. *)
THEOREM IdleDetachIsSafe == Spec => []IdleDetachCutsNothing
  <1>1. IInv => IdleDetachCutsNothing
    BY DEF IInv
  <1> QED
    BY <1>1, Invariance, PTL

-----------------------------------------------------------------------------
(* What no step may do: the action properties, from the invariant.         *)

(* A handler starts by taking a slot, and in no other way. *)
LEMMA RunningTookSlot ==
  ASSUME IInv, Next, NEW r \in Requests,
         req[r].phase # "running", req'[r].phase = "running"
  PROVE  TakeSlot(r)
  <1>1. req \in [Requests -> Request] /\ NoRequest.phase = "none"
    BY DEF IInv, TypeOK, NoRequest
  <1>2. ASSUME NEW q \in Requests, RequestStep(q)
        PROVE  TakeSlot(r)
    <2>1. CASE \E c \in Chats : Admit(c, q)
      BY <1>1, <2>1 DEF Admit, NoRequest
    <2>2. CASE Start(q)
      BY <1>1, <2>2 DEF Start, Request
    <2>3. CASE TakeSlot(q)
      BY <1>1, <2>3 DEF TakeSlot
    <2>4. CASE Respond(q) \/ \E d : EndTask(q, d)
      <3>1. \/ req' = [req EXCEPT ![q].phase = "edge"]
            \/ req' = [req EXCEPT ![q] = NoRequest]
        BY <2>4 DEF Respond, EndTask
      <3> QED
        BY <1>1, <3>1 DEF Request
    <2> QED
      BY <1>2, <2>1, <2>2, <2>3, <2>4
         DEF RequestStep, Finish, Drop, SlotTimeout, EdgeStatus,
             UnwindUnstarted, UnwindWaiting, UnwindRunning
  <1>3. ASSUME NEW c \in Chats, ChatStep(c)
        PROVE  req'[r].phase = req[r].phase
    <2>1. req' = req \/ CancelRequests(c)
      BY <1>3 DEF ChatStep, Refuse, Ticker, Connect, Disconnect, Revoke,
                  RevokedClosed, FatalClose, CloseAudited, DrainDone,
                  StartChild, StopBegin, StopCancels, ReapDecide, ReapAbandon
    <2> QED
      BY <1>1, <2>1 DEF CancelRequests, Request
  <1>4. ControlReconnect => req' = req
    BY DEF ControlReconnect
  <1> QED
    BY <1>2, <1>3, <1>4 DEF Next

(* A handler starts only for a request of the connection the child has,    *)
(* before that connection's requests are cancelled.                        *)
THEOREM EndedWorkStaysDown == Spec => EndedWorkNeverStarts
  <1> DEFINE A == \A r \in Requests :
                    req[r].phase # "running" /\ req'[r].phase = "running"
                      => LET c == req[r].chat IN
                         /\ daemon[c].status \in Serving
                         /\ ~daemon[c].revoked
                         /\ req[r].ws = generation[c]
  <1>1. IInv /\ [Next]_vars => [A]_vars
    <2> SUFFICES ASSUME IInv, Next, NEW r \in Requests,
                        req[r].phase # "running", req'[r].phase = "running"
                 PROVE  /\ daemon[req[r].chat].status \in Serving
                        /\ ~daemon[req[r].chat].revoked
                        /\ req[r].ws = generation[req[r].chat]
      OBVIOUS
    <2>1. req[r].phase = "waiting" /\ ~req[r].cancelled
      BY RunningTookSlot DEF TakeSlot
    <2>2. /\ req[r].chat \in Chats /\ daemon[req[r].chat].status \in Serving
          /\ req[r].ws = generation[req[r].chat]
      BY <2>1 DEF IInv, RequestInv, CurrentInv, Current, InUse
    <2>3. ~daemon[req[r].chat].revoked
      BY <2>2 DEF IInv, CounterInv, Tally
    <2> QED
      BY <2>2, <2>3
  <1> QED
    BY <1>1, Invariance, PTL DEF Spec, EndedWorkNeverStarts

-----------------------------------------------------------------------------
(* What the platform is told *)

(* With exact counters the capacity told is the limit less the requests.   *)
LEMMA ExactCapacity ==
  ASSUME NEW d \in Daemon, d.pending = d.queueDepth + d.inFlight,
         d.pending <= d.limit
  PROVE  AvailableCapacity(d) + d.queueDepth + d.inFlight = d.limit
  <1>1. /\ d.pending \in Nat /\ d.queueDepth \in Nat /\ d.inFlight \in Nat
        /\ d.limit \in Nat
    BY DispatchAssumption DEF Daemon
  <1>2. Larger(d.pending, d.inFlight + d.queueDepth) = d.pending
    BY <1>1 DEF Larger
  <1> QED
    BY <1>1, <1>2 DEF AvailableCapacity, Monus

(* A frame on c: what was heard of it is now the capacity it has.          *)
Tells(c) == /\ daemon[c].status = "up" /\ daemon'[c].status = "up"
            /\ daemon'[c].limit = daemon[c].limit
            /\ daemon'[c].heard = AvailableCapacity(daemon'[c])

(* What the platform has heard of c stays as it was, is the zero of a      *)
(* refusal on a live connection, is forgotten with the connection, or is   *)
(* told truly.                                                             *)
Hears(c) == \/ daemon'[c].heard = daemon[c].heard
            \/ /\ daemon'[c].heard \in {NoSignal, 0}
               /\ ~daemon'[c].revoked
            \/ Tells(c)

(* The frames a task sends. *)
LEMMA TaskHears ==
  ASSUME IInv, NEW r \in Requests, InUse(r), NEW e,
         SameLife(e, daemon[req[r].chat]),
         \/ e.heard = daemon[req[r].chat].heard
         \/ /\ daemon[req[r].chat].status = "up"
            /\ e.heard = AvailableCapacity(e),
         \/ daemon' = [daemon EXCEPT ![req[r].chat] = e]
         \/ EndTask(r, e)
  PROVE  \A c \in Chats : Hears(c)
  <1> DEFINE k == req[r].chat
             f == [e EXCEPT !.tasks = e.tasks \ {r}]
  <1>1. k \in Chats /\ e \in Daemon /\ daemon \in [Chats -> Daemon]
    BY DEF IInv, TypeOK, RequestInv, InUse, SameLife
  <1>2. /\ f.status = e.status /\ f.limit = e.limit /\ f.heard = e.heard
        /\ f.pending = e.pending /\ f.inFlight = e.inFlight
        /\ f.queueDepth = e.queueDepth
    BY <1>1 DEF Daemon
  <1>3. AvailableCapacity(f) = AvailableCapacity(e)
    BY <1>2 DEF AvailableCapacity
  <1>4. \/ daemon' = [daemon EXCEPT ![k] = e]
        \/ daemon' = [daemon EXCEPT ![k] = f]
    BY DEF EndTask
  <1> HIDE DEF f
  <1>5. /\ \A c \in Chats \ {k} : daemon'[c] = daemon[c]
        /\ daemon'[k] = e \/ daemon'[k] = f
    BY <1>1, <1>4
  <1>6. /\ daemon'[k].heard = e.heard
        /\ daemon'[k].status = daemon[k].status
        /\ daemon'[k].limit = daemon[k].limit
        /\ AvailableCapacity(daemon'[k]) = AvailableCapacity(e)
    BY <1>2, <1>3, <1>5 DEF SameLife
  <1> SUFFICES ASSUME NEW c \in Chats PROVE Hears(c)
    OBVIOUS
  <1>8. CASE c # k
    BY <1>5, <1>8 DEF Hears
  <1>9. CASE c = k /\ e.heard = daemon[k].heard
    BY <1>6, <1>9 DEF Hears
  <1>10. CASE c = k /\ daemon[k].status = "up" /\ e.heard = AvailableCapacity(e)
    <2>1. /\ daemon[c].status = "up" /\ daemon'[c].status = "up"
          /\ daemon'[c].limit = daemon[c].limit
          /\ daemon'[c].heard = AvailableCapacity(daemon'[c])
      BY <1>6, <1>10
    <2> QED
      BY <2>1 DEF Hears, Tells
  <1> QED
    BY <1>8, <1>9, <1>10

(* A response tells the capacity that is left. *)
LEMMA RespondHears ==
  ASSUME IInv, NEW r \in Requests, HasWork(r), Respond(r)
  PROVE  \A c \in Chats : Hears(c)
  <1> DEFINE d == daemon[req[r].chat]
             told == Told(r, Settled(r))
  <1>1. InUse(r) /\ SameLife(Settled(r), d)
    BY SettledLives
  <1>2. Settled(r).heard = d.heard
    BY SettledFields
  <1>3. /\ SameLife(told, d)
        /\ \/ told.heard = d.heard
           \/ d.status = "up" /\ told.heard = AvailableCapacity(told)
    BY <1>1, <1>2, ToldFields
  <1>4. \/ daemon' = [daemon EXCEPT ![req[r].chat] = told]
        \/ EndTask(r, told)
    BY DEF Respond
  <1> HIDE DEF told
  <1> QED
    BY <1>1, <1>3, <1>4, TaskHears

(* A request that starts leaves its daemon what it heard and its           *)
(* revocation.                                                             *)
LEMMA StartKeepsMarks ==
  ASSUME daemon \in [Chats -> Daemon], NEW r \in Requests, Start(r), NEW c \in Chats
  PROVE  daemon'[c].heard = daemon[c].heard /\ daemon'[c].revoked = daemon[c].revoked
  <1> DEFINE d == daemon[c]
             e == [d EXCEPT !.semaphore = d.semaphore - 1, !.queueDepth = d.queueDepth - 1,
                            !.inFlight = d.inFlight + 1]
  <1>1. d \in Daemon
    OBVIOUS
  <1>2. daemon'[c] = IF c = req[r].chat THEN e ELSE d
    BY DEF Start
  <1> HIDE DEF d
  <1>3. e.heard = d.heard /\ e.revoked = d.revoked
    BY ONLY <1>1 DEF Daemon
  <1> HIDE DEF e
  <1> QED
    BY <1>2, <1>3 DEF d

(* Every step of a request. *)
LEMMA RequestHears ==
  ASSUME IInv, NEW r \in Requests, RequestStep(r)
  PROVE  \A c \in Chats : Hears(c)
  <1>1. ASSUME NEW k \in Chats, Admit(k, r)
        PROVE  \A c \in Chats : Hears(c)
    <2>1. \A c \in Chats : daemon'[c].heard = daemon[c].heard
      BY <1>1 DEF Admit, IInv, TypeOK, Daemon
    <2> QED
      BY <2>1 DEF Hears
  <1>2. CASE Start(r)
    <2>1. \A c \in Chats : daemon'[c].heard = daemon[c].heard
      BY <1>2, StartKeepsMarks DEF IInv, TypeOK
    <2> QED
      BY <2>1 DEF Hears
  <1>3. CASE TakeSlot(r)
    BY <1>3 DEF TakeSlot, Hears
  <1>4. CASE Finish(r) \/ SlotTimeout(r)
    BY <1>4, RespondHears DEF Finish, SlotTimeout, WaitIsOver, HasWork
  <1>5. CASE Drop(r) \/ UnwindWaiting(r) \/ UnwindRunning(r)
    <2>1. HasWork(r) /\ InUse(r) /\ EndTask(r, Settled(r))
      BY <1>5 DEF Drop, UnwindWaiting, UnwindRunning, HasWork, InUse
    <2>2. /\ SameLife(Settled(r), daemon[req[r].chat])
          /\ Settled(r).heard = daemon[req[r].chat].heard
      BY <2>1, SettledFields
    <2> QED
      BY <2>1, <2>2, TaskHears
  <1>6. CASE EdgeStatus(r) \/ UnwindUnstarted(r)
    <2> DEFINE d == daemon[req[r].chat]
    <2>1. /\ InUse(r)
          /\ EndTask(r, d) \/ EndTask(r, Told(r, d))
      BY <1>6 DEF EdgeStatus, UnwindUnstarted, InUse
    <2>2. SameLife(d, d)
      BY <2>1 DEF IInv, TypeOK, RequestInv, SameLife
    <2>3. /\ SameLife(Told(r, d), d)
          /\ \/ Told(r, d).heard = d.heard
             \/ /\ d.status = "up"
                /\ Told(r, d).heard = AvailableCapacity(Told(r, d))
      BY <2>1, <2>2, ToldFields
    <2> QED
      BY <2>1, <2>2, <2>3, TaskHears
  <1> QED
    BY <1>1, <1>2, <1>3, <1>4, <1>5, <1>6 DEF RequestStep

(* Every step of a chat. *)
LEMMA ChatHears ==
  ASSUME IInv, NEW k \in Chats, ChatStep(k)
  PROVE  \A c \in Chats : Hears(c)
  <1>1. /\ daemon \in [Chats -> Daemon] /\ daemon[k] \in Daemon
        /\ Tally(k)
    BY DEF IInv, TypeOK, CounterInv
  <1>2. CASE Refuse(k)
    <2>1. /\ daemon'[k].heard = 0 /\ daemon'[k].revoked = daemon[k].revoked
          /\ daemon[k].status = "up"
          /\ \A c \in Chats \ {k} : daemon'[c] = daemon[c]
      BY <1>1, <1>2 DEF Refuse, Daemon
    <2>2. ~daemon'[k].revoked
      BY <1>1, <2>1 DEF Tally
    <2> QED
      BY <2>1, <2>2 DEF Hears
  <1>3. CASE Ticker(k)
    <2> DEFINE d == daemon[k]
               e == [d EXCEPT !.heard = AvailableCapacity(d)]
    <2>1. daemon' = [daemon EXCEPT ![k] = e]
      BY <1>3 DEF Ticker
    <2>2. /\ e.heard = AvailableCapacity(d) /\ e.status = d.status
          /\ e.limit = d.limit /\ e.pending = d.pending
          /\ e.inFlight = d.inFlight /\ e.queueDepth = d.queueDepth
      BY <1>1 DEF Daemon
    <2> HIDE DEF e
    <2>3. d.status = "up"
      BY <1>1, <1>3 DEF Ticker, SendAllowed, Tally
    <2>4. e.heard = AvailableCapacity(e)
      BY <2>2 DEF AvailableCapacity
    <2>5. daemon'[k] = e /\ \A c \in Chats \ {k} : daemon'[c] = daemon[c]
      BY <1>1, <2>1
    <2> QED
      BY <2>2, <2>3, <2>4, <2>5 DEF Hears, Tells
  <1>4. CASE Connect(k)
    <2> DEFINE st == IF daemon[k].running THEN "up" ELSE "stopping"
    <2>1. PICK max \in 1..MachineSlots :
             daemon' = [daemon EXCEPT ![k].status = st, ![k].limit = max,
                                      ![k].semaphore = max, ![k].pending = 0,
                                      ![k].queueDepth = 0, ![k].inFlight = 0,
                                      ![k].revoked = FALSE,
                                      ![k].heard = NoSignal]
      BY <1>4 DEF Connect
    <2>0. st \in {"up", "stopping"}
      OBVIOUS
    <2> HIDE DEF st
    <2>2. /\ daemon'[k].heard = NoSignal /\ daemon'[k].revoked = FALSE
          /\ \A c \in Chats \ {k} : daemon'[c] = daemon[c]
      BY <1>1, <2>1 DEF Daemon
    <2> QED
      BY <2>2 DEF Hears
  <1>5. CASE \/ DrainDone(k) /\ ~GoesOn(daemon[k])
             \/ StopCancels(k) /\ daemon[k].status \in {"backoff", "ending"}
             \/ StartChild(k)
    <2> DEFINE child == [NoDaemon EXCEPT !.status = "backoff", !.running = TRUE,
                                         !.pool = pool]
    <2>1. \/ daemon' = [daemon EXCEPT ![k] = NoDaemon]
          \/ daemon' = [daemon EXCEPT ![k] = child]
      BY <1>5 DEF DrainDone, StopCancels, StartChild
    <2>2. /\ NoDaemon.heard = NoSignal /\ ~NoDaemon.revoked
          /\ child.heard = NoSignal /\ ~child.revoked
      BY DEF NoDaemon
    <2> HIDE DEF child
    <2>3. /\ \A c \in Chats \ {k} : daemon'[c] = daemon[c]
          /\ daemon'[k].heard = NoSignal /\ ~daemon'[k].revoked
      BY <1>1, <2>1, <2>2
    <2> QED
      BY <2>3 DEF Hears
  <1>6. CASE \/ Disconnect(k) \/ FatalClose(k) \/ CloseAudited(k)
             \/ Revoke(k) \/ RevokedClosed(k) \/ StopBegin(k)
             \/ StopCancels(k) /\ daemon[k].status \notin {"backoff", "ending"}
             \/ ReapDecide(k) \/ ReapAbandon(k)
             \/ DrainDone(k) /\ GoesOn(daemon[k])
    <2>1. \A c \in Chats : daemon'[c].heard = daemon[c].heard
      BY <1>1, <1>6 DEF Disconnect, FatalClose, CloseAudited, Revoke,
                        RevokedClosed, StopBegin, StopCancels,
                        ReapDecide, ReapAbandon, DrainDone, Daemon
    <2> QED
      BY <2>1 DEF Hears
  <1> QED
    BY <1>2, <1>3, <1>4, <1>5, <1>6 DEF ChatStep

(* Every step. *)
LEMMA NextHears == ASSUME IInv, Next PROVE \A c \in Chats : Hears(c)
  <1>1. CASE ControlReconnect
    BY <1>1 DEF ControlReconnect, Hears
  <1> QED
    BY <1>1, RequestHears, ChatHears DEF Next

(* No frame goes out on a connection that is revoked. *)
THEOREM RevokedIsSilent == Spec => NothingSentAfterRevocation
  <1> DEFINE A == \A c \in Chats : daemon[c].revoked /\ daemon'[c].revoked
                                    => daemon'[c].heard = daemon[c].heard
  <1>1. IInv /\ [Next]_vars => [A]_vars
    <2> SUFFICES ASSUME IInv, Next, NEW c \in Chats, daemon[c].revoked,
                        daemon'[c].revoked
                 PROVE  daemon'[c].heard = daemon[c].heard
      OBVIOUS
    <2>1. daemon[c].status # "up"
      BY DEF IInv, CounterInv, Tally
    <2> QED
      BY <2>1, NextHears DEF Hears, Tells
  <1> QED
    BY <1>1, Invariance, PTL DEF Spec, NothingSentAfterRevocation

(* Whoever is told of free capacity is told the truth. *)
THEOREM CapacityIsTold == Spec => CapacityToldIsTrue
  <1> DEFINE A == \A c \in Chats :
                    /\ daemon'[c].heard # daemon[c].heard
                    /\ daemon'[c].heard \notin {NoSignal, 0}
                    => daemon'[c].heard + Cardinality(Queued(c)')
                         + Cardinality(Started(c)') = daemon[c].limit
  <1>1. IInv /\ IInv' /\ [Next]_vars => [A]_vars
    <2> SUFFICES ASSUME IInv, IInv', Next, NEW c \in Chats,
                        daemon'[c].heard # daemon[c].heard,
                        daemon'[c].heard \notin {NoSignal, 0}
                 PROVE  daemon'[c].heard + Cardinality(Queued(c)')
                          + Cardinality(Started(c)') = daemon[c].limit
      OBVIOUS
    <2>1. Tells(c)
      BY NextHears DEF Hears
    <2>2. /\ daemon'[c] \in Daemon
          /\ daemon'[c].queueDepth = Cardinality(Queued(c)')
          /\ daemon'[c].inFlight = Cardinality(Started(c)')
          /\ daemon'[c].pending = daemon'[c].queueDepth + daemon'[c].inFlight
          /\ daemon'[c].pending <= daemon'[c].limit
      BY <2>1 DEF Tells, IInv, TypeOK, CounterInv, Tally
    <2>3. AvailableCapacity(daemon'[c]) + daemon'[c].queueDepth
            + daemon'[c].inFlight = daemon'[c].limit
      BY <2>2, ExactCapacity
    <2> QED
      BY <2>1, <2>2, <2>3 DEF Tells
  <1> QED
    BY <1>1, Invariance, PTL DEF Spec, CapacityToldIsTrue

(* No step of a request touches the revocation. *)
LEMMA RequestKeepsRevoked ==
  ASSUME IInv, NEW r \in Requests, RequestStep(r)
  PROVE  \A c \in Chats : daemon'[c].revoked = daemon[c].revoked
  <1>1. daemon \in [Chats -> Daemon]
    BY DEF IInv, TypeOK
  <1>2. ASSUME NEW e, e \in Daemon,
               e.revoked = daemon[req[r].chat].revoked,
               \/ daemon' = [daemon EXCEPT ![req[r].chat] = e]
               \/ EndTask(r, e)
        PROVE  \A c \in Chats : daemon'[c].revoked = daemon[c].revoked
    <2> DEFINE f == [e EXCEPT !.tasks = e.tasks \ {r}]
    <2>1. f.revoked = e.revoked
      BY <1>2 DEF Daemon
    <2>2. \/ daemon' = [daemon EXCEPT ![req[r].chat] = e]
          \/ daemon' = [daemon EXCEPT ![req[r].chat] = f]
      BY <1>2 DEF EndTask
    <2> HIDE DEF f
    <2> QED
      BY <1>1, <1>2, <2>1, <2>2
  <1>3. CASE (\E c \in Chats : Admit(c, r)) \/ Start(r) \/ TakeSlot(r)
    <2>1. ASSUME NEW c \in Chats, Admit(c, r)
          PROVE  \A k \in Chats : daemon'[k].revoked = daemon[k].revoked
      BY <1>1, <2>1 DEF Admit, Daemon
    <2>2. CASE Start(r)
      BY <1>1, <2>2, StartKeepsMarks
    <2>3. CASE TakeSlot(r)
      BY <2>3 DEF TakeSlot
    <2> QED
      BY <1>3, <2>1, <2>2, <2>3
  <1>4. CASE Finish(r) \/ SlotTimeout(r)
    <2> DEFINE told == Told(r, Settled(r))
    <2>1. HasWork(r) /\ Respond(r)
      BY <1>4 DEF Finish, SlotTimeout, WaitIsOver, HasWork
    <2>2. told \in Daemon /\ told.revoked = daemon[req[r].chat].revoked
      BY <2>1, SettledLives, ToldFields DEF SameLife
    <2>3. \/ daemon' = [daemon EXCEPT ![req[r].chat] = told]
          \/ EndTask(r, told)
      BY <2>1 DEF Respond
    <2> HIDE DEF told
    <2> QED
      BY <1>2, <2>2, <2>3
  <1>5. CASE Drop(r) \/ UnwindWaiting(r) \/ UnwindRunning(r)
    <2>1. HasWork(r) /\ EndTask(r, Settled(r))
      BY <1>5 DEF Drop, UnwindWaiting, UnwindRunning, HasWork
    <2>2. /\ Settled(r) \in Daemon
          /\ Settled(r).revoked = daemon[req[r].chat].revoked
      BY <2>1, SettledType, SettledFields DEF SameLife
    <2> QED
      BY <1>2, <2>1, <2>2
  <1>6. CASE EdgeStatus(r) \/ UnwindUnstarted(r)
    <2> DEFINE d == daemon[req[r].chat]
               told == Told(r, d)
    <2>1. InUse(r) /\ (EndTask(r, d) \/ EndTask(r, told))
      BY <1>6 DEF EdgeStatus, UnwindUnstarted, InUse
    <2>2. SameLife(d, d)
      BY <2>1 DEF IInv, TypeOK, RequestInv, SameLife
    <2>3. /\ d \in Daemon /\ told \in Daemon /\ told.revoked = d.revoked
      BY <2>1, <2>2, ToldFields DEF SameLife
    <2> HIDE DEF told
    <2> QED
      BY <1>2, <2>1, <2>3
  <1> QED
    BY <1>3, <1>4, <1>5, <1>6 DEF RequestStep

(* A revoked child does not connect again. *)
THEOREM RevocationIsFinal == Spec => RevokedStaysDown
  <1> DEFINE A == \A c \in Chats : daemon[c].revoked
                    => daemon'[c].revoked \/ daemon'[c].status = "absent"
  <1>1. IInv /\ [Next]_vars => [A]_vars
    <2> SUFFICES ASSUME IInv, Next, NEW c \in Chats, daemon[c].revoked
                 PROVE  daemon'[c].revoked \/ daemon'[c].status = "absent"
      OBVIOUS
    <2>1. /\ daemon[c].status \in {"revoking", "ending"}
          /\ daemon[c].disableReconnect
      BY DEF IInv, CounterInv, Tally
    <2>2. /\ daemon \in [Chats -> Daemon] /\ req \in [Requests -> Request]
          /\ daemon[c] \in Daemon
      BY DEF IInv, TypeOK
    <2>3. ASSUME NEW r \in Requests, RequestStep(r)
          PROVE  daemon'[c].revoked
      BY <2>1, <2>3, RequestKeepsRevoked
    <2>4. ASSUME NEW k \in Chats, k # c, ChatStep(k)
          PROVE  daemon'[c] = daemon[c]
      BY ZenonT(40), <2>2, <2>4 DEF ChatStep, Refuse, Ticker, Connect, Disconnect, Revoke,
                  RevokedClosed, FatalClose, CloseAudited, DrainDone,
                  StartChild, StopBegin, StopCancels, ReapDecide, ReapAbandon
    <2>5. CASE \/ Ticker(c) \/ RevokedClosed(c) \/ StopBegin(c)
               \/ StopCancels(c) /\ daemon[c].status # "ending"
               \/ ReapDecide(c) \/ ReapAbandon(c)
      BY <2>1, <2>2, <2>5 DEF Ticker, RevokedClosed, StopBegin, StopCancels,
                              ReapDecide, ReapAbandon, Daemon
    <2>6. CASE DrainDone(c) \/ (StopCancels(c) /\ daemon[c].status = "ending")
      BY <2>1, <2>2, <2>6 DEF DrainDone, GoesOn, StopCancels, NoDaemon
    <2>7. /\ ~Refuse(c) /\ ~Connect(c) /\ ~Revoke(c) /\ ~StartChild(c)
          /\ ~Disconnect(c) /\ ~FatalClose(c) /\ ~CloseAudited(c)
      BY <2>1 DEF Refuse, Connect, Revoke, StartChild, Disconnect, FatalClose,
                  CloseAudited
    <2>8. ControlReconnect => daemon' = daemon
      BY DEF ControlReconnect
    <2> QED
      BY <2>3, <2>4, <2>5, <2>6, <2>7, <2>8 DEF Next, ChatStep
  <1> QED
    BY <1>1, Invariance, PTL DEF Spec, RevokedStaysDown

-----------------------------------------------------------------------------
(* What is left of two promises the whole of which is not kept, or cannot  *)
(* be proved                                                               *)

(* Work that runs outside the machine's slots runs in those of an earlier  *)
(* control connection: no connection's slots are ever exceeded.            *)
PoolsKept == \A p \in Nat : Cardinality(Holding(p)) <= MachineSlots

(* A request that runs has just taken a slot of the current pool, or ran   *)
(* before, in the same pool.                                               *)
LEMMA RunsInItsPool ==
  ASSUME IInv, Next, NEW r \in Requests, req'[r].phase = "running"
  PROVE  /\ req'[r].pool = req[r].pool
         /\ req[r].phase # "running" => req[r].pool = pool /\ pool' = pool
  <1>1. req \in [Requests -> Request] /\ NoRequest.phase = "none"
    BY DEF IInv, TypeOK, NoRequest
  <1>2. ASSUME NEW q \in Requests, RequestStep(q)
        PROVE  req'[r].pool = req[r].pool
    <2>1. CASE \E c \in Chats : Admit(c, q)
      BY <1>1, <2>1 DEF Admit, NoRequest
    <2>2. CASE Start(q)
      BY <1>1, <2>2 DEF Start, Request
    <2>3. CASE TakeSlot(q)
      BY <1>1, <2>3 DEF TakeSlot, Request
    <2>4. CASE Respond(q) \/ \E d : EndTask(q, d)
      <3>1. \/ req' = [req EXCEPT ![q].phase = "edge"]
            \/ req' = [req EXCEPT ![q] = NoRequest]
        BY <2>4 DEF Respond, EndTask
      <3> QED
        BY <1>1, <3>1 DEF Request
    <2> QED
      BY <1>2, <2>1, <2>2, <2>3, <2>4
         DEF RequestStep, Finish, Drop, SlotTimeout, EdgeStatus,
             UnwindUnstarted, UnwindWaiting, UnwindRunning
  <1>3. ASSUME NEW c \in Chats, ChatStep(c)
        PROVE  req'[r].pool = req[r].pool
    <2>1. req' = req \/ CancelRequests(c)
      BY <1>3 DEF ChatStep, Refuse, Ticker, Connect, Disconnect, Revoke,
                  RevokedClosed, FatalClose, CloseAudited, DrainDone,
                  StartChild, StopBegin, StopCancels, ReapDecide, ReapAbandon
    <2> QED
      BY <1>1, <2>1 DEF CancelRequests, Request
  <1>4. ControlReconnect => req' = req
    BY DEF ControlReconnect
  <1>5. req[r].phase # "running" => req[r].pool = pool /\ pool' = pool
    BY RunningTookSlot DEF TakeSlot
  <1> QED
    BY <1>2, <1>3, <1>4, <1>5 DEF Next

(* In no control connection's slots does more work run than it has slots   *)
(* (ShimDaemon._machine_work_semaphore, _handle_in_a_machine_slot).        *)
THEOREM EveryPoolIsKept == Spec => []PoolsKept
  <1>1. Init => PoolsKept
    <2> SUFFICES ASSUME Init, NEW p \in Nat PROVE Cardinality(Holding(p)) <= MachineSlots
      BY DEF PoolsKept
    <2>1. Holding(p) = {}
      BY DEF Init, Holding, NoRequest
    <2> QED
      BY <2>1, FS_EmptySet, DispatchAssumption
  <1>2. IInv /\ IInv' /\ PoolsKept /\ [Next]_vars => PoolsKept'
    <2> SUFFICES ASSUME IInv, IInv', PoolsKept, [Next]_vars, NEW p \in Nat
                 PROVE  Cardinality(Holding(p)') <= MachineSlots
      BY DEF PoolsKept
    <2>1. Cardinality(Holding(p)) <= MachineSlots /\ MachineSlots \in Nat
      BY DispatchAssumption DEF PoolsKept
    <2>2. CASE UNCHANGED vars
      BY <2>1, <2>2 DEF vars, Holding
    <2>3. CASE Next /\ p = pool'
      <3>1. slotsFree' + Cardinality(Holding(p)') = MachineSlots /\ slotsFree' \in Nat
        BY <2>3 DEF IInv, SlotsConserved, TypeOK, Holding
      <3>2. Cardinality(Holding(p)') \in Nat
        <4>1. Holding(p)' \subseteq Requests
          BY DEF Holding
        <4> QED
          BY <4>1, FS_Subset, FS_CardinalityType, DispatchAssumption
      <3> QED
        BY <2>1, <3>1, <3>2
    <2>4. CASE Next /\ p # pool'
      <3>1. Holding(p)' \subseteq Holding(p)
        BY <2>4, RunsInItsPool DEF Holding
      <3>2. IsFiniteSet(Holding(p)) /\ Cardinality(Holding(p)) \in Nat
        BY CountedSetsFinite
      <3>3. Cardinality(Holding(p)') <= Cardinality(Holding(p))
            /\ Cardinality(Holding(p)') \in Nat
        BY <3>1, <3>2, FS_Subset, FS_CardinalityType
      <3> QED
        BY <2>1, <3>2, <3>3
    <2> QED
      BY <2>2, <2>3, <2>4
  <1> QED
    BY <1>1, <1>2, Invariance, PTL DEF Spec

(* The safety half of PausedPlatformIsReleased: whoever waits for capacity *)
(* that there is will hear of it with the next STATUS, and nothing keeps   *)
(* that one from being sent (_status_ticker, _available_capacity).         *)
TickerReleases ==
  \A c \in Chats : Paused(c) => /\ SendAllowed(daemon[c])
                                /\ AvailableCapacity(daemon[c]) > 0

THEOREM PausedIsToldNext == Spec => []TickerReleases
  <1>1. IInv => TickerReleases
    <2> SUFFICES ASSUME IInv, NEW c \in Chats, Paused(c)
                 PROVE  SendAllowed(daemon[c]) /\ AvailableCapacity(daemon[c]) > 0
      BY DEF TickerReleases
    <2>1. /\ daemon[c] \in Daemon /\ daemon[c].status = "up" /\ ~daemon[c].revoked
          /\ daemon[c].pending = daemon[c].queueDepth + daemon[c].inFlight
          /\ daemon[c].pending < daemon[c].limit
      BY DEF Paused, HasRoom, IInv, TypeOK, CounterInv, Tally
    <2>2. /\ daemon[c].pending \in Nat /\ daemon[c].queueDepth \in Nat
          /\ daemon[c].inFlight \in Nat /\ daemon[c].limit \in Nat
          /\ AvailableCapacity(daemon[c]) \in Nat
      BY <2>1, CapacityType, DispatchAssumption DEF Daemon
    <2>3. AvailableCapacity(daemon[c]) + daemon[c].queueDepth + daemon[c].inFlight
            = daemon[c].limit
      BY <2>1, <2>2, ExactCapacity
    <2> QED
      BY <2>1, <2>2, <2>3 DEF SendAllowed
  <1> QED
    BY <1>1, Invariance, PTL

=============================================================================
