------------------------------ MODULE Dispatch ------------------------------
(***************************************************************************)
(* Request dispatch of the per-chat daemons of one computer.               *)
(*                                                                         *)
(* The control daemon starts one child ShimDaemon per attached chat.  A    *)
(* child connects, negotiates a request limit, and turns every inbound     *)
(* frame into an asyncio task (_on_frame, _dispatch).  A task takes one    *)
(* permit of its connection's semaphore, then one of the request slots     *)
(* that all chats of the computer share (_handle_in_a_machine_slot), then  *)
(* runs its handler.  Connections drop, are revoked, or are stopped by the *)
(* control daemon; their requests are cancelled and drained for a bounded  *)
(* time, and a request stuck in a thread is let go: it keeps running, with *)
(* its machine slot, beside the requests of later connections.             *)
(***************************************************************************)
EXTENDS Naturals, FiniteSets

CONSTANTS
    Chats,          (* chats (session ids) of this computer                *)
    Requests,       (* identities of concurrently existing request tasks   *)
    NoChat,         (* the chat of a request identity that is not in use   *)
    NoSignal,       (* the platform has heard no pending_capacity yet      *)
    MachineSlots,   (* max_concurrent of the control connection            *)
    MaxGeneration,  (* bound on request generations of a chat              *)
    MaxPool         (* bound on control connections (machine slot pools)   *)

ASSUME DispatchAssumption ==
    /\ IsFiniteSet(Requests)
    /\ NoChat \notin Chats
    /\ MachineSlots \in Nat \ {0}
    /\ MaxGeneration \in Nat
    /\ MaxPool \in Nat \ {0}

VARIABLES
    daemon,         (* the chat's child ShimDaemon, or NoDaemon            *)
    generation,     (* its _dispatch_generation, counting on over children *)
    req,            (* every request task                                  *)
    pool,           (* the control daemon's _machine_work_semaphore        *)
    slotsFree       (* its free slots                                      *)

machine == <<pool, slotsFree>>
vars    == <<daemon, generation, req, machine>>

(***************************************************************************)
(* "absent": no child.  "backoff": run() is connecting or sleeping before  *)
(* it reconnects.  "up": handshake done, frames are pumped.  "stopping":   *)
(* stop() closes the socket, and frames that had arrived are still taken.  *)
(* "closing": the peer closed with a fatal code, which is being audited.   *)
(* "revoking": inside _handle_session_revoked.  "ending": the requests are *)
(* cancelled and _drain_dispatch_tasks waits for them.                     *)
(***************************************************************************)
Status == {"absent", "backoff", "up", "stopping", "closing", "revoking",
           "ending"}

(* The requests of the connection are not cancelled yet.  The close of a   *)
(* stop and the audit of a fatal close code are awaited before they are.   *)
Serving == {"up", "stopping", "closing"}

(***************************************************************************)
(* The fields of a child: _running, _disable_reconnect, _detaching,        *)
(* _revoked_ws is the current connection, config.max_concurrent, the       *)
(* counters _pending_requests, _queue_depth and _in_flight, the free       *)
(* permits of _semaphore, _dispatch_tasks, the _machine_work_semaphore it  *)
(* was given, and the last pending_capacity its platform side has heard.   *)
(***************************************************************************)
Daemon == [status : Status, running : BOOLEAN, disableReconnect : BOOLEAN,
           detaching : BOOLEAN, revoked : BOOLEAN, limit : 1..MachineSlots,
           pending : Nat, queueDepth : Nat, inFlight : Nat, semaphore : Nat,
           tasks : SUBSET Requests, pool : Nat, heard : Nat \cup {NoSignal}]

NoDaemon == [status |-> "absent", running |-> FALSE,
             disableReconnect |-> FALSE, detaching |-> FALSE,
             revoked |-> FALSE, limit |-> MachineSlots, pending |-> 0,
             queueDepth |-> 0, inFlight |-> 0, semaphore |-> 0, tasks |-> {},
             pool |-> 0, heard |-> NoSignal]

(***************************************************************************)
(* A request task: "queued" until it holds the semaphore, "waiting" for a  *)
(* machine slot, "running" its handler, "edge" when its response is sent   *)
(* and the capacity-edge STATUS is not yet.  ws is the connection its      *)
(* frame came in on, gen the generation _dispatch captured when it         *)
(* started, pool the machine semaphore it acquires.                        *)
(***************************************************************************)
Phase == {"none", "queued", "waiting", "running", "edge"}

Request == [phase : Phase, chat : Chats \cup {NoChat}, ws : Nat, gen : Nat,
            pool : Nat, cancelled : BOOLEAN]

NoRequest == [phase |-> "none", chat |-> NoChat, ws |-> 0, gen |-> 0,
              pool |-> 0, cancelled |-> FALSE]

TypeOK ==
    /\ daemon \in [Chats -> Daemon]
    /\ generation \in [Chats -> Nat]
    /\ req \in [Requests -> Request]
    /\ pool \in Nat
    /\ slotsFree \in Nat

-----------------------------------------------------------------------------
(* The requests of one chat's current connection, by where they are.       *)

Queued(c)  == {r \in Requests : /\ req[r].chat = c
                                /\ req[r].phase = "queued"
                                /\ req[r].ws = generation[c]}
Started(c) == {r \in Requests : /\ req[r].chat = c
                                /\ req[r].phase \in {"waiting", "running"}
                                /\ req[r].gen = generation[c]}
Holding(p) == {r \in Requests : req[r].phase = "running" /\ req[r].pool = p}

(* _dispatch's counted(): the session's counters are still this request's  *)
(* (and so is its daemon, which StartChild's generation tells apart).      *)
(* Faulty variant: a request let go settles a later session's counters.    *)
CountedAnyway(r) == daemon[req[r].chat].status # "absent"
Counted(r) == /\ req[r].gen = generation[req[r].chat]
              /\ daemon[req[r].chat].status # "absent"

Larger(m, n) == IF m > n THEN m ELSE n
Monus(m, n)  == IF m > n THEN m - n ELSE 0

(* _available_capacity.  Faulty variant: only running requests deducted.   *)
CapacityWithoutQueue(d) == Monus(d.limit, d.inFlight)
AvailableCapacity(d) ==
    Monus(d.limit, Larger(d.pending, d.inFlight + d.queueDepth))

(* _idle_since, without the clock and the recording it also asks about.    *)
(* Faulty variant: a request that still owes a frame counts as idle.       *)
IdleSinceByCountersOnly(d) == d.pending = 0
IdleSince(d) == d.pending = 0 /\ d.tasks = {}

-----------------------------------------------------------------------------
Init ==
    /\ daemon = [c \in Chats |-> NoDaemon]
    /\ generation = [c \in Chats |-> 0]
    /\ req = [r \in Requests |-> NoRequest]
    /\ pool = 1
    /\ slotsFree = MachineSlots

-----------------------------------------------------------------------------
(* Frames *)

(* _on_frame's limit.  Faulty variant: off by one. *)
HasRoomOffByOne(d) == d.pending <= d.limit
HasRoom(d) == d.pending < d.limit

(* _on_frame turns a request into a task. *)
Admit(c, r) ==
    /\ daemon[c].status \in {"up", "stopping"}
    /\ ~daemon[c].detaching
    /\ HasRoom(daemon[c])
    /\ req[r] = NoRequest
    /\ daemon' = [daemon EXCEPT ![c].pending = @ + 1,
                                ![c].queueDepth = @ + 1,
                                ![c].tasks = @ \cup {r}]
    /\ req' = [req EXCEPT ![r] = [NoRequest EXCEPT !.phase = "queued",
                                                   !.chat = c,
                                                   !.ws = generation[c]]]
    /\ UNCHANGED <<generation, machine>>

(* _on_frame refuses a request with SHIM_OVERLOADED and pending_capacity 0. *)
Refuse(c) ==
    /\ daemon[c].status = "up"
    /\ daemon[c].detaching \/ ~HasRoom(daemon[c])
    /\ daemon' = [daemon EXCEPT ![c].heard = 0]
    /\ UNCHANGED <<generation, req, machine>>

(* The task starts: _dispatch captures the generation and gets the         *)
(* semaphore.                                                              *)
Start(r) ==
    LET c == req[r].chat IN
    /\ req[r].phase = "queued"
    /\ ~req[r].cancelled
    /\ daemon[c].semaphore > 0
    /\ daemon' = [daemon EXCEPT ![c].semaphore = @ - 1,
                                ![c].queueDepth = @ - 1,
                                ![c].inFlight = @ + 1]
    /\ req' = [req EXCEPT ![r].phase = "waiting",
                          ![r].gen = generation[c],
                          ![r].pool = daemon[c].pool]
    /\ UNCHANGED <<generation, machine>>

(* slots.acquire() succeeds and the handler runs. *)
TakeSlot(r) ==
    /\ req[r].phase = "waiting"
    /\ ~req[r].cancelled
    /\ req[r].pool = pool
    /\ slotsFree > 0
    /\ slotsFree' = slotsFree - 1
    /\ req' = [req EXCEPT ![r].phase = "running"]
    /\ UNCHANGED <<daemon, generation, pool>>

-----------------------------------------------------------------------------
(* The ways out of _dispatch *)

(* The request's daemon when a started request has left the semaphore and  *)
(* the counters.  One let go settles nothing: the counters, and the        *)
(* semaphore, are a later connection's.                                    *)
Settled(r) ==
    LET d == daemon[req[r].chat] IN
    IF Counted(r) THEN [d EXCEPT !.inFlight = @ - 1,
                                 !.pending = Monus(@, 1),
                                 !.semaphore = @ + 1]
                  ELSE d

(* slots.release(), on the semaphore object the request acquired.  Faulty  *)
(* variant: a slot comes back only while its session is still there.       *)
ReleaseSlotIfCounted(r) ==
    /\ slotsFree' = IF req[r].pool = pool /\ Counted(r) THEN slotsFree + 1
                                                       ELSE slotsFree
    /\ pool' = pool
ReleaseSlot(r) ==
    /\ slotsFree' = IF req[r].pool = pool THEN slotsFree + 1 ELSE slotsFree
    /\ pool' = pool

(* The task ends, and its done-callback discards it from d's tasks. *)
EndTask(r, d) ==
    /\ req' = [req EXCEPT ![r] = NoRequest]
    /\ daemon' = [daemon EXCEPT ![req[r].chat] = [d EXCEPT !.tasks = @ \ {r}]]
    /\ UNCHANGED generation

(* _send_frame refuses a revoked connection, and a socket that is closed   *)
(* or closing fails it.  Faulty variants: no check; no STATUS while a      *)
(* detach is decided.                                                      *)
SendAllowedAlways(d) == d.status \in {"up", "revoking"}
SendAllowedNotDetaching(d) == d.status = "up" /\ ~d.detaching
SendAllowed(d) == d.status \in {"up", "revoking"} /\ ~d.revoked

(* The daemon d after request r sent a frame stamped with its capacity, on *)
(* the connection r came in on: a send that fails is only logged.          *)
Told(r, d) ==
    IF SendAllowed(d) /\ req[r].ws = generation[req[r].chat]
    THEN [d EXCEPT !.heard = AvailableCapacity(d)] ELSE d

(* was_full_after_decrement, taken before the counters are settled. *)
WasFull(r) == LET d == daemon[req[r].chat] IN
              Counted(r) /\ (d.pending >= d.limit \/ d.inFlight = d.limit)

(* The response is stamped with the capacity left after settling and sent; *)
(* a request that leaves a full session still owes a STATUS frame.         *)
Respond(r) ==
    IF WasFull(r)
    THEN /\ req' = [req EXCEPT ![r].phase = "edge"]
         /\ daemon' = [daemon EXCEPT ![req[r].chat] = Told(r, Settled(r))]
         /\ UNCHANGED generation
    ELSE EndTask(r, Told(r, Settled(r)))

(* The handler returns (or crashes, which is an error response).  One that *)
(* had a change to finish holds the cancellation (_run_to_completion) and  *)
(* returns like any other, its connection revoked, over, or long replaced. *)
Finish(r) ==
    /\ req[r].phase = "running"
    /\ ReleaseSlot(r)
    /\ Respond(r)

(* A frame no handler takes is dropped: no response and no STATUS. *)
Drop(r) ==
    /\ req[r].phase = "running"
    /\ ~req[r].cancelled
    /\ ReleaseSlot(r)
    /\ EndTask(r, Settled(r))

(* Faulty variant: a request waits for a machine slot for ever. *)
WaitsForever(r) == FALSE
WaitIsOver(r) == req[r].phase = "waiting" /\ ~req[r].cancelled

(* No machine slot in MACHINE_WORK_WAIT_SECONDS: the machine_busy refusal. *)
SlotTimeout(r) ==
    /\ WaitIsOver(r)
    /\ Respond(r)
    /\ UNCHANGED machine

(* The capacity-edge STATUS frame. *)
EdgeStatus(r) ==
    /\ req[r].phase = "edge"
    /\ EndTask(r, Told(r, daemon[req[r].chat]))
    /\ UNCHANGED machine

(* CancelledError reaches a task that never started, or only owes a STATUS *)
(* frame: it settles nothing.                                              *)
UnwindUnstarted(r) ==
    /\ req[r].phase \in {"queued", "edge"}
    /\ req[r].cancelled
    /\ EndTask(r, daemon[req[r].chat])
    /\ UNCHANGED machine

(* CancelledError reaches a task waiting for a machine slot. *)
UnwindWaiting(r) ==
    /\ req[r].phase = "waiting"
    /\ req[r].cancelled
    /\ EndTask(r, Settled(r))
    /\ UNCHANGED machine

(* A cancelled handler ends: at once, or when its thread returns. *)
UnwindRunning(r) ==
    /\ req[r].phase = "running"
    /\ req[r].cancelled
    /\ ReleaseSlot(r)
    /\ EndTask(r, Settled(r))

(* The periodic STATUS frame. *)
Ticker(c) ==
    /\ SendAllowed(daemon[c])
    /\ daemon' = [daemon EXCEPT ![c].heard = AvailableCapacity(daemon[c])]
    /\ UNCHANGED <<generation, req, machine>>

-----------------------------------------------------------------------------
(* Connections *)

(* _cancel_dispatch_requests.  Faulty variant: only the requests already   *)
(* running are cancelled.                                                  *)
CancelOnlyRunning(c) ==
    req' = [r \in Requests |->
              IF r \in daemon[c].tasks /\ req[r].phase = "running"
              THEN [req[r] EXCEPT !.cancelled = TRUE] ELSE req[r]]
CancelRequests(c) ==
    req' = [r \in Requests |->
              IF r \in daemon[c].tasks
              THEN [req[r] EXCEPT !.cancelled = TRUE] ELSE req[r]]

(* _run_session resets the counters; the handshake negotiates the limit    *)
(* (the lower of the child's own, copied from the control daemon, and the  *)
(* platform's) and makes a semaphore of that size.  A handshake that a     *)
(* stop() meets may still get its answer.                                  *)
Connect(c) ==
    /\ daemon[c].status = "backoff"
    /\ generation[c] < MaxGeneration
    /\ \E max \in 1..MachineSlots :
         daemon' = [daemon EXCEPT ![c].status = IF daemon[c].running
                                                THEN "up" ELSE "stopping",
                                  ![c].limit = max, ![c].semaphore = max, ![c].pending = 0,
                                  ![c].queueDepth = 0, ![c].inFlight = 0,
                                  ![c].revoked = FALSE,
                                  ![c].heard = NoSignal]
    /\ UNCHANGED <<generation, req, machine>>

(* The connection drops, or closes with a code that does not forbid to     *)
(* reconnect: the requests are cancelled at once.                          *)
Disconnect(c) ==
    /\ daemon[c].status \in {"up", "stopping"}
    /\ daemon' = [daemon EXCEPT ![c].status = "ending"]
    /\ CancelRequests(c)
    /\ UNCHANGED <<generation, machine>>

(* It closes with a fatal code: the retries end, and the revocation is     *)
(* audited in a thread ...                                                 *)
FatalClose(c) ==
    /\ daemon[c].status \in {"up", "stopping"}
    /\ daemon' = [daemon EXCEPT ![c].status = "closing",
                                ![c].disableReconnect = TRUE]
    /\ UNCHANGED <<generation, req, machine>>

(* ... before the requests, of which some may have started meanwhile, are  *)
(* cancelled.                                                              *)
CloseAudited(c) ==
    /\ daemon[c].status = "closing"
    /\ daemon' = [daemon EXCEPT ![c].status = "ending"]
    /\ CancelRequests(c)
    /\ UNCHANGED <<generation, machine>>

(* SESSION_REVOKED arrives: _handle_session_revoked up to its first await. *)
Revoke(c) ==
    /\ daemon[c].status \in {"up", "stopping"}
    /\ daemon' = [daemon EXCEPT ![c].status = "revoking",
                                ![c].revoked = TRUE,
                                ![c].disableReconnect = TRUE]
    /\ CancelRequests(c)
    /\ UNCHANGED <<generation, machine>>

(* The revocation is audited, the socket closed, the ticker stopped. *)
RevokedClosed(c) ==
    /\ daemon[c].status = "revoking"
    /\ daemon' = [daemon EXCEPT ![c].status = "ending"]
    /\ UNCHANGED <<generation, req, machine>>

(* The drain's wait is over: every request is done, or the time is up.     *)
(* Faulty variant: without a timeout.                                      *)
DrainedCompletely(d) == d.status = "ending" /\ d.tasks = {}
Drained(d) == d.status = "ending"

(* run() goes on after this connection.                                    *)
(* Faulty variant: a revoked session reconnects.                           *)
GoesOnWhileRunning(d) == d.running
GoesOn(d) == d.running /\ ~d.disableReconnect

(* _drain_dispatch_tasks returns, with requests still running or without;  *)
(* run() reconnects unless it was stopped or told not to.                  *)
DrainDone(c) ==
    /\ Drained(daemon[c])
    /\ generation' = [generation EXCEPT ![c] = @ + 1]
    /\ daemon' = IF GoesOn(daemon[c])
                 THEN [daemon EXCEPT ![c].status = "backoff",
                                     ![c].tasks = {}, ![c].pending = 0,
                                     ![c].queueDepth = 0, ![c].inFlight = 0]
                 ELSE [daemon EXCEPT ![c] = NoDaemon]
    /\ UNCHANGED <<req, machine>>

-----------------------------------------------------------------------------
(* The control daemon *)

(* _start_child_session: a fresh ShimDaemon, so fresh counters, in which   *)
(* no request of an earlier child counts.                                  *)
StartChild(c) ==
    /\ daemon[c].status = "absent"
    /\ generation[c] < MaxGeneration
    /\ daemon' = [daemon EXCEPT ![c] = [NoDaemon EXCEPT !.status = "backoff",
                                                        !.running = TRUE,
                                                        !.pool = pool]]
    /\ generation' = [generation EXCEPT ![c] = @ + 1]
    /\ UNCHANGED <<req, machine>>

(* _stop_child_session, for DETACH_SESSION, the reaper, a RESTORE_SESSION  *)
(* that replaces the child, or the end of the control connection: stop()   *)
(* closes the socket the child has, if any ...                             *)
StopBegin(c) ==
    /\ daemon[c].running
    /\ daemon' = [daemon EXCEPT ![c].running = FALSE,
                                ![c].status = IF @ = "up" THEN "stopping"
                                                          ELSE @]
    /\ UNCHANGED <<generation, req, machine>>

(* ... and run() is cancelled once it is closed: a connection ends, with   *)
(* its requests; a child between connections, or draining, ends at once.   *)
StopCancels(c) ==
    /\ daemon[c].status # "absent"
    /\ ~daemon[c].running
    /\ IF daemon[c].status \in {"backoff", "ending"}
       THEN /\ daemon' = [daemon EXCEPT ![c] = NoDaemon]
            /\ UNCHANGED req
       ELSE /\ daemon' = [daemon EXCEPT ![c].status = "ending"]
            /\ CancelRequests(c)
    /\ UNCHANGED <<generation, machine>>

(* _reap_idle_children decides on an idle child ... *)
ReapDecide(c) ==
    /\ daemon[c].running
    /\ ~daemon[c].detaching
    /\ IdleSince(daemon[c])
    /\ daemon' = [daemon EXCEPT ![c].detaching = TRUE]
    /\ UNCHANGED <<generation, req, machine>>

(* ... and lets it serve on when the detach could not be audited. *)
ReapAbandon(c) ==
    /\ daemon[c].detaching
    /\ daemon' = [daemon EXCEPT ![c].detaching = FALSE]
    /\ UNCHANGED <<generation, req, machine>>

(* The control daemon reconnects: _shutdown_children has stopped every     *)
(* child, and the handshake makes a new machine semaphore.                 *)
ControlReconnect ==
    /\ pool < MaxPool
    /\ \A c \in Chats : daemon[c].status = "absent"
    /\ pool' = pool + 1
    /\ slotsFree' = MachineSlots
    /\ UNCHANGED <<daemon, generation, req>>

-----------------------------------------------------------------------------
RequestStep(r) ==
    \/ \E c \in Chats : Admit(c, r)
    \/ Start(r)
    \/ TakeSlot(r)
    \/ Finish(r)
    \/ Drop(r)
    \/ SlotTimeout(r)
    \/ EdgeStatus(r)
    \/ UnwindUnstarted(r)
    \/ UnwindWaiting(r)
    \/ UnwindRunning(r)

ChatStep(c) ==
    \/ Refuse(c)
    \/ Ticker(c)
    \/ Connect(c)
    \/ Disconnect(c)
    \/ FatalClose(c)
    \/ CloseAudited(c)
    \/ Revoke(c)
    \/ RevokedClosed(c)
    \/ DrainDone(c)
    \/ StartChild(c)
    \/ StopBegin(c)
    \/ StopCancels(c)
    \/ ReapDecide(c)
    \/ ReapAbandon(c)

Next ==
    \/ \E r \in Requests : RequestStep(r)
    \/ \E c \in Chats : ChatStep(c)
    \/ ControlReconnect

Spec == Init /\ [][Next]_vars

(***************************************************************************)
(* The asyncio loop runs every runnable task, delivers every cancellation  *)
(* to a task outside a thread, and fires every timer; an audit record is   *)
(* written or fails, and closing a socket has a timeout.  Nothing makes a  *)
(* handler or a thread return: Finish, Drop and UnwindRunning are not fair.*)
(* A request is in one phase at a time and a child has one status, so the  *)
(* disjunctions are as fair as their members.                              *)
(***************************************************************************)
LoopFairness ==
    /\ \A r \in Requests :
         WF_vars(\/ Start(r) \/ UnwindUnstarted(r)
                 \/ TakeSlot(r) \/ SlotTimeout(r) \/ UnwindWaiting(r)
                 \/ EdgeStatus(r))
    /\ \A c \in Chats :
         /\ WF_vars(Ticker(c))
         /\ WF_vars(CloseAudited(c) \/ RevokedClosed(c) \/ DrainDone(c))
         /\ WF_vars(StopCancels(c))

LoopSpec == Spec /\ LoopFairness

-----------------------------------------------------------------------------
(* Properties *)

(***************************************************************************)
(* While a connection serves, the three counters say exactly how many of    *)
(* its requests are queued, started and admitted, whatever requests of     *)
(* earlier connections are still running in threads and end meanwhile      *)
(* (_dispatch_generation in _dispatch and _drain_dispatch_tasks).          *)
(***************************************************************************)
CountersExact ==
    \A c \in Chats : daemon[c].status \in Serving =>
        /\ daemon[c].queueDepth = Cardinality(Queued(c))
        /\ daemon[c].inFlight = Cardinality(Started(c))
        /\ daemon[c].pending = daemon[c].queueDepth + daemon[c].inFlight

(***************************************************************************)
(* The admission check of _on_frame is enough: a request it admits always  *)
(* finds a permit of its connection's semaphore, so _dispatch never queues *)
(* on it, and no more than the negotiated limit is ever started.           *)
(***************************************************************************)
AdmissionCoversSemaphore ==
    /\ \A r \in Requests :
         req[r].phase = "queued" /\ ~req[r].cancelled
           => daemon[req[r].chat].semaphore > 0
    /\ \A c \in Chats :
         daemon[c].status \in Serving
           => Cardinality(Started(c)) <= daemon[c].limit

(***************************************************************************)
(* A machine slot is held exactly while its request runs, over             *)
(* cancellations, time-outs, drains cut short and children stopped: none   *)
(* leaks and none is released twice (_handle_in_a_machine_slot).           *)
(***************************************************************************)
SlotsConserved == slotsFree + Cardinality(Holding(pool)) = MachineSlots

(***************************************************************************)
(* Once the reaper has decided on a child, until the detach is audited and *)
(* the child stopped, the child has no request the stop would cut off,     *)
(* nor one whose reply is not out yet (_reap_idle_children).               *)
(***************************************************************************)
IdleDetachCutsNothing ==
    \A c \in Chats : daemon[c].detaching => daemon[c].tasks = {}

(***************************************************************************)
(* From the moment SESSION_REVOKED is handled, no frame goes out on that   *)
(* connection: not a response, not a STATUS (_revoked_ws in _send_frame).  *)
(***************************************************************************)
NothingSentAfterRevocation ==
    [][\A c \in Chats : daemon[c].revoked /\ daemon'[c].revoked
                         => daemon'[c].heard = daemon[c].heard]_vars

(***************************************************************************)
(* A revocation is final for the child: whatever else happens while it is  *)
(* audited and its requests drain, the child does not connect again        *)
(* (_disable_reconnect in run).                                            *)
(***************************************************************************)
RevokedStaysDown ==
    [][\A c \in Chats : daemon[c].revoked
         => daemon'[c].revoked \/ daemon'[c].status = "absent"]_vars

(***************************************************************************)
(* Work queued behind the machine's slots starts only for the connection   *)
(* the child has, and not once that connection was dropped, revoked,       *)
(* closed by a stop or its fatal close audited (_cancel_dispatch_requests).*)
(* The close of a stop and the audit of a fatal close come before the      *)
(* cancellation: in those two windows queued work may still start.         *)
(***************************************************************************)
EndedWorkNeverStarts ==
    [][\A r \in Requests :
         req[r].phase # "running" /\ req'[r].phase = "running"
           => LET c == req[r].chat IN
              /\ daemon[c].status \in Serving
              /\ ~daemon[c].revoked
              /\ req[r].ws = generation[c]]_vars

(***************************************************************************)
(* A frame that tells the platform of free capacity tells the truth: the   *)
(* limit less the requests the connection still has after this frame       *)
(* (pending_capacity, _available_capacity).                                *)
(***************************************************************************)
CapacityToldIsTrue ==
    [][\A c \in Chats :
         /\ daemon'[c].heard # daemon[c].heard
         /\ daemon'[c].heard \notin {NoSignal, 0}
         => daemon'[c].heard + Cardinality(Queued(c)') + Cardinality(Started(c)')
              = daemon[c].limit]_vars

(***************************************************************************)
(* A platform that stopped issuing because it heard pending_capacity 0 is  *)
(* told when there is room: no wakeup is lost, even if the frame that used *)
(* the last slot gets no response, or the refusal came from a detach that  *)
(* was given up (_status_ticker, the capacity-edge STATUS).  (That what     *)
(* begins also ends is []<>~P, here and in the next two.)                  *)
(***************************************************************************)
Paused(c) == /\ daemon[c].heard = 0
             /\ daemon[c].status = "up"
             /\ HasRoom(daemon[c])
PausedPlatformIsReleased == \A c \in Chats : []<>~Paused(c)

(***************************************************************************)
(* A connection that ends, by whichever way and however many at once, is   *)
(* over in bounded time though its requests hang in threads that never     *)
(* return (DISPATCH_DRAIN_SECONDS).                                        *)
(***************************************************************************)
EndingIsBounded ==
    \A c \in Chats :
        []<>(daemon[c].status \notin {"stopping", "closing", "revoking", "ending"})

(***************************************************************************)
(* A request waiting for a machine slot gets one or an answer, though      *)
(* every slot is held by work that never ends (MACHINE_WORK_WAIT_SECONDS). *)
(***************************************************************************)
SlotWaitIsBounded ==
    \A r \in Requests : []<>(req[r].phase # "waiting")

(***************************************************************************)
(* The inductive invariant behind the safety properties.                   *)
(***************************************************************************)
InUse(r) == req[r].phase # "none"
HasWork(r) == req[r].phase \in {"waiting", "running"}

(* A request carries its chat, a connection of that chat so far, and, once *)
(* started, that connection's generation.                                  *)
RequestInv ==
    \A r \in Requests :
        /\ InUse(r) => /\ req[r].chat \in Chats
                       /\ req[r].ws <= generation[req[r].chat]
        /\ HasWork(r) => req[r].gen = req[r].ws
        /\ req[r].pool <= pool

(* Exactly the requests of the connection that serves are not cancelled;   *)
(* they are the tasks their daemon knows.                                  *)
Current(r) ==
    LET d == daemon[req[r].chat] IN
    /\ ~req[r].cancelled => /\ d.status \in Serving
                            /\ req[r].ws = generation[req[r].chat]
                            /\ r \in d.tasks
    /\ d.status \in Serving /\ req[r].ws = generation[req[r].chat]
         => ~req[r].cancelled
    /\ d.status = "backoff" => req[r].ws < generation[req[r].chat]
CurrentInv == \A r \in Requests : InUse(r) => Current(r)

(* The counters and the semaphore of a child. *)
Tally(c) ==
    LET d == daemon[c] IN
    /\ d.pool <= pool
    /\ d.status # "absent" => d.inFlight = Cardinality(Started(c))
    /\ d.status \in Serving \cup {"revoking", "ending"}
         => d.semaphore + d.inFlight = d.limit
    /\ d.status \in Serving => /\ d.queueDepth = Cardinality(Queued(c))
                               /\ d.pending = d.queueDepth + d.inFlight
                               /\ d.pending <= d.limit
    /\ d.revoked => d.status \in {"revoking", "ending"} /\ d.disableReconnect
    /\ d.status = "revoking" => d.revoked
CounterInv == \A c \in Chats : Tally(c)

(* A daemon's tasks are its own. *)
TaskInv == \A c \in Chats : \A r \in daemon[c].tasks : req[r].chat = c

IInv == /\ TypeOK
        /\ RequestInv
        /\ CurrentInv
        /\ TaskInv
        /\ CounterInv
        /\ SlotsConserved
        /\ IdleDetachCutsNothing

(***************************************************************************)
(* PROTOCOL.md, Concurrency: the chats on a machine share the control      *)
(* connection's max_concurrent slots, and a slot stays taken until its     *)
(* work ends, including work still running in a thread after its session   *)
(* ended.  The code keeps this while one control connection lasts, but     *)
(* _handshake gives the next one a new semaphore with every slot free.     *)
(***************************************************************************)
WorkWithinMachineSlots ==
    Cardinality({r \in Requests : req[r].phase = "running"}) <= MachineSlots

=============================================================================
