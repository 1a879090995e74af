----------------------------- MODULE ComputerUse -----------------------------
(***************************************************************************)
(* Computer use: the requests of all chats relay their tool calls to one   *)
(* cua-driver process, which the bridge starts on first use, replaces when *)
(* it has died, and stops to end a call nobody waits for any more.  The    *)
(* driver runs one call at a time and cannot be asked to drop one.         *)
(*                                                                         *)
(* asyncio.Lock is fair: a lock is the queue of the tasks that want it,    *)
(* whose head has it.                                                      *)
(***************************************************************************)
EXTENDS Naturals, Sequences, FiniteSets

CONSTANTS
    Callers,        (* requests that can be handled at the same time       *)
    Closer,         (* the daemon's end                                    *)
    NoOne,
    MaxDrivers,     (* bound on the driver processes started               *)
    MaxStarts,      (* MAX_STARTS_PER_WINDOW                               *)
    Sequenced,      (* the system numbers its clipboard's contents         *)
    ListsTypes      (* the driver lists the types of what it read          *)

Drivers  == 1..MaxDrivers       (* in the order they are started           *)
NoDriver == 0

ASSUME ComputerUseAssumption ==
    /\ MaxDrivers \in Nat /\ MaxStarts \in Nat
    /\ Callers \cap Drivers = {} /\ Closer \notin Callers \cup Drivers
    /\ Sequenced \in BOOLEAN /\ ListsTypes \in BOOLEAN
    /\ Sequenced \/ ListsTypes

VARIABLES
    caller,         (* every request: see Caller                           *)
    turns,          (* CuaDriverBridge._turn                               *)
    queue,          (* CuaDriverBridge._lock; a driver's number stands for *)
                    (* the task that is to stop it                         *)
    proc,           (* every driver process                                *)
    acting,         (* the request whose call it runs                      *)
    stop,           (* _stop_unfinished, for every driver                  *)
    client,         (* the driver the bridge holds                         *)
    starts,         (* _starts, the drivers standing for their times,      *)
                    (* which increase as they do                           *)
    recent,         (* those started in the last START_WINDOW_SECONDS      *)
    ours,           (* those the bridge stopped for a call: history        *)
    close,          (* where CuaDriverBridge.close is                      *)
    private         (* the clipboard's content is marked private           *)

locks  == <<turns, queue>>
bridge == <<client, starts, recent, ours>>
vars   == <<caller, locks, proc, acting, stop, bridge, close, private>>

(* A request: where it is, the driver it starts, replaces or calls, and    *)
(* for a clipboard_read whether the clipboard's number has changed since   *)
(* the first look, and whether what the driver read was private; once it   *)
(* is answered, the text that went to the platform.                        *)
Step == {"idle", "snapshot", "look", "turn", "ensure", "replacing", "starting",
         "undoing", "call", "stop", "look again"}
Caller == [step : Step, tool : {"list", "act", "read"},
           driver : Drivers \cup {NoDriver}, changed : BOOLEAN,
           text : {"none", "plain", "private"}]

Idle == [step |-> "idle", tool |-> "list", driver |-> NoDriver, changed |-> FALSE,
         text |-> "none"]

Init ==
    /\ caller = [c \in Callers |-> Idle]
    /\ turns = <<>> /\ queue = <<>>
    /\ proc = [d \in Drivers |-> "none"]
    /\ acting = [d \in Drivers |-> NoOne]
    /\ stop = [d \in Drivers |-> "no"]
    /\ client = NoDriver /\ starts = {} /\ recent = {} /\ ours = {}
    /\ close = "no"
    /\ private = FALSE

At(c, step)  == caller[c].step = step
Has(q, x)    == q # <<>> /\ Head(q) = x

(* Each task is in a queue once at most.                                   *)
Without(q, x) ==
    LET at == {i \in DOMAIN q : q[i] = x}
        i  == CHOOSE i \in at : TRUE
    IN  IF at = {} THEN q ELSE SubSeq(q, 1, i - 1) \o SubSeq(q, i + 1, Len(q))

(* StdioMcpClient.alive: it runs, and its output has not ended.            *)
Alive(d) == proc[d] = "alive"

Closed == close \in {"closing", "done"}

(* A request is answered: it gives back whatever it waited for or held.    *)
Ends(c) ==
    /\ caller' = [caller EXCEPT ![c] = Idle]
    /\ turns' = Without(turns, c)
    /\ queue' = Without(queue, c)

Goes(c, step) == caller' = [caller EXCEPT ![c].step = step]

(***************************************************************************)
(* Every request asks for a snapshot of the driver first, which starts it. *)
(***************************************************************************)

Request(c, tool) ==
    /\ At(c, "idle")
    /\ caller' = [caller EXCEPT ![c] = [Idle EXCEPT !.step = "snapshot", !.tool = tool]]
    /\ queue' = Append(queue, c)
    /\ UNCHANGED <<turns, proc, acting, stop, bridge, close, private>>

(* COMPUTER_TOOLS_REQUEST is answered with the snapshot; a clipboard_read  *)
(* looks at the clipboard before its turn; a call gets its driver.         *)
Ensured(c, d) ==
    IF Has(turns, c)
    THEN /\ caller' = [caller EXCEPT ![c].step = "call", ![c].driver = d]
         /\ acting' = [acting EXCEPT ![d] = c]
         /\ queue' = Without(queue, c) /\ UNCHANGED turns
    ELSE /\ UNCHANGED acting
         /\ \/ caller[c].tool = "list" /\ Ends(c)
            \/ /\ caller[c].tool = "read"
               /\ Goes(c, "look")
               /\ queue' = Without(queue, c) /\ UNCHANGED turns
            \/ /\ caller[c].tool = "act"
               /\ Goes(c, "turn")
               /\ queue' = Without(queue, c)
               /\ turns' = Append(turns, c)

FirstLook(c) ==
    /\ At(c, "look")
    /\ IF private THEN Ends(c)
       ELSE /\ caller' = [caller EXCEPT ![c].step = "turn", ![c].changed = FALSE]
            /\ turns' = Append(turns, c)
            /\ UNCHANGED queue
    /\ UNCHANGED <<proc, acting, stop, bridge, close, private>>

(* Faulty variant: the call goes out without waiting for the others.       *)
TakeTurnAtOnce(c) ==
    /\ At(c, "turn")
    /\ Goes(c, "ensure")
    /\ queue' = Append(queue, c)
    /\ UNCHANGED <<turns, proc, acting, stop, bridge, close, private>>

TakeTurn(c) ==
    /\ At(c, "turn") /\ Has(turns, c)
    /\ Goes(c, "ensure")
    /\ queue' = Append(queue, c)
    /\ UNCHANGED <<turns, proc, acting, stop, bridge, close, private>>

(* The wait for the turn is bounded by the call's own timeout.             *)
TurnTimesOut(c) ==
    /\ At(c, "turn") /\ ~Has(turns, c)
    /\ Ends(c)
    /\ UNCHANGED <<proc, acting, stop, bridge, close, private>>

(***************************************************************************)
(* _ensure_client, under the lock.                                         *)
(***************************************************************************)

Ensuring(c) == caller[c].step \in {"snapshot", "ensure"} /\ Has(queue, c)

(* _check_restart_budget forgets what is older than the window.            *)
Counted == starts \cap recent
Popped  == starts \ {d \in starts : \A e \in starts : e <= d}

Found(c) ==
    /\ Ensuring(c) /\ client # NoDriver /\ Alive(client)
    /\ Ensured(c, client)
    /\ UNCHANGED <<proc, stop, bridge, close, private>>

(* A driver that has died is closed before another is started.             *)
Replaces(c) ==
    /\ Ensuring(c) /\ client # NoDriver /\ ~Alive(client) /\ ~Closed
    /\ caller' = [caller EXCEPT ![c].step = "replacing", ![c].driver = client]
    /\ client' = NoDriver
    /\ UNCHANGED <<locks, proc, acting, stop, starts, recent, ours, close, private>>

Replaced(c) ==
    /\ At(c, "replacing") /\ proc[caller[c].driver] = "dead"
    /\ caller' = [caller EXCEPT ![c].driver = NoDriver,
                                ![c].step = IF Has(turns, c) THEN "ensure"
                                                             ELSE "snapshot"]
    /\ UNCHANGED <<locks, proc, acting, stop, bridge, close, private>>

(* The executor is stopping, too many drivers have failed, or none can be  *)
(* started: no binary, or nowhere to write its policy.                     *)
Refused(c) ==
    /\ Ensuring(c)
    /\ \/ Closed /\ (client # NoDriver => ~Alive(client)) /\ UNCHANGED starts
       \/ ~Closed /\ client = NoDriver /\ starts' = Counted
    /\ Ends(c)
    /\ UNCHANGED <<proc, acting, stop, client, recent, ours, close, private>>

Starts(c) ==
    /\ Ensuring(c) /\ client = NoDriver /\ ~Closed
    /\ Cardinality(Counted) < MaxStarts
    /\ \E d \in Drivers :
          /\ proc[d] = "none" /\ \A e \in 1..(d - 1) : proc[e] # "none"
          /\ proc' = [proc EXCEPT ![d] = "alive"]
          /\ starts' = Counted \cup {d}
          /\ recent' = recent \cup {d}
          /\ caller' = [caller EXCEPT ![c].step = "starting", ![c].driver = d]
    /\ UNCHANGED <<locks, acting, stop, client, ours, close, private>>

Started(c) ==
    /\ At(c, "starting") /\ Alive(caller[c].driver)
    /\ client' = caller[c].driver
    /\ Ensured(c, caller[c].driver)
    /\ UNCHANGED <<proc, stop, starts, recent, ours, close, private>>

Told(d) == proc' = [proc EXCEPT ![d] = IF @ = "alive" THEN "ending" ELSE @]

(* It exits, takes too long, or is of another version: it is closed.  So   *)
(* it is if the request is cancelled meanwhile.                            *)
StartFails(c) ==
    /\ At(c, "starting")
    /\ Goes(c, "undoing")
    /\ Told(caller[c].driver)
    /\ UNCHANGED <<locks, acting, stop, bridge, close, private>>

Undone(c) ==
    /\ At(c, "undoing") /\ proc[caller[c].driver] = "dead"
    /\ Ends(c)
    /\ UNCHANGED <<proc, acting, stop, bridge, close, private>>

(***************************************************************************)
(* The call.                                                               *)
(***************************************************************************)

(* The driver reads the clipboard at some moment of the call.              *)
Reads(c) ==
    /\ At(c, "call") /\ caller[c].tool = "read" /\ caller[c].text = "none"
    /\ acting[caller[c].driver] = c
    /\ caller' = [caller EXCEPT ![c].text = IF private THEN "private" ELSE "plain"]
    /\ UNCHANGED <<locks, proc, acting, stop, bridge, close, private>>

Answered(c) ==
    /\ At(c, "call") /\ Alive(caller[c].driver)
    /\ caller[c].tool = "read" => caller[c].text # "none"
    /\ acting' = [acting EXCEPT ![caller[c].driver] = NoOne]
    /\ IF caller[c].tool = "read" /\ ~(ListsTypes /\ caller[c].text = "private")
       THEN Goes(c, "look again") /\ turns' = Without(turns, c) /\ UNCHANGED queue
       ELSE Ends(c)
    /\ UNCHANGED <<proc, stop, bridge, close, private>>

(* Faulty variant: only what is there by now is looked at.                 *)
PublicByNow(c) == ~private

(* Its text goes to the platform only if the clipboard has not changed     *)
(* since the first look and is not private now.                            *)
Unchanged(c) == ~private /\ ~(Sequenced /\ caller[c].changed)

SecondLook(c) ==
    /\ At(c, "look again")
    /\ caller' = [caller EXCEPT ![c] =
                    [Idle EXCEPT !.text = IF Unchanged(c) THEN caller[c].text ELSE "none"]]
    /\ UNCHANGED <<locks, proc, acting, stop, bridge, close, private>>

(* The driver's output has ended: every call on it fails.                  *)
CallFails(c) ==
    /\ At(c, "call") /\ ~Alive(caller[c].driver)
    /\ Ends(c)
    /\ UNCHANGED <<proc, acting, stop, bridge, close, private>>

(* Faulty variant: whoever has waited long enough is told so.              *)
OverrunsUnstopped(c) ==
    /\ At(c, "call")
    /\ Ends(c)
    /\ UNCHANGED <<proc, acting, stop, bridge, close, private>>

(* It took longer than its timeout, or its request is cancelled: a task of *)
(* its own (asyncio.shield) is to stop the driver.                         *)
Overruns(c) ==
    /\ At(c, "call")
    /\ Goes(c, "stop")
    /\ stop' = [stop EXCEPT ![caller[c].driver] = "waiting"]
    /\ queue' = Append(queue, caller[c].driver)
    /\ UNCHANGED <<turns, proc, acting, bridge, close, private>>

(* Faulty variant: the last start is forgiven, whichever driver's it is.   *)
StopTakesLast(d) ==
    /\ stop[d] = "waiting" /\ Has(queue, d)
    /\ client' = IF client = d THEN NoDriver ELSE client
    /\ starts' = Popped
    /\ ours' = IF client = d THEN ours \cup {d} ELSE ours
    /\ queue' = Tail(queue)
    /\ stop' = [stop EXCEPT ![d] = "closing"]
    /\ Told(d)
    /\ UNCHANGED <<caller, turns, acting, recent, close, private>>

(* Its start is taken off the budget, unless the bridge has another driver *)
(* by now, and so had found this one dead.                                 *)
StopTakes(d) ==
    /\ stop[d] = "waiting" /\ Has(queue, d)
    /\ IF client = d
       THEN /\ client' = NoDriver
            /\ starts' = Popped
            /\ ours' = ours \cup {d}
       ELSE UNCHANGED <<client, starts, ours>>
    /\ queue' = Tail(queue)
    /\ stop' = [stop EXCEPT ![d] = "closing"]
    /\ Told(d)
    /\ UNCHANGED <<caller, turns, acting, recent, close, private>>

Stopped(c) ==
    /\ At(c, "stop")
    /\ stop[caller[c].driver] = "closing" /\ proc[caller[c].driver] = "dead"
    /\ Ends(c)
    /\ UNCHANGED <<proc, acting, stop, bridge, close, private>>

(* The request is cancelled (again): by its chat, or with its session.  A  *)
(* driver it is starting or calling is stopped first; what stops one goes  *)
(* on without it.                                                          *)
Cancel(c) ==
    /\ ~At(c, "idle")
    /\ IF At(c, "call") THEN Overruns(c)
       ELSE IF At(c, "starting") THEN StartFails(c)
       ELSE Ends(c) /\ UNCHANGED <<proc, acting, stop, bridge, close, private>>

(***************************************************************************)
(* The driver, the daemon's end, other programs, and time.                 *)
(***************************************************************************)

(* It crashes, or its output ends or makes no sense: then it is killed.    *)
Fails(d) ==
    /\ proc[d] = "alive"
    /\ proc' = [proc EXCEPT ![d] = "ending"]
    /\ UNCHANGED <<caller, locks, acting, stop, bridge, close, private>>

(* Whatever ends, ends: it is killed in the end.                           *)
Gone(d) ==
    /\ proc[d] = "ending"
    /\ proc' = [proc EXCEPT ![d] = "dead"]
    /\ acting' = [acting EXCEPT ![d] = NoOne]
    /\ UNCHANGED <<caller, locks, stop, bridge, close, private>>

CloseAsked ==
    /\ close = "no"
    /\ close' = "waiting"
    /\ queue' = Append(queue, Closer)
    /\ UNCHANGED <<caller, turns, proc, acting, stop, bridge, private>>

CloseTakes ==
    /\ close = "waiting" /\ Has(queue, Closer)
    /\ close' = "closing"
    /\ IF client = NoDriver THEN UNCHANGED proc ELSE Told(client)
    /\ UNCHANGED <<caller, locks, acting, stop, bridge, private>>

CloseEnds ==
    /\ close = "closing"
    /\ client # NoDriver => proc[client] = "dead"
    /\ close' = "done"
    /\ client' = NoDriver
    /\ queue' = Tail(queue)
    /\ UNCHANGED <<caller, turns, proc, acting, stop, starts, recent, ours, private>>

(* Somebody copies something.                                              *)
Copy ==
    /\ private' \in BOOLEAN
    /\ caller' = [c \in Callers |-> [caller[c] EXCEPT !.changed =
                    caller[c].tool = "read" /\ caller[c].step \notin {"snapshot", "look"}]]
    /\ UNCHANGED <<locks, proc, acting, stop, bridge, close>>

WindowPasses ==
    /\ \E d \in recent : /\ \A e \in recent : d <= e
                         /\ recent' = recent \ {d}
    /\ UNCHANGED <<caller, locks, proc, acting, stop, client, starts, ours, close,
                   private>>

Next ==
    \/ \E c \in Callers :
          \/ \E tool \in {"list", "act", "read"} : Request(c, tool)
          \/ FirstLook(c) \/ TakeTurn(c) \/ TurnTimesOut(c)
          \/ Found(c) \/ Replaces(c) \/ Replaced(c) \/ Refused(c)
          \/ Starts(c) \/ Started(c) \/ StartFails(c) \/ Undone(c)
          \/ Reads(c) \/ Answered(c) \/ SecondLook(c) \/ CallFails(c)
          \/ Overruns(c) \/ Stopped(c) \/ Cancel(c)
    \/ \E d \in Drivers : StopTakes(d) \/ Fails(d) \/ Gone(d)
    \/ CloseAsked \/ CloseTakes \/ CloseEnds
    \/ Copy \/ WindowPasses

Spec == Init /\ [][Next]_vars

(***************************************************************************)
(* Properties                                                              *)
(***************************************************************************)

(* Values have their types; whoever starts or replaces a driver has the    *)
(* bridge's lock, and whoever calls one has the turn.                      *)
TypeOK ==
    /\ caller \in [Callers -> Caller]
    /\ turns \in Seq(Callers) /\ queue \in Seq(Callers \cup Drivers \cup {Closer})
    /\ proc \in [Drivers -> {"none", "alive", "ending", "dead"}]
    /\ acting \in [Drivers -> Callers \cup {NoOne}]
    /\ stop \in [Drivers -> {"no", "waiting", "closing"}]
    /\ client \in Drivers \cup {NoDriver}
    /\ {starts, recent, ours} \subseteq SUBSET Drivers
    /\ private \in BOOLEAN
    /\ close \in {"no", "waiting", "closing", "done"}
    /\ \A c \in Callers :
          /\ caller[c].step \in {"replacing", "starting", "undoing"} => Has(queue, c)
          /\ caller[c].step \in {"ensure", "call", "stop"} => Has(turns, c)
          /\ caller[c].step = "call" => caller[c].driver # NoDriver
    /\ close = "closing" => Has(queue, Closer)

(* A driver acts on the machine only for a call somebody waits for, or it  *)
(* is being stopped: whatever overran, was cancelled, and cancelled again. *)
ActsForSomeone ==
    \A d \in Drivers : acting[d] # NoOne =>
        \/ At(acting[d], "call") /\ caller[acting[d]].driver = d
        \/ stop[d] # "no"
        \/ proc[d] = "ending"

(* The restart budget counts every driver started in the window but those  *)
(* the bridge stopped for a call: no more than MaxStarts that fail.        *)
BudgetCountsFailures ==
    /\ recent \cap starts = recent \ ours
    /\ Cardinality(recent \ ours) <= MaxStarts

(* A clipboard_read under --enable-clipboard-read-foreign sends no text    *)
(* that was private when the driver read it.                               *)
ClipboardKeptPrivate ==
    \A c \in Callers : At(c, "idle") => caller[c].text # "private"

=============================================================================
