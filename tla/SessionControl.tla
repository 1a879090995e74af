--------------------------- MODULE SessionControl ---------------------------
(***************************************************************************)
(* The control daemon's sessions: ATTACH_SESSION, ACTIVATE_SESSION,        *)
(* RESTORE_SESSION, DETACH_SESSION and the idle reaper.                    *)
(*                                                                         *)
(* Each request is an asyncio task that works on one session under that    *)
(* session's lock (_session_lock) and awaits worker threads, audit writes, *)
(* the lock on the table of children, and the end of children it stops.    *)
(* Between two awaits it runs alone.  The loss of the control connection   *)
(* cancels all of them at whatever they await; the children run on until   *)
(* the next control connection stops them.                                 *)
(***************************************************************************)
EXTENDS Naturals, FiniteSets, Sequences

CONSTANTS
    Sessions,       (* chats                                               *)
    Roots,          (* directories a chat can be bound to                  *)
    Ops,            (* identities of concurrent control operations         *)
    Children,       (* identities of concurrently existing child daemons   *)
    Locks,          (* identities of concurrently existing session locks   *)
    Earlier,        (* what grants earlier runs of the daemon may have     *)
                    (* signed, each a sequence of them                     *)
    Kinds,          (* bound on the kinds of operation that occur          *)
    MaxGrants,      (* bound on root grants issued                         *)
    MaxActive,      (* MAX_ACTIVE_CHILD_SESSIONS                           *)
    MaxBindings,    (* MAX_SESSION_BINDINGS                                *)
    NoOp, NoChild, NoLock, NoSession

Grants  == 1..MaxGrants
NoGrant == 0
Grant   == [session : Sessions, root : Roots, revision : Nat \ {0}]

ASSUME SessionControlAssumption ==
    /\ IsFiniteSet(Ops) /\ IsFiniteSet(Sessions) /\ IsFiniteSet(Locks)
    /\ Cardinality(Ops) <= Cardinality(Locks)
    /\ Kinds \subseteq {"attach", "activate", "restore", "detach", "reap"}
    /\ MaxGrants \in Nat /\ MaxActive \in Nat \ {0}
    /\ MaxBindings \in Nat /\ MaxActive < MaxBindings
    /\ \A e \in Earlier : e \in Seq(Grant) /\ Len(e) <= MaxGrants
    /\ NoOp \notin Ops \cup Children /\ NoChild \notin Children
    /\ Ops \cap Children = {}
    /\ NoLock \notin Locks /\ NoSession \notin Sessions

VARIABLES
    conn,           (* the control connection: "up", "draining" (lost, its   *)
                    (* requests cancelled), or "down"                       *)
    op,             (* every control operation                             *)
    registry,       (* _session_locks: a session's lock object             *)
    stopper,        (* who holds _children_lock over an await: an          *)
                    (* operation, or the shutdown, named by the child it   *)
                    (* stops                                               *)
    bound,          (* _session_bindings, an OrderedDict                   *)
    slot,           (* _child_sessions                                     *)
    child,          (* every child daemon                                  *)
    grant,          (* the grants signed so far, in order                  *)
    given           (* those the platform has been sent                    *)

grants == <<grant, given>>
vars   == <<conn, op, registry, stopper, bound, slot, child, grants>>

(***************************************************************************)
(* An operation: what it awaits (phase), the session and its lock object,  *)
(* the grant it binds, the binding it read before (previous_binding), and  *)
(* whether it started the child (started_child) or replaced one            *)
(* (replaced_child), audited or not.  "stop" waits for _children_lock to   *)
(* stop the session's child, "ending" for that child's end; "start" and    *)
(* "restart" wait for the lock to start one.                               *)
(***************************************************************************)
Kind  == {"attach", "activate", "restore", "detach", "reap"}
Phase == {"idle", "lock", "resolving", "issuing", "verifying", "auditing",
          "stop", "ending", "start", "restart"}
Reason == {"none", "replace", "detach", "reap", "undo"}

Op == [kind : Kind, session : Sessions \cup {NoSession}, phase : Phase,
       lock : Locks \cup {NoLock}, grant : Grants \cup {NoGrant},
       prev : Grants \cup {NoGrant}, fresh : BOOLEAN,
       replaced : {"no", "audited", "unaudited"}, why : Reason,
       target : Children \cup {NoChild}]

Idle == [kind |-> "detach", session |-> NoSession, phase |-> "idle",
         lock |-> NoLock, grant |-> NoGrant, prev |-> NoGrant, fresh |-> FALSE,
         replaced |-> "no", why |-> "none", target |-> NoChild]

(***************************************************************************)
(* A child's task is "live", "stopping" (stop() was called or the task     *)
(* cancelled), or "done" with its done-callback still to run.              *)
(***************************************************************************)
Child == [status : {"none", "live", "stopping", "done"},
          session : Sessions \cup {NoSession}, grant : Grants \cup {NoGrant},
          audited : BOOLEAN, old : BOOLEAN]

NoDaemon == [status |-> "none", session |-> NoSession, grant |-> NoGrant,
             audited |-> FALSE, old |-> FALSE]

Binding == [session : Sessions, grant : Grants]

TypeOK ==
    /\ conn \in {"up", "draining", "down"}
    /\ op \in [Ops -> Op]
    /\ registry \in [Sessions -> Locks \cup {NoLock}]
    /\ stopper \in Ops \cup Children \cup {NoOp}
    /\ bound \in Seq(Binding) /\ Len(bound) <= MaxBindings
    /\ slot \in [Sessions -> Children \cup {NoChild}]
    /\ child \in [Children -> Child]
    /\ grant \in Seq(Grant) /\ Len(grant) <= MaxGrants
    /\ given \in SUBSET Grants

-----------------------------------------------------------------------------
Active(s) == slot[s] # NoChild /\ child[slot[s]].status # "done"
Ended(k)  == child[k].status \in {"none", "done"}
Inside(o) == op[o].phase \notin {"idle", "lock"}

At(s) == {i \in DOMAIN bound : bound[i].session = s}

BoundTo(s) == IF At(s) = {} THEN NoGrant ELSE bound[CHOOSE i \in At(s) : TRUE].grant

Revision(g) == IF g = NoGrant THEN 0 ELSE grant[g].revision

Without(seq, i) == SubSeq(seq, 1, i - 1) \o SubSeq(seq, i + 1, Len(seq))

(* A chat has one binding at most. *)
Forgotten(s) == IF At(s) = {} THEN bound ELSE Without(bound, CHOOSE i \in At(s) : TRUE)

(* Faulty variant: the limit is passed before a binding goes. *)
OneTooMany(n) == n > MaxBindings + 1
TooMany(n) == n > MaxBindings

(* _remember_binding: s becomes the newest, and the oldest without an      *)
(* active child goes when there are too many.                              *)
Remembered(s, g) ==
    LET all == Append(Forgotten(s), [session |-> s, grant |-> g])
        out == CHOOSE i \in DOMAIN all :
                 /\ ~Active(all[i].session)
                 /\ \A j \in 1..(i - 1) : Active(all[j].session)
    IN  IF TooMany(Len(all)) THEN Without(all, out) ELSE all

-----------------------------------------------------------------------------
(* The session locks *)

(* Entering _session_lock counts a user of the registered lock object,     *)
(* leaving it uncounts one and unregisters an unused one.  Faulty variant: *)
(* whoever leaves unregisters.                                             *)
NoUserLeft(l, o) == TRUE
Unused(l, o) == \A q \in Ops \ {o} : op[q].lock # l

LockFor(s) ==
    IF registry[s] # NoLock THEN {registry[s]}
    ELSE {l \in Locks : \A q \in Ops : op[q].lock # l}

(* The operation is over: its reply is sent, or its error. *)
Leaves(o) ==
    /\ op' = [op EXCEPT ![o] = Idle]
    /\ registry' = [registry EXCEPT ![op[o].session] =
                      IF @ = op[o].lock /\ Unused(op[o].lock, o) THEN NoLock
                                                                 ELSE @]
(* It awaits something else. *)
Awaits(o, next) == op' = [op EXCEPT ![o] = next] /\ UNCHANGED registry

(* Faulty variant: no mutual exclusion. *)
LockAlwaysFree(o) == op[o].phase = "lock"
LockFree(o) == /\ op[o].phase = "lock"
               /\ \A q \in Ops : Inside(q) => op[q].lock # op[o].lock

-----------------------------------------------------------------------------
Init ==
    /\ conn = "up"
    /\ op = [o \in Ops |-> Idle]
    /\ registry = [s \in Sessions |-> NoLock]
    /\ stopper = NoOp
    /\ bound = <<>>
    /\ slot = [s \in Sessions |-> NoChild]
    /\ child = [k \in Children |-> NoDaemon]
    /\ grant \in Earlier
    /\ given = DOMAIN grant

(* A request's task reaches its session's lock.  A RESTORE_SESSION brings  *)
(* any grant the platform was ever sent for that chat.                     *)
Request(o, kind, s) ==
    /\ conn = "up"
    /\ op[o] = Idle
    /\ \E l \in LockFor(s),
          g \in IF kind = "restore"
                THEN {h \in given : grant[h].session = s} ELSE {NoGrant} :
         /\ op' = [op EXCEPT ![o] = [Idle EXCEPT !.kind = kind, !.session = s,
                                       !.phase = "lock", !.lock = l,
                                       !.grant = g]]
         /\ registry' = [registry EXCEPT ![s] = l]
    /\ UNCHANGED <<conn, stopper, bound, slot, child, grants>>

(* _reap_idle_children, one session at a time, finds s's child idle. *)
Reap(o, s) ==
    /\ "reap" \in Kinds
    /\ conn # "down"
    /\ op[o] = Idle
    /\ \A q \in Ops : op[q].kind # "reap"
    /\ Active(s)
    /\ \E l \in LockFor(s) :
         /\ op' = [op EXCEPT ![o] = [Idle EXCEPT !.kind = "reap", !.session = s,
                                       !.phase = "lock", !.lock = l,
                                       !.target = slot[s]]]
         /\ registry' = [registry EXCEPT ![s] = l]
    /\ UNCHANGED <<conn, stopper, bound, slot, child, grants>>

-----------------------------------------------------------------------------
(* Stopping and starting a child *)

(* The step of o that begins a stop. *)
ToStop(o, why) == [op[o] EXCEPT !.phase = "stop", !.why = why]

(* What a child that is being stopped, or ended, served is of no account.  *)
(* A live one is stopped.                                                  *)
Stop(c) == IF c.status = "live"
           THEN [c EXCEPT !.status = "stopping", !.grant = NoGrant,
                          !.audited = FALSE]
           ELSE c
End(c)  == [Stop(c) EXCEPT !.status = "done", !.old = FALSE]

(* An identity for a new child, which no operation still remembers. *)
Spare(k) == child[k].status = "none" /\ \A o \in Ops : op[o].target # k

Starts(s, g, audited) ==
    /\ stopper = NoOp
    /\ Cardinality({t \in Sessions : Active(t)}) < MaxActive
    /\ \E k \in Children :
         /\ Spare(k)
         /\ slot' = [slot EXCEPT ![s] = k]
         /\ child' = [child EXCEPT ![k] = [status |-> "live", session |-> s,
                                           grant |-> g, audited |-> audited,
                                           old |-> FALSE]]

(* _start_child_session refuses when too many are active. *)
Refused == /\ stopper = NoOp
           /\ Cardinality({t \in Sessions : Active(t)}) >= MaxActive

-----------------------------------------------------------------------------
(* ATTACH_SESSION *)

(* Faulty variant: an active session can be bound to another root. *)
MayAlwaysAttach(s) == TRUE
MayAttach(s) == ~Active(s)

AttachEnters(o) ==
    /\ op[o].kind = "attach"
    /\ LockFree(o)
    /\ IF MayAttach(op[o].session)
       THEN Awaits(o, [op[o] EXCEPT !.phase = "resolving"])
       ELSE Leaves(o)
    /\ UNCHANGED <<conn, stopper, bound, slot, child, grants>>

(* The directory is resolved and the grant signed: the next revision of    *)
(* the binding that is current now.                                        *)
AttachResolved(o) ==
    LET s == op[o].session IN
    /\ op[o].phase = "resolving"
    /\ Len(grant) < MaxGrants
    /\ \E r \in Roots :
         grant' = Append(grant, [session |-> s, root |-> r,
                                 revision |-> Revision(BoundTo(s)) + 1])
    /\ Awaits(o, [op[o] EXCEPT !.phase = "issuing", !.grant = Len(grant')])
    /\ UNCHANGED <<conn, stopper, bound, slot, child, given>>

(* The reference is stale, or the directory gone: an error reply. *)
AttachRefused(o) ==
    /\ op[o].phase = "resolving"
    /\ Leaves(o)
    /\ UNCHANGED <<conn, stopper, bound, slot, child, grants>>

(* The binding is audited, remembered and sent; or could not be audited. *)
AttachAudited(o) ==
    /\ op[o].phase = "issuing"
    /\ bound' = Remembered(op[o].session, op[o].grant)
    /\ given' = given \cup {op[o].grant}
    /\ Leaves(o)
    /\ UNCHANGED <<conn, stopper, slot, child, grant>>

AttachUnaudited(o) ==
    /\ op[o].phase = "issuing"
    /\ Leaves(o)
    /\ UNCHANGED <<conn, stopper, bound, slot, child, grants>>

-----------------------------------------------------------------------------
(* ACTIVATE_SESSION and RESTORE_SESSION *)

(* An unattached session, or a revision that is not the current one, is    *)
(* refused.                                                                *)
ActivateEnters(o) ==
    LET g == BoundTo(op[o].session) IN
    /\ op[o].kind = "activate"
    /\ LockFree(o)
    /\ \/ /\ g # NoGrant
          /\ Awaits(o, [op[o] EXCEPT !.phase = "verifying", !.grant = g])
       \/ Leaves(o)
    /\ UNCHANGED <<conn, stopper, bound, slot, child, grants>>

RestoreEnters(o) ==
    /\ op[o].kind = "restore"
    /\ LockFree(o)
    /\ Awaits(o, [op[o] EXCEPT !.phase = "verifying"])
    /\ UNCHANGED <<conn, stopper, bound, slot, child, grants>>

(* The grant does not verify, because the directory changed. *)
VerifyFails(o) ==
    /\ op[o].phase = "verifying"
    /\ Leaves(o)
    /\ UNCHANGED <<conn, stopper, bound, slot, child, grants>>

(* o's grant becomes the session's binding, and a child is started unless  *)
(* one is active.                                                          *)
Binds(o, prev, fresh) ==
    /\ bound' = Remembered(op[o].session, op[o].grant)
    /\ Awaits(o, [op[o] EXCEPT !.prev = prev, !.fresh = fresh,
                               !.phase = IF fresh THEN "start" ELSE "auditing"])

ActivateVerified(o) ==
    LET s == op[o].session IN
    /\ op[o].kind = "activate"
    /\ op[o].phase = "verifying"
    /\ Binds(o, BoundTo(s), ~Active(s))
    /\ UNCHANGED <<conn, stopper, slot, child, grants>>

(* The grant is older than the binding, or conflicts with it. *)
Outdated(g, current) ==
    /\ current # NoGrant
    /\ \/ Revision(current) > Revision(g)
       \/ /\ Revision(current) = Revision(g)
          /\ grant[current].root # grant[g].root

RestoreOutdated(o) ==
    /\ op[o].kind = "restore"
    /\ op[o].phase = "verifying"
    /\ Outdated(op[o].grant, BoundTo(op[o].session))
    /\ Leaves(o)
    /\ UNCHANGED <<conn, stopper, bound, slot, child, grants>>

(* An active child of another binding is stopped first.                    *)
Replaces(s, g) == Active(s) /\ BoundTo(s) # g

RestoreVerified(o) ==
    LET s == op[o].session
        current == BoundTo(s) IN
    /\ op[o].kind = "restore"
    /\ op[o].phase = "verifying"
    /\ ~Outdated(op[o].grant, current)
    /\ IF Replaces(s, op[o].grant)
       THEN /\ Awaits(o, [ToStop(o, "replace") EXCEPT !.prev = current,
                            !.replaced = IF child[slot[s]].audited
                                         THEN "audited" ELSE "unaudited"])
            /\ UNCHANGED bound
       ELSE Binds(o, current, ~Active(s))
    /\ UNCHANGED <<conn, stopper, slot, child, grants>>

StartChild(o) ==
    /\ op[o].phase = "start"
    /\ Starts(op[o].session, op[o].grant, FALSE)
    /\ Awaits(o, [op[o] EXCEPT !.phase = "auditing"])
    /\ UNCHANGED <<conn, stopper, bound, grants>>

(* The start is audited, and the reply sent. *)
StartAudited(o) ==
    LET s == op[o].session IN
    /\ op[o].kind \in {"activate", "restore"}
    /\ op[o].phase = "auditing"
    /\ child' = IF slot[s] = NoChild THEN child
                ELSE [child EXCEPT ![slot[s]].audited = TRUE]
    /\ Leaves(o)
    /\ UNCHANGED <<conn, stopper, bound, slot, grants>>

(* The binding goes back to what it was; a child that was replaced is to   *)
(* be started again.                                                       *)
Undone(o) ==
    LET s == op[o].session IN
    IF op[o].prev = NoGrant
    THEN bound' = Forgotten(s) /\ Leaves(o)
    ELSE /\ bound' = Remembered(s, op[o].prev)
         /\ IF op[o].replaced = "no" THEN Leaves(o)
            ELSE Awaits(o, [op[o] EXCEPT !.phase = "restart", !.why = "none",
                                         !.target = NoChild])

(* Faulty variant: a child whose start could not be audited runs on. *)
NeverUndoes(o) == FALSE
MustUndo(o) == op[o].fresh

(* The child could not be started, or its start not be audited. *)
StartFails(o) ==
    /\ \/ op[o].phase = "start" /\ Refused
       \/ op[o].kind \in {"activate", "restore"} /\ op[o].phase = "auditing"
    /\ IF MustUndo(o) THEN Awaits(o, ToStop(o, "undo")) /\ UNCHANGED bound
                      ELSE Undone(o)
    /\ UNCHANGED <<conn, stopper, slot, child, grants>>

(* The child that was replaced starts again, with the record of its first  *)
(* start; a failure is only logged.                                        *)
Restart(o) ==
    /\ op[o].phase = "restart"
    /\ Starts(op[o].session, op[o].prev, op[o].replaced = "audited")
    /\ Leaves(o)
    /\ UNCHANGED <<conn, stopper, bound, grants>>

RestartFails(o) ==
    /\ op[o].phase = "restart"
    /\ Refused
    /\ Leaves(o)
    /\ UNCHANGED <<conn, stopper, bound, slot, child, grants>>

-----------------------------------------------------------------------------
(* DETACH_SESSION and the reaper *)

DetachEnters(o) ==
    /\ op[o].kind = "detach"
    /\ LockFree(o)
    /\ Awaits(o, ToStop(o, "detach"))
    /\ UNCHANGED <<conn, stopper, bound, slot, child, grants>>

(* The detach is audited, the binding forgotten, the ACK sent. *)
DetachAudited(o) ==
    /\ op[o].kind = "detach"
    /\ op[o].phase = "auditing"
    /\ bound' = Forgotten(op[o].session)
    /\ Leaves(o)
    /\ UNCHANGED <<conn, stopper, slot, child, grants>>

(* The reaper goes on with the child it found, if it still is the          *)
(* session's and still idle.                                               *)
ReapEnters(o) ==
    /\ op[o].kind = "reap"
    /\ LockFree(o)
    /\ \/ /\ slot[op[o].session] = op[o].target
          /\ Awaits(o, [op[o] EXCEPT !.phase = "auditing"])
       \/ Leaves(o)
    /\ UNCHANGED <<conn, stopper, bound, slot, child, grants>>

ReapAudited(o) ==
    /\ op[o].kind = "reap"
    /\ op[o].phase = "auditing"
    /\ Awaits(o, ToStop(o, "reap"))
    /\ UNCHANGED <<conn, stopper, bound, slot, child, grants>>

(* A detach, or a reaping, that could not be audited. *)
StopUnaudited(o) ==
    /\ op[o].kind \in {"detach", "reap"}
    /\ op[o].phase = "auditing"
    /\ Leaves(o)
    /\ UNCHANGED <<conn, stopper, bound, slot, child, grants>>

-----------------------------------------------------------------------------
(* _stop_child_session *)

(* What o does when the child it wanted stopped has ended. *)
Stopped(o) ==
    \/ /\ op[o].why = "replace"
       /\ bound' = Remembered(op[o].session, op[o].grant)
       /\ Awaits(o, [op[o] EXCEPT !.phase = "start", !.fresh = TRUE,
                                  !.why = "none", !.target = NoChild])
    \/ /\ op[o].why = "detach"
       /\ Awaits(o, [op[o] EXCEPT !.phase = "auditing", !.why = "none",
                                  !.target = NoChild])
       /\ UNCHANGED bound
    \/ op[o].why = "reap" /\ Leaves(o) /\ UNCHANGED bound
    \/ op[o].why = "undo" /\ Undone(o)

(* It is not in the table: there is nothing to stop. *)
StopNothing(o) ==
    /\ op[o].phase = "stop"
    /\ stopper = NoOp
    /\ slot[op[o].session] = NoChild
    /\ Stopped(o)
    /\ UNCHANGED <<conn, stopper, slot, child, grants>>

(* It leaves the table, is stopped, and its end awaited under the lock.    *)
(* Faulty variant: not under the lock.                                     *)
HeldByNone(o) == NoOp
HeldBy(o) == o

StopBegin(o) ==
    LET k == slot[op[o].session] IN
    /\ op[o].phase = "stop"
    /\ stopper = NoOp
    /\ k # NoChild
    /\ slot' = [slot EXCEPT ![op[o].session] = NoChild]
    /\ child' = [child EXCEPT ![k] = Stop(@)]
    /\ stopper' = HeldBy(o)
    /\ Awaits(o, [op[o] EXCEPT !.phase = "ending", !.target = k])
    /\ UNCHANGED <<conn, bound, grants>>

(* The lock is released with the child's end.  Faulty variant: it is not.  *)
KeepsLock(o) == stopper' = stopper
ReleasesLock(o) == stopper' = NoOp

StopEnd(o) ==
    /\ op[o].phase = "ending"
    /\ Ended(op[o].target)
    /\ ReleasesLock(o)
    /\ Stopped(o)
    /\ UNCHANGED <<conn, slot, child, grants>>

(* A child ends: it was stopped, or its connection ended for good. *)
ChildEnds(k) ==
    /\ child[k].status \in {"live", "stopping"}
    /\ child' = [child EXCEPT ![k] = End(@)]
    /\ UNCHANGED <<conn, op, registry, stopper, bound, slot, grants>>

(* Its done-callback takes it from the table, if it is the one there.      *)
(* Faulty variant: whoever is there.                                       *)
AnyInTable(k) == TRUE
InTable(k) == slot[child[k].session] = k

ChildFinished(k) ==
    /\ child[k].status = "done"
    /\ slot' = IF InTable(k) THEN [slot EXCEPT ![child[k].session] = NoChild]
                             ELSE slot
    /\ child' = [child EXCEPT ![k] = NoDaemon]
    /\ UNCHANGED <<conn, op, registry, stopper, bound, grants>>

-----------------------------------------------------------------------------
(* The control connection *)

(* Operations in which are cancelled at what they await, and let go of     *)
(* their locks.  None undoes what it did, and a child being stopped goes   *)
(* on ending by itself.                                                    *)
Cancelled(which) ==
    /\ op' = [o \in Ops |-> IF o \in which THEN Idle ELSE op[o]]
    /\ registry' = [s \in Sessions |->
                      IF \E o \in Ops \ which : op[o].lock # NoLock /\
                                                op[o].lock = registry[s]
                      THEN registry[s] ELSE NoLock]
    /\ stopper' = IF stopper \in which THEN NoOp ELSE stopper

(* It is lost, and its requests are cancelled. *)
Drop ==
    /\ conn = "up"
    /\ conn' = "draining"
    /\ Cancelled({o \in Ops : op[o].kind # "reap"})
    /\ child' = [k \in Children |->
                   IF Ended(k) THEN child[k]
                   ELSE [child[k] EXCEPT !.old = TRUE]]
    /\ UNCHANGED <<bound, slot, grants>>

(* When they have stopped, the reaper is cancelled too. *)
DrainDone ==
    /\ conn = "draining"
    /\ conn' = "down"
    /\ Cancelled(Ops)
    /\ UNCHANGED <<bound, slot, child, grants>>

(* The next connection first stops every child, one after the other        *)
(* (_run_session, _shutdown_children).                                     *)
ShutdownBegin(s) ==
    /\ conn = "down"
    /\ stopper = NoOp
    /\ slot[s] # NoChild
    /\ slot' = [slot EXCEPT ![s] = NoChild]
    /\ child' = [child EXCEPT ![slot[s]] = Stop(@)]
    /\ stopper' = slot[s]
    /\ UNCHANGED <<conn, op, registry, bound, grants>>

(* The child being stopped has ended.  One whose stop was cancelled with   *)
(* the old connection is not in the table, and not waited for.             *)
ShutdownEnd ==
    /\ stopper \in Children
    /\ Ended(stopper)
    /\ stopper' = NoOp
    /\ UNCHANGED <<conn, op, registry, bound, slot, child, grants>>

(* Faulty variant: the new connection serves while children of the old one *)
(* are still in the table.                                                 *)
TableIgnored == TRUE
TableEmpty == \A s \in Sessions : slot[s] = NoChild

Reconnect ==
    /\ conn = "down"
    /\ stopper = NoOp
    /\ TableEmpty
    /\ conn' = "up"
    /\ UNCHANGED <<op, registry, stopper, bound, slot, child, grants>>

-----------------------------------------------------------------------------
Enters(o) ==
    AttachEnters(o) \/ ActivateEnters(o) \/ RestoreEnters(o)
        \/ DetachEnters(o) \/ ReapEnters(o)

(* A worker thread returns, or an audit write. *)
Returns(o) ==
    \/ AttachResolved(o) \/ AttachRefused(o)
    \/ AttachAudited(o) \/ AttachUnaudited(o)
    \/ VerifyFails(o) \/ ActivateVerified(o)
    \/ RestoreOutdated(o) \/ RestoreVerified(o)
    \/ StartAudited(o) \/ StartFails(o)
    \/ DetachAudited(o) \/ ReapAudited(o) \/ StopUnaudited(o)

(* o has its turn of _children_lock. *)
Turn(o) ==
    \/ StartChild(o) \/ (op[o].phase = "start" /\ StartFails(o))
    \/ Restart(o) \/ RestartFails(o)
    \/ StopNothing(o) \/ StopBegin(o)

Next ==
    \/ \E o \in Ops : \/ \E s \in Sessions :
                          \/ \E kind \in Kinds \ {"reap"} : Request(o, kind, s)
                          \/ Reap(o, s)
                     \/ Enters(o) \/ Returns(o) \/ Turn(o) \/ StopEnd(o)
    \/ \E k \in Children : ChildEnds(k) \/ ChildFinished(k)
    \/ Drop
    \/ DrainDone
    \/ \E s \in Sessions : ShutdownBegin(s)
    \/ ShutdownEnd
    \/ Reconnect

Spec == Init /\ [][Next]_vars

(* Threads and audit writes return; asyncio.Lock serves its waiters in     *)
(* turn, so one that is free again and again is had (SF); the child being  *)
(* stopped ends, its drain being bounded (Dispatch!EndingIsBounded).       *)
Fairness ==
    /\ \A o \in Ops : /\ SF_vars(Enters(o) \/ Turn(o))
                       /\ WF_vars(Returns(o) \/ StopEnd(o))
    /\ \A k \in Children :
         WF_vars((child[k].status = "stopping" /\ ChildEnds(k)) \/ ChildFinished(k))

LiveSpec == Spec /\ Fairness

-----------------------------------------------------------------------------
(* Two operations never work on one chat at the same time, although the    *)
(* lock object of a chat comes and goes with its users (_session_lock).    *)
LockExcludes ==
    \A o, q \in Ops :
      o # q /\ Inside(o) /\ Inside(q) => op[o].session # op[q].session

(* A child daemon that is not being stopped is the one the table has for   *)
(* its chat, so that a detach, the reaper and the next control connection  *)
(* find it (_child_finished, _start_child_session).                        *)
NoLostChild ==
    \A k \in Children :
      child[k].status = "live" => slot[child[k].session] = k

Settled(s) == \A o \in Ops : Inside(o) => op[o].session # s

(* When no operation works on a chat, its child serves the directory the   *)
(* chat is bound to, whatever was replaced, undone or cancelled on the way *)
(* (_handle_restore_session_locked, _handle_attach_session_locked).        *)
BoundRootServes ==
    \A s \in Sessions :
      Settled(s) /\ Active(s) /\ BoundTo(s) # NoGrant
        => child[slot[s]].grant = BoundTo(s)

(* When no operation works on a chat, a child of this control connection   *)
(* has its start in the audit log: the rollback of ACTIVATE_SESSION and    *)
(* RESTORE_SESSION leaves no other.                                        *)
NothingServesUnaudited ==
    conn = "up" => \A s \in Sessions : Settled(s) /\ Active(s) => child[slot[s]].audited

(* A control connection serves with no child of an earlier one running,    *)
(* except one already being stopped (_run_session, _shutdown_children).    *)
OldChildrenStopped ==
    conn = "up" => \A k \in Children : child[k].old => child[k].status # "live"

(* At most MaxActive children of a control connection run or are ending:   *)
(* none starts while another's end is awaited (_start_child_session,       *)
(* _stop_child_session).                                                   *)
ChildrenWithinLimit ==
    Cardinality({k \in Children : child[k].status \in {"live", "stopping"}
                                    /\ ~child[k].old}) <= MaxActive

(* When a DETACH_SESSION is acknowledged, the chat has no binding, and no  *)
(* child that is not ending: none was started while the detach was audited.*)
DetachLeavesNothing ==
    [][\A o \in Ops, s \in Sessions : DetachAudited(o) /\ op[o].session = s =>
         /\ BoundTo(s)' = NoGrant
         /\ \A k \in Children :
              child'[k].status = "live" => child'[k].session # s]_vars

(* Every operation ends, though operations on many chats wait for each     *)
(* other's locks and for children to end (_session_lock, _children_lock).  *)
OperationsEnd == \A o \in Ops : op[o].phase # "idle" ~> op[o].phase = "idle"

=============================================================================
