------------------------------ MODULE Recording ------------------------------
(***************************************************************************)
(* Workflow recording: the user approves one recording in a local dialog,  *)
(* the platform starts it with the token of that approval, a background    *)
(* task drains what the input tap observes, STOP finalizes the recording   *)
(* and reviews then remove or hide its steps.                              *)
(*                                                                         *)
(* START is one step up to its audit record and a second one after it; a   *)
(* request that is cancelled meanwhile never takes the second one.  A turn *)
(* of the event loop may take as long as an audit record.                  *)
(***************************************************************************)
EXTENDS Naturals, Sequences, FiniteSets

CONSTANTS
    Ops,            (* requests that can be handled at the same time       *)
    Modes,          (* "copilot", "demonstration"                          *)
    Routes,         (* interpretation routes the platform asks for         *)
    RetentionLimit, (* recording_retention_limit                           *)
    MaxRecs,        (* bound on the recordings created                     *)
    MaxTokens,      (* bound on the approvals                              *)
    MaxSteps,       (* bound on the steps captured in a recording          *)
    MaxReviews      (* bound on the distinct reviews of a recording        *)

ASSUME RecordingAssumption ==
    /\ Modes \subseteq {"copilot", "demonstration"}
    /\ Routes \subseteq {"local_vlm", "extract_then_cloud", "screenshots_to_cloud"}
    /\ RetentionLimit \in Nat \ {0}
    /\ MaxRecs \in Nat /\ MaxTokens \in Nat /\ MaxSteps \in Nat /\ MaxReviews \in Nat

Recs   == 1..MaxRecs
NoRec  == 0
Tokens == 1..MaxTokens
Seqs   == 1..MaxSteps
Kinds  == [mode : Modes, route : {"local_vlm", "extract_then_cloud", "screenshots_to_cloud"}]

VARIABLES
    rec,            (* every RecordingSession                              *)
    sessions,       (* RecordingHandler._sessions, oldest first            *)
    active,         (* _active_recording_id                                *)
    task,           (* the task that drains each recording's source        *)
    consume,        (* _consume_task, as the recording it was created for  *)
    tap,            (* the input tap of each recording is in the system    *)
    token,          (* the consent tokens, in the order they were issued   *)
    op,             (* every request                                       *)
    applied         (* the reviews acknowledged for each recording: history*)

vars == <<rec, sessions, active, task, consume, tap, token, op, applied>>

(* A recording that was never created and one that was; a request.         *)
NoRecording == [state |-> "none", kind |-> CHOOSE k \in Kinds : TRUE, token |-> 0,
                taken |-> 0, steps |-> {}, gone |-> {}, hidden |-> {}]
Started(t, k) == [NoRecording EXCEPT !.state = "active", !.kind = k, !.token = t]
Idle == [step |-> "idle", rec |-> NoRec, waits |-> NoRec,
         kind |-> CHOOSE k \in Kinds : TRUE]

Init ==
    /\ rec = [i \in Recs |-> NoRecording]
    /\ sessions = <<>> /\ active = NoRec
    /\ task = [i \in Recs |-> "none"] /\ consume = NoRec
    /\ tap = [i \in Recs |-> FALSE]
    /\ token = <<>>
    /\ op = [o \in Ops |-> Idle]
    /\ applied = [i \in Recs |-> {}]

Registered == {sessions[j] : j \in 1..Len(sessions)}
Active(i) == rec[i].state = "active"

(***************************************************************************)
(* The interpretation route.                                               *)
(***************************************************************************)

(* The route a machine takes when `asked` for one: `text` says whether the *)
(* channels of the request are structured or OCR is installed, at the time.*)
(* The daemon lists no local models (daemon.py:1018), so "local_vlm" can be*)
(* asked for and is never taken.                                           *)
Route(asked, text) ==
    IF asked # "screenshots_to_cloud" /\ text
    THEN "extract_then_cloud" ELSE "screenshots_to_cloud"

(* Faulty variant: a route is used whatever was approved.                  *)
AnyRoute(asked, text) == TRUE

(* START goes on only along the route that was approved.                   *)
KeepsRoute(asked, text) == Route(asked, text) = asked

(***************************************************************************)
(* Consent.                                                                *)
(***************************************************************************)

(* The dialog names the mode and the route this machine takes; it waits in *)
(* a thread, and the answer to a request that was cancelled reaches nobody.*)
Ask(o) ==
    /\ op[o] = Idle
    /\ \E m \in Modes, r \in Routes, text \in BOOLEAN :
           op' = [op EXCEPT ![o] = [Idle EXCEPT !.step = "prompt", !.kind = [mode |-> m, route |-> Route(r, text)]]]
    /\ UNCHANGED <<rec, sessions, active, task, consume, tap, token, applied>>

Decline(o) ==
    /\ op[o].step = "prompt"
    /\ op' = [op EXCEPT ![o] = Idle]
    /\ UNCHANGED <<rec, sessions, active, task, consume, tap, token, applied>>

Approve(o) ==
    /\ op[o].step = "prompt" /\ Len(token) < MaxTokens
    /\ token' = Append(token, [kind |-> op[o].kind, state |-> "valid"])
    /\ op' = [op EXCEPT ![o] = Idle]
    /\ UNCHANGED <<rec, sessions, active, task, consume, tap, applied>>

Expire(t) ==
    /\ t \in DOMAIN token /\ token[t].state = "valid"
    /\ token' = [token EXCEPT ![t].state = "expired"]
    /\ UNCHANGED <<rec, sessions, active, task, consume, tap, op, applied>>

(* A token opens one recording of the kind it was issued for.              *)
Valid(t, k) == t \in DOMAIN token /\ token[t] = [kind |-> k, state |-> "valid"]

(***************************************************************************)
(* START.                                                                  *)
(***************************************************************************)

(* Faulty variant: the newest recording goes.                              *)
PruneNewest(ss, act) == IF Len(ss) > RetentionLimit THEN SubSeq(ss, 1, RetentionLimit) ELSE ss

(* _prune_recordings: the oldest goes when there are more than             *)
(* RetentionLimit; one START registers one, so one at most goes.           *)
Prune(ss, act) ==
    CASE Len(ss) <= RetentionLimit -> ss
      [] Len(ss) > RetentionLimit /\ Head(ss) = act -> Append(Tail(ss), act)
      [] OTHER -> Tail(ss)

(* What every START has passed before it spends its token: no recording is *)
(* active, the machine can take the route, the token is good for both.     *)
MayStart(o, t, k, text) ==
    /\ op[o] = Idle /\ active = NoRec
    /\ KeepsRoute(k.route, text) /\ Valid(t, k)

Spent(t) == [token EXCEPT ![t].state = "used"]
IsNew(i) == rec[i].state = "none" /\ \A j \in 1..(i - 1) : rec[j].state # "none"

TapOn(i) == tap' = [tap EXCEPT ![i] = TRUE]

(* The recording is made, its tap put into the system, and the recording   *)
(* registered as the active one; its audit record is then written.         *)
Start(o, i, t, k, text) ==
    /\ MayStart(o, t, k, text) /\ IsNew(i)
    /\ token' = Spent(t)
    /\ rec' = [rec EXCEPT ![i] = Started(t, [k EXCEPT !.route = Route(k.route, text)])]
    /\ TapOn(i)
    /\ active' = i
    /\ sessions' = Prune(Append(sessions, i), i)
    /\ op' = [op EXCEPT ![o] = [Idle EXCEPT !.step = "audit", !.rec = i]]
    /\ UNCHANGED <<task, consume, applied>>

(* No key for the buffer, or no tap: the token is spent all the same.      *)
StartWithoutTap(o, t, k, text) ==
    /\ MayStart(o, t, k, text)
    /\ token' = Spent(t)
    /\ UNCHANGED <<rec, sessions, active, task, consume, tap, op, applied>>

(* The tap is on and the buffer's directory cannot be made.                *)
StartWithoutBuffer(o, i, t, k, text) ==
    /\ MayStart(o, t, k, text) /\ IsNew(i)
    /\ token' = Spent(t)
    /\ rec' = [rec EXCEPT ![i].state = "failed"]
    /\ TapOn(i)
    /\ UNCHANGED <<sessions, active, task, consume, op, applied>>

(* The start is audited, or could not be: the draining task is created     *)
(* whatever has become of the recording since.                             *)
Audited(o) ==
    /\ op[o].step = "audit"
    /\ task' = [task EXCEPT ![op[o].rec] = "running"]
    /\ consume' = op[o].rec
    /\ op' = [op EXCEPT ![o] = Idle]
    /\ UNCHANGED <<rec, sessions, active, tap, token, applied>>

(***************************************************************************)
(* Capture.                                                                *)
(***************************************************************************)

Buffered(i) == [rec[i] EXCEPT !.taken = @ + 1, !.steps = @ \cup {rec[i].taken + 1}]

(* A step is buffered; a recording that has stopped takes none, which ends *)
(* the task that offered it.                                               *)
Capture(i) ==
    /\ task[i] = "running"
    /\ \/ Active(i) /\ rec[i].taken < MaxSteps
          /\ rec' = [rec EXCEPT ![i] = Buffered(i)] /\ UNCHANGED task
       \/ ~Active(i)
          /\ task' = [task EXCEPT ![i] = "ended"] /\ UNCHANGED rec
    /\ UNCHANGED <<sessions, active, consume, tap, token, op, applied>>

(* The source is exhausted, or has dropped events and fails the recording. *)
SourceEnds(i) ==
    /\ task[i] = "running"
    /\ task' = [task EXCEPT ![i] = "ended"]
    /\ UNCHANGED <<rec, sessions, active, consume, tap, token, op, applied>>

Cancelled(i) ==
    /\ task[i] = "cancelled"
    /\ task' = [task EXCEPT ![i] = "ended"]
    /\ UNCHANGED <<rec, sessions, active, consume, tap, token, op, applied>>

(* The source of an ended task takes its tap out of the system.            *)
TearDown(i) ==
    /\ task[i] = "ended" /\ tap[i]
    /\ tap' = [tap EXCEPT ![i] = FALSE]
    /\ UNCHANGED <<rec, sessions, active, task, consume, token, op, applied>>

(***************************************************************************)
(* STOP.                                                                   *)
(***************************************************************************)

(* What STOP does last; the slot is cleared whoever has it.                *)
Finalized(o, i) ==
    /\ rec' = [rec EXCEPT ![i].state = "stopped"]
    /\ active' = NoRec
    /\ op' = [op EXCEPT ![o] = Idle]

MayStop(o, i) ==
    op[o] = Idle /\ i \in Registered /\ active = i /\ Active(i)

(* Nothing drains the source: the recording is finalized at once.          *)
StopAtOnce(o, i) ==
    /\ MayStop(o, i) /\ consume = NoRec
    /\ Finalized(o, i)
    /\ UNCHANGED <<sessions, task, consume, tap, token, applied>>

Stop(o, i) ==
    /\ MayStop(o, i) /\ consume # NoRec
    /\ op' = [op EXCEPT ![o] = [Idle EXCEPT !.step = "drain", !.rec = i]]
    /\ UNCHANGED <<rec, sessions, active, task, consume, tap, token, applied>>

(* Every turn looks at the task there is now: another STOP may have taken  *)
(* it away, which fails this one.                                          *)
DrainFails(o) ==
    /\ op[o].step = "drain" /\ consume = NoRec
    /\ op' = [op EXCEPT ![o] = Idle]
    /\ UNCHANGED <<rec, sessions, active, task, consume, tap, token, applied>>

(* The source still runs after the last turn: its task is cancelled.       *)
CancelSource(o) ==
    /\ op[o].step = "drain" /\ consume # NoRec /\ task[consume] \in {"running", "cancelled"}
    /\ task' = [task EXCEPT ![consume] = "cancelled"]
    /\ op' = [op EXCEPT ![o].step = "await", ![o].waits = consume]
    /\ UNCHANGED <<rec, sessions, active, consume, tap, token, applied>>

SourceDone(o) ==
    \/ op[o].step = "drain" /\ consume # NoRec /\ task[consume] = "ended"
    \/ op[o].step = "await" /\ task[op[o].waits] = "ended"

Stopped(o) ==
    /\ SourceDone(o)
    /\ Finalized(o, op[o].rec)
    /\ consume' = NoRec
    /\ UNCHANGED <<sessions, task, tap, token, applied>>

(* A cancelled request leaves what it has done so far; one that awaits the *)
(* ending task takes its own cancellation for the task's, and goes on.     *)
Cancel(o) ==
    /\ op[o].step \in {"prompt", "audit", "drain"}
    /\ op' = [op EXCEPT ![o] = Idle]
    /\ UNCHANGED <<rec, sessions, active, task, consume, tap, token, applied>>

(***************************************************************************)
(* Reviews.                                                                *)
(***************************************************************************)

(* Faulty variant: what earlier reviews removed is not remembered.         *)
OnlyPresent(i) == rec[i].steps

(* The steps a review may name.                                            *)
Known(i) == rec[i].steps \cup rec[i].gone

(* A review is accepted for a finalized recording the handler still has.   *)
Accepts(i, removed, redacted) ==
    /\ i \in Registered /\ rec[i].state = "stopped"
    /\ removed \cup redacted \subseteq Known(i)

Reviewed(i, removed, redacted) ==
    LET gone == removed \cap rec[i].steps
    IN  [rec[i] EXCEPT !.steps = @ \ gone, !.gone = @ \cup gone,
                       !.hidden = @ \cup (redacted \cap (rec[i].steps \ gone))]

Review(i, removed, redacted) ==
    /\ Accepts(i, removed, redacted)
    /\ rec' = [rec EXCEPT ![i] = Reviewed(i, removed, redacted)]
    /\ applied' = [applied EXCEPT ![i] = @ \cup {<<removed, redacted>>}]
    /\ Cardinality(applied'[i]) <= MaxReviews
    /\ UNCHANGED <<sessions, active, task, consume, tap, token, op>>

(***************************************************************************)
(* The specification.                                                      *)
(***************************************************************************)

Next ==
    \/ \E o \in Ops : Ask(o) \/ Decline(o) \/ Approve(o) \/ Audited(o) \/ DrainFails(o)
                      \/ CancelSource(o) \/ Stopped(o) \/ Cancel(o)
    \/ \E o \in Ops, t \in Tokens, m \in Modes, r \in Routes, text \in BOOLEAN :
          LET k == [mode |-> m, route |-> r] IN
          \/ StartWithoutTap(o, t, k, text)
          \/ \E i \in Recs : Start(o, i, t, k, text) \/ StartWithoutBuffer(o, i, t, k, text)
    \/ \E t \in Tokens : Expire(t)
    \/ \E i \in Recs : Capture(i) \/ SourceEnds(i) \/ Cancelled(i) \/ TearDown(i)
    \/ \E o \in Ops, i \in Recs : StopAtOnce(o, i) \/ Stop(o, i)
    \/ \E i \in Recs : \E removed, redacted \in SUBSET Seqs : Review(i, removed, redacted)

Spec == Init /\ [][Next]_vars

(* Audit writes and the event loop's turns end, a cancelled task ends and  *)
(* an ended one leaves its source.                                         *)
LiveSpec ==
    /\ Spec
    /\ \A o \in Ops : WF_vars(Audited(o) \/ DrainFails(o) \/ CancelSource(o) \/ Stopped(o))
    /\ \A i \in Recs : WF_vars(Cancelled(i)) /\ WF_vars(TearDown(i))

(***************************************************************************)
(* Properties.                                                             *)
(***************************************************************************)

(* The recording that keeps every other START away can be stopped: it is   *)
(* one the handler still has and that still runs, whatever became of the   *)
(* request that started it.                                                *)
ActiveCanBeStopped == active # NoRec => active \in Registered /\ Active(active)

(* Every recording was started with an approval of its own, given for the  *)
(* very mode and route it records with.                                    *)
ConsentPerRecording ==
    \A i \in Recs : rec[i].state \in {"active", "stopped"} =>
        /\ rec[i].token \in DOMAIN token
        /\ token[rec[i].token] = [kind |-> rec[i].kind, state |-> "used"]
        /\ \A j \in Recs : rec[j].token = rec[i].token => j = i

(* A review that was acknowledged stands, whatever came after it: what it  *)
(* removed is gone, what it hid is gone or hidden, and sent again it is    *)
(* accepted again for as long as the handler has the recording.  (Once     *)
(* another recording has pruned it, every review is answered               *)
(* RECORDING_NOT_FOUND.)                                                   *)
ReviewsStand ==
    \A i \in Recs : \A r \in applied[i] :
        /\ r[1] \cap rec[i].steps = {}
        /\ r[2] \cap rec[i].steps \subseteq rec[i].hidden
        /\ i \in Registered => Accepts(i, r[1], r[2])

(* Once a recording is stopped its tap is taken out of the system: "tears  *)
(* the tap down on STOP" (docs/WORKFLOW_RECORDING.md:428).                 *)
StopTearsDownTheTap ==
    \A i \in Recs : (rec[i].state = "stopped") ~> ~tap[i]

==============================================================================
