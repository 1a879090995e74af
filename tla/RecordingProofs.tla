--------------------------- MODULE RecordingProofs ---------------------------
(***************************************************************************)
(* Proofs about Recording, for every number of requests, recordings,       *)
(* approvals, steps and reviews, and for every retention limit.            *)
(***************************************************************************)
EXTENDS Recording, SequenceTheorems, TLAPS

-----------------------------------------------------------------------------
(* The inductive invariant *)

(* What an unused record holds when there are no modes at all. *)
AnyKind == CHOOSE k \in Kinds : TRUE
Kind == Kinds \cup {AnyKind}

Session == [state : {"none", "active", "stopped", "failed"}, kind : Kind,
            token : Nat, taken : Nat,
            steps : SUBSET Nat, gone : SUBSET Nat, hidden : SUBSET Nat]
Token == [kind : Kind, state : {"valid", "used", "expired"}]
Request == [step : {"idle", "prompt", "audit", "drain", "await"},
            rec : Recs \cup {NoRec}, waits : Recs \cup {NoRec}, kind : Kind]

Types ==
    /\ rec \in [Recs -> Session]
    /\ sessions \in Seq(Recs)
    /\ active \in Recs \cup {NoRec} /\ consume \in Recs \cup {NoRec}
    /\ task \in [Recs -> {"none", "running", "cancelled", "ended"}]
    /\ tap \in [Recs -> BOOLEAN]
    /\ token \in Seq(Token)
    /\ op \in [Ops -> Request]
    /\ applied \in [Recs -> SUBSET ((SUBSET Nat) \X (SUBSET Nat))]

Existing(i) == i \in Recs /\ rec[i].state \in {"active", "stopped"}

(* A request that starts or stops a recording works on one that exists:    *)
(* whatever it finalizes was once approved.                                *)
WorksOnExisting ==
    \A o \in Ops : op[o].step \in {"audit", "drain", "await"} => Existing(op[o].rec)

(* A recording that never came to be has spent no approval.                *)
NoneHasNoToken ==
    \A i \in Recs : rec[i].state \in {"none", "failed"} => rec[i].token = 0

(* The reviews a recording was sent, whether the handler still has it.     *)
ReviewsHold ==
    \A i \in Recs : \A r \in applied[i] :
        /\ r[1] \cap rec[i].steps = {}
        /\ r[2] \cap rec[i].steps \subseteq rec[i].hidden
        /\ rec[i].state = "stopped" /\ r[1] \cup r[2] \subseteq Known(i)

IInv ==
    /\ Types
    /\ WorksOnExisting
    /\ NoneHasNoToken
    /\ ConsentPerRecording
    /\ ActiveCanBeStopped
    /\ ReviewsHold

-----------------------------------------------------------------------------
(* Lemmas *)

(* The records every recording and every request begin with. *)
LEMMA EmptyTypes ==
  /\ NoRecording \in Session /\ NoRecording.state = "none" /\ NoRecording.token = 0
  /\ NoRecording.steps = {} /\ NoRecording.gone = {} /\ NoRecording.hidden = {}
  /\ Idle \in Request /\ Idle.step = "idle" /\ Idle.rec = NoRec
  BY DEF NoRecording, Session, Idle, Request, Kind, AnyKind, NoRec

(* A route a machine takes is one of the three. *)
LEMMA RouteType ==
  ASSUME NEW asked \in {"local_vlm", "extract_then_cloud", "screenshots_to_cloud"},
         NEW text
  PROVE  Route(asked, text) \in {"local_vlm", "extract_then_cloud", "screenshots_to_cloud"}
  BY DEF Route

(* Pruning keeps the recording that is active: it moves or stays, and what *)
(* goes is older (_prune_recordings).                                      *)
LEMMA PruneKeepsActive ==
  ASSUME NEW ss \in Seq(Recs), NEW i \in Recs
  PROVE  LET new == Prune(Append(ss, i), i) IN
         /\ new \in Seq(Recs)
         /\ \E j \in 1..Len(new) : new[j] = i
  <1> DEFINE long == Append(ss, i)
  <1>1. /\ long \in Seq(Recs) /\ Len(long) = Len(ss) + 1 /\ Len(ss) \in Nat
        /\ long[Len(long)] = i /\ long # <<>>
    BY AppendProperties, LenProperties
  <1>2. CASE Len(long) <= RetentionLimit
    BY <1>1, <1>2 DEF Prune
  <1>3. CASE Len(long) > RetentionLimit /\ Head(long) = i
    <2>1. Tail(long) \in Seq(Recs)
      BY <1>1, HeadTailProperties
    <2> DEFINE moved == Append(Tail(long), i)
    <2>2. moved \in Seq(Recs) /\ moved[Len(moved)] = i /\ Len(moved) \in Nat \ {0}
      BY <2>1, AppendProperties, LenProperties
    <2>3. Prune(long, i) = moved
      BY <1>1, <1>3, RecordingAssumption DEF Prune
    <2> HIDE DEF moved
    <2>4. Len(moved) \in 1..Len(moved)
      BY <2>2
    <2> QED
      BY <2>2, <2>3, <2>4
  <1>4. CASE Len(long) > RetentionLimit /\ Head(long) # i
    <2>1. /\ Tail(long) \in Seq(Recs) /\ Len(Tail(long)) = Len(long) - 1
          /\ \A j \in 1..Len(Tail(long)) : Tail(long)[j] = long[j + 1]
      BY <1>1, HeadTailProperties
    <2>2. Prune(long, i) = Tail(long)
      BY <1>1, <1>4, RecordingAssumption DEF Prune
    <2>3. Len(ss) \in 1..Len(Tail(long)) /\ Tail(long)[Len(ss)] = i
      BY <1>1, <1>4, <2>1, RecordingAssumption
    <2> QED
      BY <2>1, <2>2, <2>3
  <1> QED
    BY <1>1, <1>2, <1>3, <1>4, RecordingAssumption

-----------------------------------------------------------------------------
(* The parts of IInv, one lemma for each kind of step *)

LEMMA InitInv == Init => IInv
  <1> SUFFICES ASSUME Init PROVE IInv
    OBVIOUS
  <1>1. Types
    BY EmptyTypes DEF Init, Types, Token
  <1>2. WorksOnExisting /\ NoneHasNoToken /\ ConsentPerRecording /\ ActiveCanBeStopped
    BY EmptyTypes DEF Init, WorksOnExisting, NoneHasNoToken, ConsentPerRecording,
                      ActiveCanBeStopped
  <1>3. ReviewsHold
    BY DEF Init, ReviewsHold
  <1> QED
    BY <1>1, <1>2, <1>3 DEF IInv

(* A step that leaves recordings, approvals and reviews alone, and starts  *)
(* no work on a recording that does not exist, keeps the invariant.        *)
LEMMA QuietKeeps ==
  ASSUME IInv, Types',
         UNCHANGED <<rec, sessions, active, token, applied>>,
         \A o \in Ops : op'[o].step \in {"audit", "drain", "await"} => Existing(op'[o].rec)
  PROVE  IInv'
  <1>1. WorksOnExisting' /\ NoneHasNoToken'
    BY DEF IInv, WorksOnExisting, NoneHasNoToken, Existing
  <1>2. ConsentPerRecording'
    BY DEF IInv, ConsentPerRecording
  <1>3. ActiveCanBeStopped'
    BY DEF IInv, ActiveCanBeStopped, Registered, Active
  <1>4. ReviewsHold'
    BY DEF IInv, ReviewsHold, Known
  <1> QED
    BY <1>1, <1>2, <1>3, <1>4 DEF IInv

(* The steps of requests and tasks that change neither recordings nor      *)
(* approvals.                                                              *)
LEMMA QuietSteps ==
  ASSUME IInv,
         \/ \E o \in Ops : Ask(o) \/ Decline(o) \/ Audited(o) \/ DrainFails(o)
                           \/ CancelSource(o) \/ Cancel(o)
         \/ \E i \in Recs : SourceEnds(i) \/ Cancelled(i) \/ TearDown(i)
         \/ \E o \in Ops, i \in Recs : Stop(o, i)
         \/ UNCHANGED vars
  PROVE  IInv'
  <1>1. CASE UNCHANGED vars
    <2>1. Types'
      BY <1>1 DEF IInv, Types, vars
    <2> QED
      BY <1>1, <2>1, QuietKeeps DEF vars, IInv, WorksOnExisting
  <1>2. ASSUME NEW o \in Ops, Ask(o) PROVE IInv'
    <2>1. PICK m \in Modes, r \in Routes, text \in BOOLEAN :
            op' = [op EXCEPT ![o] = [Idle EXCEPT !.step = "prompt",
                                       !.kind = [mode |-> m, route |-> Route(r, text)]]]
      BY <1>2 DEF Ask
    <2>2. [mode |-> m, route |-> Route(r, text)] \in Kind
      BY RouteType, RecordingAssumption DEF Kind, Kinds
    <2>3. [Idle EXCEPT !.step = "prompt", !.kind = [mode |-> m, route |-> Route(r, text)]]
            \in Request
      BY <2>2, EmptyTypes DEF Request
    <2>4. Types'
      BY <1>2, <2>1, <2>3 DEF IInv, Types, Ask
    <2> QED
      BY <1>2, <2>1, <2>4, EmptyTypes, QuietKeeps DEF Ask, IInv, Types, WorksOnExisting, Request
  <1>3. ASSUME NEW o \in Ops, Decline(o) \/ DrainFails(o) \/ Cancel(o) PROVE IInv'
    <2>1. Types'
      BY <1>3, EmptyTypes DEF IInv, Types, Decline, DrainFails, Cancel
    <2> QED
      BY <1>3, <2>1, EmptyTypes, QuietKeeps
         DEF Decline, DrainFails, Cancel, IInv, Types, WorksOnExisting
  <1>4. ASSUME NEW o \in Ops, Audited(o) PROVE IInv'
    <2>1. op[o].rec \in Recs
      BY <1>4 DEF Audited, IInv, WorksOnExisting, Existing
    <2>2. Types'
      BY <1>4, <2>1, EmptyTypes DEF IInv, Types, Audited
    <2> QED
      BY <1>4, <2>2, EmptyTypes, QuietKeeps DEF Audited, IInv, Types, WorksOnExisting
  <1>5. ASSUME NEW o \in Ops, CancelSource(o) PROVE IInv'
    <2>1. op[o] \in Request /\ consume \in Recs \cup {NoRec}
      BY DEF IInv, Types
    <2>2. ASSUME NEW q \in Request
          PROVE  LET new == [q EXCEPT !.step = "await", !.waits = consume] IN
                 new \in Request /\ new.rec = q.rec
      BY <2>1 DEF Request
    <2>3. /\ op' = [op EXCEPT ![o] = op'[o]]
          /\ op'[o] \in Request /\ op'[o].rec = op[o].rec
      BY <1>5, <2>1, <2>2 DEF CancelSource, IInv, Types
    <2>4. Types'
      BY <1>5, <2>3 DEF IInv, Types, CancelSource
    <2> QED
      BY <1>5, <2>3, <2>4, QuietKeeps DEF CancelSource, IInv, Types, WorksOnExisting
  <1>6. ASSUME NEW i \in Recs, SourceEnds(i) \/ Cancelled(i) \/ TearDown(i) PROVE IInv'
    <2>1. Types'
      BY <1>6 DEF IInv, Types, SourceEnds, Cancelled, TearDown
    <2> QED
      BY <1>6, <2>1, QuietKeeps
         DEF SourceEnds, Cancelled, TearDown, IInv, WorksOnExisting
  <1>7. ASSUME NEW o \in Ops, NEW i \in Recs, Stop(o, i) PROVE IInv'
    <2>1. [Idle EXCEPT !.step = "drain", !.rec = i] \in Request
      BY EmptyTypes DEF Request
    <2>2. Types'
      BY <1>7, <2>1 DEF IInv, Types, Stop
    <2>3. Existing(i)
      BY <1>7 DEF Stop, MayStop, Active, Existing
    <2> QED
      BY <1>7, <2>1, <2>2, <2>3, EmptyTypes, QuietKeeps
         DEF Stop, IInv, Types, WorksOnExisting, Request
  <1> QED
    BY <1>1, <1>2, <1>3, <1>4, <1>5, <1>6, <1>7

(* An approval in a dialog opens one more recording, of its own kind; no   *)
(* recording has spent it yet.                                             *)
LEMMA ApproveKeeps == ASSUME IInv, NEW o \in Ops, Approve(o) PROVE IInv'
  <1> DEFINE new == [kind |-> op[o].kind, state |-> "valid"]
  <1>1. new \in Token /\ token \in Seq(Token) /\ token' = Append(token, new)
    BY DEF IInv, Types, Approve, Request, Token
  <1>2. /\ token' \in Seq(Token) /\ DOMAIN token \subseteq DOMAIN token'
        /\ \A t \in DOMAIN token : token'[t] = token[t]
    BY <1>1, AppendProperties
  <1>3. Types'
    BY <1>2, EmptyTypes DEF IInv, Types, Approve
  <1>4. WorksOnExisting' /\ NoneHasNoToken'
    BY EmptyTypes DEF IInv, Types, Approve, WorksOnExisting, NoneHasNoToken, Existing
  <1>5. ConsentPerRecording'
    BY <1>2 DEF IInv, Approve, ConsentPerRecording
  <1>6. ActiveCanBeStopped' /\ ReviewsHold'
    BY DEF IInv, Approve, ActiveCanBeStopped, Registered, Active, ReviewsHold, Known
  <1> QED
    BY <1>3, <1>4, <1>5, <1>6 DEF IInv

(* A token that is spent or has expired was valid, hence of no recording.  *)
LEMMA TokenUse ==
  ASSUME IInv, NEW t \in DOMAIN token, token[t].state = "valid",
         NEW st \in {"used", "expired"}
  PROVE  LET new == [token EXCEPT ![t].state = st] IN
         /\ new \in Seq(Token) /\ DOMAIN new = DOMAIN token
         /\ new[t] = [kind |-> token[t].kind, state |-> st]
         /\ \A i \in Recs : Existing(i) =>
               rec[i].token # t /\ new[rec[i].token] = token[rec[i].token]
  <1> DEFINE new == [token EXCEPT ![t].state = st]
  <1>1. token \in Seq(Token) /\ token[t] \in Token
    BY DEF IInv, Types
  <1>2. [token[t] EXCEPT !.state = st] = [kind |-> token[t].kind, state |-> st]
        /\ [kind |-> token[t].kind, state |-> st] \in Token
    BY <1>1 DEF Token
  <1>3. new \in Seq(Token) /\ DOMAIN new = DOMAIN token
        /\ \A s \in DOMAIN token : s # t => new[s] = token[s]
    <2>1. t \in 1..Len(token) /\ new = [token EXCEPT ![t] = [kind |-> token[t].kind, state |-> st]]
      BY <1>1, <1>2, LenProperties
    <2> DEFINE e == [kind |-> token[t].kind, state |-> st]
               upd == [token EXCEPT ![t] = e]
    <2>2. e \in Token
      BY <1>2
    <2>3. /\ upd \in Seq(Token) /\ Len(upd) = Len(token)
          /\ \A j \in 1..Len(token) : upd[j] = IF j = t THEN e ELSE token[j]
      <3> HIDE DEF e
      <3> QED
        BY <1>1, <2>1, <2>2, ExceptSeq
    <2>4. DOMAIN upd = DOMAIN token /\ DOMAIN token = 1..Len(token)
      BY <1>1, <2>3, LenProperties
    <2>5. new = upd
      BY <2>1
    <2> HIDE DEF new, upd
    <2> QED
      BY <2>3, <2>4, <2>5
  <1>4. ASSUME NEW i \in Recs, Existing(i)
        PROVE  rec[i].token # t
    <2>1. token[rec[i].token] = [kind |-> rec[i].kind, state |-> "used"]
      BY <1>4 DEF IInv, ConsentPerRecording, Existing
    <2>2. token[rec[i].token].state = "used"
      BY <2>1
    <2> QED
      BY <2>2
  <1>5. ASSUME NEW i \in Recs, Existing(i) PROVE rec[i].token \in DOMAIN token
    BY <1>5 DEF IInv, ConsentPerRecording, Existing
  <1> QED
    BY <1>1, <1>2, <1>3, <1>4, <1>5

LEMMA ExpireKeeps == ASSUME IInv, NEW t \in Tokens, Expire(t) PROVE IInv'
  <1>1. /\ t \in DOMAIN token /\ token[t].state = "valid"
        /\ token' = [token EXCEPT ![t].state = "expired"]
        /\ UNCHANGED <<rec, sessions, active, task, consume, tap, op, applied>>
    BY DEF Expire
  <1>2. /\ token' \in Seq(Token) /\ DOMAIN token' = DOMAIN token
        /\ \A i \in Recs : Existing(i) => token'[rec[i].token] = token[rec[i].token]
    BY <1>1, TokenUse
  <1>3. Types'
    BY <1>1, <1>2 DEF IInv, Types
  <1>4. WorksOnExisting' /\ NoneHasNoToken' /\ ActiveCanBeStopped' /\ ReviewsHold'
    BY <1>1 DEF IInv, WorksOnExisting, NoneHasNoToken, Existing, ActiveCanBeStopped,
                Registered, Active, ReviewsHold, Known
  <1>5. ConsentPerRecording'
    BY <1>1, <1>2 DEF IInv, ConsentPerRecording, Existing
  <1> QED
    BY <1>3, <1>4, <1>5 DEF IInv

(* What a START with a token finds: the token is valid and of the kind it  *)
(* asks for, which is the kind it records with, and no recording is active.*)
Asked == [mode : Modes, route : Routes]

LEMMA MayStartFacts ==
  ASSUME IInv, NEW o \in Ops, NEW t \in Tokens, NEW k \in Asked,
         NEW text, MayStart(o, t, k, text)
  PROVE  /\ active = NoRec /\ k \in Kind /\ KeepsRoute(k.route, text)
         /\ t \in DOMAIN token /\ token[t] = [kind |-> k, state |-> "valid"]
         /\ token[t].state = "valid" /\ token[t].kind = k
  <1>1. k \in Kind
    BY RecordingAssumption DEF Asked, Kind, Kinds
  <1>2. /\ active = NoRec /\ KeepsRoute(k.route, text)
        /\ t \in DOMAIN token /\ token[t] = [kind |-> k, state |-> "valid"]
    BY DEF MayStart, Valid
  <1>3. token[t].state = "valid" /\ token[t].kind = k
    BY <1>2
  <1> QED
    BY <1>1, <1>2, <1>3

(* A token spent without a recording, when nothing is recording: at most   *)
(* one that never came to be has failed.                                   *)
LEMMA SpentForNothingKeeps ==
  ASSUME IInv, NEW t \in DOMAIN token, token[t].state = "valid", active = NoRec,
         token' = Spent(t),
         rec' \in [Recs -> Session], tap' \in [Recs -> BOOLEAN],
         \A j \in Recs : \/ rec'[j] = rec[j]
                         \/ /\ rec[j].state = "none" /\ rec'[j].state = "failed"
                            /\ rec'[j].token = rec[j].token,
         UNCHANGED <<sessions, active, task, consume, op, applied>>
  PROVE  IInv'
  <1>1. /\ token' \in Seq(Token) /\ DOMAIN token' = DOMAIN token
        /\ \A j \in Recs : Existing(j) => token'[rec[j].token] = token[rec[j].token]
    BY TokenUse DEF Spent
  <1>2. Types'
    BY <1>1 DEF IInv, Types
  <1>3. WorksOnExisting' /\ NoneHasNoToken'
    BY DEF IInv, WorksOnExisting, NoneHasNoToken, Existing
  <1>4. ActiveCanBeStopped'
    BY DEF ActiveCanBeStopped
  <1>5. ConsentPerRecording'
    <2>1. \A j \in Recs : rec'[j].token = rec[j].token
      OBVIOUS
    <2>2. \A j \in Recs : rec'[j].state \in {"active", "stopped"} =>
             Existing(j) /\ rec'[j] = rec[j]
      BY DEF Existing
    <2> SUFFICES ASSUME NEW j \in Recs, rec'[j].state \in {"active", "stopped"}
                 PROVE  /\ rec'[j].token \in DOMAIN token'
                        /\ token'[rec'[j].token] = [kind |-> rec'[j].kind, state |-> "used"]
                        /\ \A l \in Recs : rec'[l].token = rec'[j].token => l = j
      BY DEF ConsentPerRecording
    <2>3. /\ rec[j].token \in DOMAIN token
          /\ token[rec[j].token] = [kind |-> rec[j].kind, state |-> "used"]
          /\ \A l \in Recs : rec[l].token = rec[j].token => l = j
      BY <2>2 DEF IInv, ConsentPerRecording, Existing
    <2> QED
      BY <1>1, <2>1, <2>2, <2>3
  <1>6. ASSUME NEW j \in Recs, rec[j].state = "none" PROVE applied[j] = {}
    BY <1>6 DEF IInv, ReviewsHold
  <1>7. ReviewsHold'
    <2> SUFFICES ASSUME NEW j \in Recs, NEW r \in applied[j]
                 PROVE  /\ r[1] \cap rec'[j].steps = {}
                        /\ r[2] \cap rec'[j].steps \subseteq rec'[j].hidden
                        /\ rec'[j].state = "stopped"
                        /\ r[1] \cup r[2] \subseteq rec'[j].steps \cup rec'[j].gone
      BY DEF ReviewsHold, Known
    <2>1. rec'[j] = rec[j]
      BY <1>6
    <2> QED
      BY <2>1 DEF IInv, ReviewsHold, Known
  <1> QED
    BY <1>2, <1>3, <1>4, <1>5, <1>7 DEF IInv

LEMMA StartFailsKeeps ==
  ASSUME IInv, NEW o \in Ops, NEW t \in Tokens, NEW k \in Asked, NEW text,
         \/ StartWithoutTap(o, t, k, text)
         \/ \E i \in Recs : StartWithoutBuffer(o, i, t, k, text)
  PROVE  IInv'
  <1>1. MayStart(o, t, k, text) /\ token' = Spent(t)
        /\ UNCHANGED <<sessions, active, task, consume, op, applied>>
    BY DEF StartWithoutTap, StartWithoutBuffer
  <1>2. active = NoRec /\ t \in DOMAIN token /\ token[t].state = "valid"
    BY <1>1, MayStartFacts
  <1>3. CASE StartWithoutTap(o, t, k, text)
    <2>1. rec' = rec /\ rec' \in [Recs -> Session] /\ tap' \in [Recs -> BOOLEAN]
      BY <1>3 DEF StartWithoutTap, IInv, Types
    <2> QED
      BY <1>1, <1>2, <2>1, SpentForNothingKeeps
  <1>4. ASSUME NEW i \in Recs, StartWithoutBuffer(o, i, t, k, text) PROVE IInv'
    <2>1. /\ rec[i].state = "none"
          /\ rec' = [rec EXCEPT ![i].state = "failed"]
          /\ tap' = [tap EXCEPT ![i] = TRUE]
      BY <1>4 DEF StartWithoutBuffer, IsNew, TapOn
    <2>2. ASSUME NEW q \in Session
          PROVE  LET new == [q EXCEPT !.state = "failed"] IN
                 new \in Session /\ new.state = "failed" /\ new.token = q.token
      BY DEF Session
    <2>3. /\ rec' \in [Recs -> Session] /\ tap' \in [Recs -> BOOLEAN]
          /\ \A j \in Recs : \/ rec'[j] = rec[j]
                             \/ /\ rec[j].state = "none" /\ rec'[j].state = "failed"
                                /\ rec'[j].token = rec[j].token
      BY <2>1, <2>2 DEF IInv, Types
    <2> QED
      BY <1>1, <1>2, <2>3, SpentForNothingKeeps
  <1> QED
    BY <1>3, <1>4

(* A START spends a valid token on a recording of the token's own kind and *)
(* registers it as the active one.                                         *)
LEMMA StartKeeps ==
  ASSUME IInv, NEW o \in Ops, NEW i \in Recs, NEW t \in Tokens, NEW k \in Asked,
         NEW text, Start(o, i, t, k, text)
  PROVE  IInv'
  <1> DEFINE new == Started(t, [k EXCEPT !.route = Route(k.route, text)])
             work == [Idle EXCEPT !.step = "audit", !.rec = i]
  <1>1. /\ token' = Spent(t) /\ rec' = [rec EXCEPT ![i] = new] /\ active' = i
        /\ tap' = [tap EXCEPT ![i] = TRUE]
        /\ sessions' = Prune(Append(sessions, i), i)
        /\ op' = [op EXCEPT ![o] = work]
        /\ rec[i].state = "none"
        /\ UNCHANGED <<task, consume, applied>>
    BY DEF Start, IsNew, TapOn
  <1>2. /\ active = NoRec /\ k \in Kind /\ KeepsRoute(k.route, text)
        /\ t \in DOMAIN token /\ token[t].state = "valid" /\ token[t].kind = k
    <2>1. MayStart(o, t, k, text)
      BY DEF Start
    <2> QED
      BY <2>1, MayStartFacts
  <1>3. [k EXCEPT !.route = Route(k.route, text)] = k
    BY <1>2 DEF Asked, KeepsRoute
  <1>4. t \in Nat
    BY DEF Tokens
  <1>5. new \in Session /\ new.state = "active" /\ new.kind = k /\ new.token = t
    BY <1>2, <1>3, <1>4, EmptyTypes DEF Started, Session
  <1>6. work \in Request /\ work.rec = i
    BY EmptyTypes DEF Request
  <1> HIDE DEF new, work
  <1>7. /\ token' \in Seq(Token) /\ DOMAIN token' = DOMAIN token
        /\ token'[t] = [kind |-> k, state |-> "used"]
        /\ \A j \in Recs : Existing(j) =>
              rec[j].token # t /\ token'[rec[j].token] = token[rec[j].token]
    BY <1>1, <1>2, TokenUse DEF Spent
  <1>8. /\ sessions' \in Seq(Recs)
        /\ \E j \in 1..Len(sessions') : sessions'[j] = i
    BY <1>1, PruneKeepsActive DEF IInv, Types
  <1>9. Types'
    BY <1>1, <1>5, <1>6, <1>7, <1>8 DEF IInv, Types
  <1>10. rec'[i] = new /\ \A j \in Recs : j # i => rec'[j] = rec[j]
    BY <1>1 DEF IInv, Types
  <1>11. op'[o] = work /\ \A p \in Ops : p # o => op'[p] = op[p]
    BY <1>1 DEF IInv, Types
  <1>12. WorksOnExisting' /\ NoneHasNoToken'
    BY <1>5, <1>6, <1>10, <1>11 DEF IInv, WorksOnExisting, NoneHasNoToken, Existing
  <1>13. ActiveCanBeStopped'
    BY <1>1, <1>5, <1>8, <1>10 DEF ActiveCanBeStopped, Registered, Active
  <1>14. ConsentPerRecording'
    <2> SUFFICES ASSUME NEW j \in Recs, rec'[j].state \in {"active", "stopped"}
                 PROVE  /\ rec'[j].token \in DOMAIN token'
                        /\ token'[rec'[j].token] = [kind |-> rec'[j].kind, state |-> "used"]
                        /\ \A l \in Recs : rec'[l].token = rec'[j].token => l = j
      BY DEF ConsentPerRecording
    <2>1. t # 0
      BY DEF Tokens
    <2>2. \A l \in Recs : rec[l].token # t
      <3>1. \A l \in Recs : ~Existing(l) => rec[l].token = 0
        BY DEF IInv, Types, Session, NoneHasNoToken, Existing
      <3> QED
        BY <1>7, <2>1, <3>1
    <2>3. CASE j = i
      BY <1>2, <1>5, <1>7, <1>10, <2>2, <2>3
    <2>4. CASE j # i
      <3>1. rec'[j] = rec[j] /\ Existing(j)
        BY <1>10, <2>4 DEF Existing
      <3>2. /\ rec[j].token \in DOMAIN token
            /\ token[rec[j].token] = [kind |-> rec[j].kind, state |-> "used"]
            /\ \A l \in Recs : rec[l].token = rec[j].token => l = j
        BY <3>1 DEF IInv, ConsentPerRecording, Existing
      <3> QED
        BY <1>5, <1>7, <1>10, <2>2, <3>1, <3>2
    <2> QED
      BY <2>3, <2>4
  <1>15. ReviewsHold'
    <2>1. applied[i] = {}
      BY <1>1 DEF IInv, ReviewsHold
    <2> QED
      BY <1>1, <1>10, <2>1 DEF IInv, ReviewsHold, Known
  <1> QED
    BY <1>9, <1>12, <1>13, <1>14, <1>15 DEF IInv

(* A step that changes one recording that exists, and neither its approval *)
(* nor that it exists, keeps what is said about requests and approvals.    *)
LEMMA ExistingKeeps ==
  ASSUME IInv, NEW i \in Recs, Existing(i), Existing(i)',
         rec'[i].token = rec[i].token, rec'[i].kind = rec[i].kind,
         \A j \in Recs : j # i => rec'[j] = rec[j],
         UNCHANGED token,
         \A o \in Ops : op'[o] = op[o] \/ op'[o].step = "idle"
  PROVE  WorksOnExisting' /\ NoneHasNoToken' /\ ConsentPerRecording'
  <1>1. WorksOnExisting'
    BY DEF IInv, WorksOnExisting, Existing
  <1>2. NoneHasNoToken'
    BY DEF IInv, NoneHasNoToken, Existing
  <1>3. \A j \in Recs : /\ rec'[j].token = rec[j].token /\ rec'[j].kind = rec[j].kind
                        /\ Existing(j)' => Existing(j)
    BY DEF Existing
  <1>4. ConsentPerRecording'
    BY <1>3 DEF IInv, ConsentPerRecording, Existing
  <1> QED
    BY <1>1, <1>2, <1>4

(* A captured step goes into the recording that is active, which has no    *)
(* reviews yet.                                                            *)
LEMMA CaptureKeeps == ASSUME IInv, NEW i \in Recs, Capture(i) PROVE IInv'
  <1>1. CASE /\ ~Active(i) /\ task' = [task EXCEPT ![i] = "ended"] /\ UNCHANGED rec
             /\ UNCHANGED <<sessions, active, consume, tap, token, op, applied>>
    <2>1. Types'
      BY <1>1 DEF IInv, Types
    <2> QED
      BY <1>1, <2>1, QuietKeeps DEF IInv, WorksOnExisting
  <1>2. CASE /\ Active(i) /\ rec' = [rec EXCEPT ![i] = Buffered(i)] /\ UNCHANGED task
             /\ UNCHANGED <<sessions, active, consume, tap, token, op, applied>>
    <2>1. rec[i] \in Session /\ rec[i].state = "active"
      BY <1>2 DEF IInv, Types, Active
    <2>2. /\ Buffered(i) \in Session /\ Buffered(i).state = "active"
          /\ Buffered(i).token = rec[i].token /\ Buffered(i).kind = rec[i].kind
      <3> DEFINE n == rec[i].taken + 1
                 S == rec[i].steps \cup {rec[i].taken + 1}
      <3>1. n \in Nat /\ S \in SUBSET Nat
        BY <2>1 DEF Session
      <3>2. Buffered(i) = [rec[i] EXCEPT !.taken = n, !.steps = S]
        BY DEF Buffered
      <3> HIDE DEF n, S
      <3>3. Buffered(i) \in Session
        BY <2>1, <3>1, <3>2 DEF Session
      <3>4. /\ Buffered(i).state = rec[i].state
            /\ Buffered(i).token = rec[i].token /\ Buffered(i).kind = rec[i].kind
        BY <2>1, <3>2 DEF Session
      <3> QED
        BY <2>1, <3>3, <3>4
    <2>3. rec'[i] = Buffered(i) /\ \A j \in Recs : j # i => rec'[j] = rec[j]
      BY <1>2 DEF IInv, Types
    <2>4. Types'
      BY <1>2, <2>2 DEF IInv, Types
    <2>5. WorksOnExisting' /\ NoneHasNoToken' /\ ConsentPerRecording'
      BY <1>2, <2>1, <2>2, <2>3, ExistingKeeps DEF Existing
    <2>6. ActiveCanBeStopped'
      BY <1>2, <2>2, <2>3 DEF IInv, Types, ActiveCanBeStopped, Registered, Active, NoRec
    <2>7. applied[i] = {}
      BY <2>1 DEF IInv, ReviewsHold
    <2>8. ReviewsHold'
      BY <1>2, <2>3, <2>7 DEF IInv, ReviewsHold, Known
    <2> QED
      BY <2>4, <2>5, <2>6, <2>8 DEF IInv
  <1> QED
    BY <1>1, <1>2 DEF Capture

(* STOP finalizes a recording that exists and clears the slot. *)
LEMMA FinalizedKeeps ==
  ASSUME IInv, NEW o \in Ops, NEW i \in Recs, Existing(i), Finalized(o, i),
         consume' \in Recs \cup {NoRec},
         UNCHANGED <<sessions, task, tap, token, applied>>
  PROVE  IInv'
  <1> DEFINE new == [rec[i] EXCEPT !.state = "stopped"]
  <1>1. rec[i] \in Session
    BY DEF IInv, Types
  <1>2. /\ new \in Session /\ new.state = "stopped"
        /\ new.token = rec[i].token /\ new.kind = rec[i].kind
        /\ new.steps = rec[i].steps /\ new.gone = rec[i].gone /\ new.hidden = rec[i].hidden
    BY <1>1 DEF Session
  <1>3. rec' = [rec EXCEPT ![i] = new] /\ active' = NoRec /\ op' = [op EXCEPT ![o] = Idle]
    BY <1>1 DEF Finalized, Session
  <1> HIDE DEF new
  <1>4. rec'[i] = new /\ \A j \in Recs : j # i => rec'[j] = rec[j]
    BY <1>3 DEF IInv, Types
  <1>5. Types'
    BY <1>2, <1>3, EmptyTypes DEF IInv, Types
  <1>6. \A p \in Ops : op'[p] = op[p] \/ op'[p].step = "idle"
    BY <1>3, EmptyTypes DEF IInv, Types
  <1>7. WorksOnExisting' /\ NoneHasNoToken' /\ ConsentPerRecording'
    BY <1>2, <1>4, <1>6, ExistingKeeps DEF Existing
  <1>8. ActiveCanBeStopped'
    BY <1>3 DEF ActiveCanBeStopped
  <1>9. ReviewsHold'
    BY <1>2, <1>4 DEF IInv, ReviewsHold, Known
  <1> QED
    BY <1>5, <1>7, <1>8, <1>9 DEF IInv

LEMMA StopKeeps ==
  ASSUME IInv, NEW o \in Ops,
         Stopped(o) \/ \E i \in Recs : StopAtOnce(o, i)
  PROVE  IInv'
  <1>1. ASSUME NEW i \in Recs, StopAtOnce(o, i) PROVE IInv'
    <2>1. Existing(i) /\ Finalized(o, i) /\ consume' \in Recs \cup {NoRec}
          /\ UNCHANGED <<sessions, task, tap, token, applied>>
      BY <1>1 DEF StopAtOnce, MayStop, Active, Existing, IInv, Types
    <2> QED
      BY <2>1, FinalizedKeeps
  <1>2. CASE Stopped(o)
    <2>1. Existing(op[o].rec) /\ Finalized(o, op[o].rec) /\ consume' \in Recs \cup {NoRec}
          /\ UNCHANGED <<sessions, task, tap, token, applied>>
      BY <1>2 DEF Stopped, SourceDone, IInv, WorksOnExisting
    <2> QED
      BY <2>1, FinalizedKeeps DEF Existing
  <1> QED
    BY <1>1, <1>2

(* A review moves steps from present to removed, so that every step it or  *)
(* an earlier one named stays known, and hides only steps that are left.   *)
LEMMA ReviewKeeps ==
  ASSUME IInv, NEW i \in Recs, NEW removed \in SUBSET Seqs, NEW redacted \in SUBSET Seqs,
         Review(i, removed, redacted)
  PROVE  IInv'
  <1> DEFINE gone == removed \cap rec[i].steps
             steps2 == rec[i].steps \ gone
             gone2 == rec[i].gone \cup gone
             hidden2 == rec[i].hidden \cup (redacted \cap steps2)
  <1>1. rec[i] \in Session /\ rec[i].state = "stopped"
        /\ removed \cup redacted \subseteq rec[i].steps \cup rec[i].gone
    BY DEF Review, Accepts, Known, IInv, Types
  <1>2. steps2 \in SUBSET Nat /\ gone2 \in SUBSET Nat /\ hidden2 \in SUBSET Nat
        /\ removed \in SUBSET Nat /\ redacted \in SUBSET Nat
    BY <1>1 DEF Session, Seqs
  <1>3. steps2 \subseteq rec[i].steps /\ rec[i].hidden \subseteq hidden2
        /\ steps2 \cup gone2 = rec[i].steps \cup rec[i].gone
        /\ removed \cap steps2 = {} /\ redacted \cap steps2 \subseteq hidden2
    OBVIOUS
  <1>4. Reviewed(i, removed, redacted) =
           [rec[i] EXCEPT !.steps = steps2, !.gone = gone2, !.hidden = hidden2]
    BY DEF Reviewed
  <1>5. rec' = [rec EXCEPT ![i] = Reviewed(i, removed, redacted)]
        /\ applied' = [applied EXCEPT ![i] = @ \cup {<<removed, redacted>>}]
        /\ UNCHANGED <<sessions, active, task, consume, tap, token, op>>
    BY DEF Review
  <1> HIDE DEF gone, steps2, gone2, hidden2
  <1> DEFINE new == Reviewed(i, removed, redacted)
  <1>6. new \in Session
    BY <1>1, <1>2, <1>4 DEF Session
  <1>7. /\ new.state = "stopped" /\ new.token = rec[i].token /\ new.kind = rec[i].kind
        /\ new.steps = steps2 /\ new.gone = gone2 /\ new.hidden = hidden2
    BY <1>1, <1>4 DEF Session
  <1> HIDE DEF new
  <1>8. rec'[i] = new /\ \A j \in Recs : j # i => rec'[j] = rec[j]
    BY <1>5 DEF IInv, Types, new
  <1>9. /\ applied'[i] = applied[i] \cup {<<removed, redacted>>}
        /\ \A j \in Recs : j # i => applied'[j] = applied[j]
    BY <1>5 DEF IInv, Types
  <1>10. Types'
    <2>1. rec' \in [Recs -> Session]
      BY <1>5, <1>6 DEF IInv, Types, new
    <2>2. applied' \in [Recs -> SUBSET ((SUBSET Nat) \X (SUBSET Nat))]
      <3> DEFINE Pair == (SUBSET Nat) \X (SUBSET Nat)
      <3>1. <<removed, redacted>> \in Pair
        BY <1>2
      <3>2. applied \in [Recs -> SUBSET Pair]
        BY DEF IInv, Types
      <3> HIDE DEF Pair
      <3>3. applied[i] \cup {<<removed, redacted>>} \in SUBSET Pair
        BY <3>1, <3>2
      <3> QED
        BY <1>5, <3>2, <3>3 DEF Pair
    <2> QED
      BY <1>5, <2>1, <2>2 DEF IInv, Types
  <1>11. WorksOnExisting' /\ NoneHasNoToken' /\ ConsentPerRecording'
    BY <1>1, <1>5, <1>7, <1>8, ExistingKeeps DEF Existing
  <1>12. ActiveCanBeStopped'
    BY <1>1, <1>5, <1>8 DEF IInv, ActiveCanBeStopped, Registered, Active
  <1>13. ReviewsHold'
    <2> SUFFICES ASSUME NEW j \in Recs, NEW r \in applied'[j]
                 PROVE  /\ r[1] \cap rec'[j].steps = {}
                        /\ r[2] \cap rec'[j].steps \subseteq rec'[j].hidden
                        /\ rec'[j].state = "stopped"
                        /\ r[1] \cup r[2] \subseteq rec'[j].steps \cup rec'[j].gone
      BY DEF ReviewsHold, Known
    <2>1. r \in applied[j] => /\ r[1] \cap rec[j].steps = {}
                              /\ r[2] \cap rec[j].steps \subseteq rec[j].hidden
                              /\ rec[j].state = "stopped"
                              /\ r[1] \cup r[2] \subseteq rec[j].steps \cup rec[j].gone
      BY DEF IInv, ReviewsHold, Known
    <2>2. CASE j # i
      BY <1>8, <1>9, <2>1, <2>2
    <2>3. CASE j = i /\ r \in applied[i]
      BY <1>3, <1>7, <1>8, <2>1, <2>3
    <2>4. CASE j = i /\ r = <<removed, redacted>>
      <3>1. r[1] = removed /\ r[2] = redacted
        BY <2>4
      <3> QED
        BY <1>1, <1>3, <1>7, <1>8, <2>4, <3>1
    <2> QED
      BY <1>9, <2>2, <2>3, <2>4
  <1> QED
    BY <1>10, <1>11, <1>12, <1>13 DEF IInv

-----------------------------------------------------------------------------
(* The inductive invariant holds *)

LEMMA NextKeeps == ASSUME IInv, [Next]_vars PROVE IInv'
  <1>1. CASE \/ \E o \in Ops : Ask(o) \/ Decline(o) \/ Audited(o) \/ DrainFails(o)
                               \/ CancelSource(o) \/ Cancel(o)
             \/ \E i \in Recs : SourceEnds(i) \/ Cancelled(i) \/ TearDown(i)
             \/ \E o \in Ops, i \in Recs : Stop(o, i)
             \/ UNCHANGED vars
    BY <1>1, QuietSteps
  <1>2. ASSUME NEW o \in Ops, Approve(o) PROVE IInv'
    BY <1>2, ApproveKeeps
  <1>3. ASSUME NEW t \in Tokens, Expire(t) PROVE IInv'
    BY <1>3, ExpireKeeps
  <1>4. ASSUME NEW o \in Ops, NEW t \in Tokens, NEW m \in Modes, NEW r \in Routes,
               NEW text,
               LET k == [mode |-> m, route |-> r] IN
               \/ StartWithoutTap(o, t, k, text)
               \/ \E i \in Recs : Start(o, i, t, k, text) \/ StartWithoutBuffer(o, i, t, k, text)
        PROVE  IInv'
    <2> DEFINE k == [mode |-> m, route |-> r]
    <2>1. k \in Asked
      BY DEF Asked
    <2> HIDE DEF k
    <2>2. \/ StartWithoutTap(o, t, k, text)
          \/ \E i \in Recs : Start(o, i, t, k, text) \/ StartWithoutBuffer(o, i, t, k, text)
      BY <1>4 DEF k
    <2> QED
      BY <2>1, <2>2, StartKeeps, StartFailsKeeps
  <1>5. ASSUME NEW i \in Recs, Capture(i) PROVE IInv'
    BY <1>5, CaptureKeeps
  <1>6. ASSUME NEW o \in Ops, Stopped(o) \/ \E i \in Recs : StopAtOnce(o, i) PROVE IInv'
    BY <1>6, StopKeeps
  <1>7. ASSUME NEW i \in Recs, NEW removed \in SUBSET Seqs, NEW redacted \in SUBSET Seqs,
               Review(i, removed, redacted)
        PROVE  IInv'
    BY <1>7, ReviewKeeps
  <1> QED
    BY <1>1, <1>2, <1>3, <1>4, <1>5, <1>6, <1>7 DEF Next

(* The invariant that carries the three theorems below. *)
THEOREM Invariance == Spec => []IInv
  BY InitInv, NextKeeps, PTL DEF Spec

(* Every variable keeps its type: in particular the slot of the active     *)
(* recording names none or one that can be.                                *)
THEOREM TypeCorrect == Spec => []Types
  <1>1. IInv => Types
    BY DEF IInv
  <1> QED
    BY <1>1, Invariance, PTL

(* No recording runs, or has run, without an approval of its own, given    *)
(* for the mode and the route it records with (START and its consent).     *)
THEOREM EveryRecordingHasConsent == Spec => []ConsentPerRecording
  <1>1. IInv => ConsentPerRecording
    BY DEF IInv
  <1> QED
    BY <1>1, Invariance, PTL

(* The recording that keeps every other START away is registered and       *)
(* active, so a STOP finds it: no pruning and no cancellation takes it.    *)
THEOREM TheActiveOneCanBeStopped == Spec => []ActiveCanBeStopped
  <1>1. IInv => ActiveCanBeStopped
    BY DEF IInv
  <1> QED
    BY <1>1, Invariance, PTL

(* A review that was acknowledged stands, and sent again it is accepted    *)
(* again for as long as the handler has the recording (_apply_review and   *)
(* its retries).                                                           *)
THEOREM AcknowledgedReviewsStand == Spec => []ReviewsStand
  <1>1. IInv => ReviewsStand
    BY DEF IInv, ReviewsHold, ReviewsStand, Accepts
  <1> QED
    BY <1>1, Invariance, PTL

==============================================================================
