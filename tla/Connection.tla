----------------------------- MODULE Connection -----------------------------
(***************************************************************************)
(* The daemon process under its service manager, and the connections it    *)
(* keeps: the control daemon's and one per chat, each a run() loop that    *)
(* reads a token, connects, shakes hands, and connects again.  They share  *)
(* one pair of OAuth tokens, in the keychain, and the lock to refresh it.  *)
(* `autogpt-shim auth` and `revoke` are processes of their own.            *)
(***************************************************************************)
EXTENDS Naturals, FiniteSets

CONSTANTS
    Chats,          (* child daemons that can exist at once                *)
    Control,        (* the control daemon                                  *)
    NoOne,
    MaxPairs        (* bound on the token pairs issued                     *)

ASSUME ConnectionAssumption ==
    /\ Control \notin Chats /\ NoOne \notin Chats \cup {Control}
    /\ MaxPairs \in Nat \ {0}

Daemons == Chats \cup {Control}
Pairs   == 1..MaxPairs      (* numbered as the platform issues them        *)
NoPair  == 0

VARIABLES
    world,          (* what the program does not decide, see World         *)
    issued,         (* pairs issued so far                                 *)
    access,         (* those whose access token the platform takes         *)
    refresh,        (* those whose refresh token it takes                  *)
    stored,         (* the pair in the keychain                            *)
    late,           (* pairs that threads of cancelled tasks still store   *)
    refresher,      (* who holds _token_refresh_lock                       *)
    sock,           (* every daemon's run() loop                           *)
    process,        (* "up", or how it ended                               *)
    cli,            (* `autogpt-shim revoke`: the pair it has read         *)
    disturbed       (* a refresh was cut short, or the user signed in or   *)
                    (* out: history, for the properties                    *)

tokens == <<issued, access, refresh, stored, late>>
vars   == <<world, tokens, refresher, sock, process, cli, disturbed>>

(***************************************************************************)
(* The world: whether the network, the platform and the keychain may fail, *)
(* and the process be killed, for now; a keychain backend that is missing; *)
(* a platform that bars the account or speaks another protocol; a setting  *)
(* that cannot work, a macOS permission not granted yet, or a failure to   *)
(* start that the code has no class for, such as a folder that cannot be   *)
(* made or a driver that answers with an error; and who restarts the       *)
(* process.                                                                *)
(***************************************************************************)
World == [trouble : BOOLEAN, keychain : BOOLEAN, barred : BOOLEAN,
          compatible : BOOLEAN,
          setting : {"right", "wrong", "ungranted", "unsorted"},
          manager : {"systemd", "launchd"}]

(* A run() loop: where it is, the access token it connects with, the pair  *)
(* it refreshes and the one it gets for it, and why it will not go on:     *)
(* DaemonAuthenticationError, "odd" where an answer without a rule of its  *)
(* own led to it, or _disable_reconnect.                                   *)
Phase == {"off", "read", "connect", "wait", "check", "fetch", "post", "answer",
          "store", "retry", "shake", "up", "back", "ended"}
Sock == [phase : Phase, tok : Pairs \cup {NoPair}, old : Pairs \cup {NoPair},
         new : Pairs \cup {NoPair}, final : {"no", "denied", "odd", "disabled"}]

Off == [phase |-> "off", tok |-> NoPair, old |-> NoPair, new |-> NoPair,
        final |-> "no"]
Begun == [Off EXCEPT !.phase = "read"]

Init ==
    /\ world \in {w \in World : w.trouble /\ (w.setting = "ungranted" =>
                                           w.manager = "launchd")}
    /\ issued = 1 /\ access = {1} /\ refresh = {1} /\ stored = 1 /\ late = {}
    /\ refresher = NoOne
    /\ sock = [x \in Daemons |-> Off]
    /\ process = "start"
    /\ cli = NoPair
    /\ disturbed = FALSE

(***************************************************************************)
(* How a run() loop goes on.  A daemon that ends lets the refresh lock go. *)
(***************************************************************************)

To(x, s) ==
    /\ sock' = [sock EXCEPT ![x] = s]
    /\ refresher' = IF refresher = x THEN NoOne ELSE refresher

(* A transient failure: wait, and try again.                               *)
Back(x) == To(x, [Off EXCEPT !.phase = "back"])
(* One that retrying cannot fix.                                           *)
Ended(x, why) == To(x, [Off EXCEPT !.phase = "ended", !.final = why])
(* So does an answer that no rule covers, which is taken for a refusal:    *)
(* a redirect of the upgrade, and what _get_access_token's last handlers   *)
(* return None for.                                                        *)
Odd(x) == Ended(x, "odd")
Move(x, phase) == sock' = [sock EXCEPT ![x].phase = phase] /\ UNCHANGED refresher

Rest == UNCHANGED <<world, tokens, process, cli, disturbed>>

Wake(x) ==
    /\ sock[x].phase = "back"
    /\ To(x, Begun)
    /\ Rest

(* The keychain answers, is locked for now, is not there at all, or has a  *)
(* pair made for another deployment.                                       *)
ReadToken(x) ==
    /\ sock[x].phase = "read"
    /\ \/ /\ world.keychain /\ stored # NoPair
          /\ To(x, [Begun EXCEPT !.phase = "connect", !.tok = stored])
       \/ world.keychain /\ stored = NoPair /\ Ended(x, "denied")
       \/ ~world.keychain /\ Ended(x, "denied")
       \/ Odd(x)
       \/ world.trouble /\ Back(x)
    /\ Rest

(* The upgrade: accepted, 401, 403, or a failure that says nothing.  A 401 *)
(* leads to one refresh, or after that ends the daemon.  A redirect is     *)
(* never followed, and ends it at once.                                    *)
Upgrade(x) ==
    /\ sock[x].phase \in {"connect", "retry"}
    /\ \/ sock[x].tok \in access /\ ~world.barred /\ Move(x, "shake")
       \/ /\ sock[x].tok \notin access
          /\ IF sock[x].phase = "connect" THEN Move(x, "wait") ELSE Ended(x, "denied")
       \/ world.barred /\ Ended(x, "denied")
       \/ Odd(x)
       \/ world.trouble /\ Back(x)
    /\ Rest

(* HELLO and HELLO_ACK.  An answer no retry can mend, such as another      *)
(* major version, disables reconnecting, as a fatal close does; one for    *)
(* another session counts as a refusal.                                    *)
Handshake(x) ==
    /\ sock[x].phase = "shake"
    /\ \/ world.compatible /\ Move(x, "up")
       \/ ~world.compatible /\ \E why \in {"disabled", "denied"} : Ended(x, why)
       \/ world.trouble /\ Back(x)
    /\ Rest

(* The connection drops, or is closed for good: revoked, or taken over by  *)
(* another connection of this machine.                                     *)
Drop(x) ==
    /\ sock[x].phase = "up"
    /\ Back(x)
    /\ Rest

CloseForGood(x) ==
    /\ sock[x].phase \in {"shake", "up"}
    /\ Ended(x, "disabled")
    /\ Rest

(***************************************************************************)
(* _get_access_token(refresh_on_fail=True), under _token_refresh_lock.     *)
(***************************************************************************)

TakeLock(x) ==
    /\ sock[x].phase = "wait" /\ refresher = NoOne
    /\ refresher' = x
    /\ sock' = [sock EXCEPT ![x].phase = "check"]
    /\ Rest

(* Faulty variant: whoever gets the lock refreshes.                        *)
RefreshAnyway(x) ==
    /\ sock[x].phase = "check"
    /\ \/ Move(x, "fetch")
       \/ world.trouble /\ Back(x)
    /\ Rest

(* Faulty variant: a locked keychain passes for an empty one.              *)
RecheckOnce(x) ==
    /\ sock[x].phase = "check"
    /\ \/ /\ stored \notin {NoPair, sock[x].tok}
          /\ To(x, [Off EXCEPT !.phase = "retry", !.tok = stored])
       \/ /\ stored \in {NoPair, sock[x].tok}
          /\ Move(x, "fetch")
       \/ world.trouble /\ Ended(x, "denied")
    /\ Rest

(* Another daemon may have refreshed while this one was being refused.     *)
Recheck(x) ==
    /\ sock[x].phase = "check"
    /\ \/ /\ stored \notin {NoPair, sock[x].tok}
          /\ To(x, [Off EXCEPT !.phase = "retry", !.tok = stored])
       \/ /\ stored \in {NoPair, sock[x].tok}
          /\ Move(x, "fetch")
       \/ Odd(x)
       \/ world.trouble /\ Back(x)
    /\ Rest

(* OAuthFlow.refresh_token reads the refresh token.  An error of the       *)
(* keychain backend other than its own kinds passes for a refusal, here    *)
(* and when the new pair is stored.                                        *)
Fetch(x) ==
    /\ sock[x].phase = "fetch"
    /\ \/ stored = NoPair /\ Ended(x, "denied")
       \/ /\ stored # NoPair
          /\ sock' = [sock EXCEPT ![x].phase = "post", ![x].old = stored]
          /\ UNCHANGED refresher
       \/ Odd(x)
       \/ world.trouble /\ Back(x)
    /\ Rest

(* The platform takes a refresh token once, and answers with a new pair.   *)
Rotate(x) ==
    /\ sock[x].phase = "post" /\ sock[x].old \in refresh /\ issued < MaxPairs
    /\ issued' = issued + 1
    /\ access' = access \cup {issued + 1}
    /\ refresh' = (refresh \ {sock[x].old}) \cup {issued + 1}
    /\ sock' = [sock EXCEPT ![x].phase = "answer", ![x].new = issued + 1]
    /\ UNCHANGED <<world, stored, late, refresher, process, cli, disturbed>>

(* Not rotated: refused, a status other than 429 and 5xx that says nothing *)
(* of the token but passes for a refusal, or a failure to be retried.      *)
Refused(x) ==
    /\ sock[x].phase = "post"
    /\ \/ sock[x].old \notin refresh /\ Ended(x, "denied")
       \/ Odd(x)
       \/ world.trouble /\ Back(x)
    /\ Rest

(* The answer arrives, or is lost, or cannot be read, and the new pair is  *)
(* lost with it.                                                           *)
Answer(x) ==
    /\ sock[x].phase = "answer"
    /\ \/ Move(x, "store") /\ UNCHANGED disturbed
       \/ Odd(x) /\ disturbed' = TRUE
       \/ world.trouble /\ Back(x) /\ disturbed' = TRUE
    /\ UNCHANGED <<world, tokens, process, cli>>

(* Stored, and read again; or lost.                                        *)
Store(x) ==
    /\ sock[x].phase = "store"
    /\ \/ /\ stored' = sock[x].new
          /\ \/ To(x, [Off EXCEPT !.phase = "retry", !.tok = sock[x].new])
             \/ world.trouble /\ Back(x)
          /\ UNCHANGED disturbed
       \/ /\ Odd(x) \/ (world.trouble /\ Back(x))
          /\ disturbed' = TRUE /\ UNCHANGED stored
    /\ UNCHANGED <<world, issued, access, refresh, late, process, cli>>

(***************************************************************************)
(* The children: started while the control connection is up; cancelled at  *)
(* whatever they await when their chat is detached, the control connection *)
(* is made again, or the control daemon ends.  A token being stored is     *)
(* stored all the same, by its thread.                                     *)
(***************************************************************************)

Refreshing == {"post", "answer", "store"}

StartChild(c) ==
    /\ sock[Control].phase = "up" /\ sock[c].phase = "off"
    /\ To(c, Begun)
    /\ Rest

ChildEnds(c) ==
    /\ sock[c].phase = "ended"
    /\ To(c, Off)
    /\ Rest

(* Faulty variant: a child cancelled within a refresh keeps the lock.      *)
CancelHolding(c) ==
    /\ sock[c].phase \notin {"off", "ended"}
    /\ sock' = [sock EXCEPT ![c] = Off] /\ UNCHANGED refresher
    /\ late' = IF sock[c].phase = "store" THEN late \cup {sock[c].new} ELSE late
    /\ disturbed' = (disturbed \/ sock[c].phase \in Refreshing)
    /\ UNCHANGED <<world, issued, access, refresh, stored, process, cli>>

Cancel(c) ==
    /\ sock[c].phase \notin {"off", "ended"}
    /\ To(c, Off)
    /\ late' = IF sock[c].phase = "store" THEN late \cup {sock[c].new} ELSE late
    /\ disturbed' = (disturbed \/ sock[c].phase \in Refreshing)
    /\ UNCHANGED <<world, issued, access, refresh, stored, process, cli>>

LateStore(n) ==
    /\ n \in late
    /\ late' = late \ {n}
    /\ stored' \in {n} \cup (IF world.trouble THEN {stored} ELSE {})
    /\ UNCHANGED <<world, issued, access, refresh, refresher, sock, process, cli,
                   disturbed>>

ChildrenGone == \A c \in Chats : sock[c].phase = "off"

(***************************************************************************)
(* The process.  _cmd_start's exit code tells the service manager whether  *)
(* to start it again.                                                      *)
(***************************************************************************)

Cause == {"trouble", "setting", "preflight", "denied", "odd", "disabled", "user",
          "killed"}

(* Faulty variant: refused credentials end with 77 under launchd, too.     *)
ExitCodeOfSystemd(cause) ==
    CASE cause = "trouble" -> 75
      [] cause \in {"preflight", "setting"} -> 78
      [] cause \in {"denied", "odd"} -> 77
      [] cause = "killed" -> 137
      [] cause \in {"disabled", "user"} -> 0

(* Faulty variant: what can clear on its own ends like a wrong setting.    *)
ExitCodeOfSetting(cause) ==
    CASE cause \in {"trouble", "preflight", "setting"} -> 78
      [] cause \in {"denied", "odd"} -> 77
      [] cause = "killed" -> 137
      [] cause \in {"disabled", "user"} -> 0

(* launchd restarts any code but 0, so what no restart can fix ends with 0 *)
(* under it.  "preflight" is neither transient nor permanent to the code:  *)
(* 78, which launchd restarts and systemd does not.  Disabled reconnecting *)
(* is a normal return of run().                                            *)
ExitCode(cause) ==
    CASE cause = "trouble" -> 75
      [] cause = "preflight" -> 78
      [] cause = "setting" -> IF world.manager = "launchd" THEN 0 ELSE 78
      [] cause \in {"denied", "odd"} -> IF world.manager = "launchd" THEN 0 ELSE 77
      [] cause = "killed" -> 137
      [] cause \in {"disabled", "user"} -> 0

(* KeepAlive's SuccessfulExit=false; Restart=on-failure and                *)
(* RestartPreventExitStatus=77 78.                                         *)
Restarted(code) ==
    IF world.manager = "launchd" THEN code # 0 ELSE code \notin {0, 77, 78}

Exits(cause) ==
    /\ process' = cause
    /\ refresher' = NoOne
    /\ sock' = [x \in Daemons |-> Off]

(* The audit log is opened, settings and permissions are checked, the      *)
(* folder of a legacy session is made, SHIM_START is recorded, and the     *)
(* control daemon's loop begins.  What goes wrong for now is transient to  *)
(* the code, or is one of the failures it has no class for.                *)
Preflight ==
    /\ process = "start"
    /\ \/ /\ world.setting = "right"
          /\ process' = "up"
          /\ sock' = [sock EXCEPT ![Control] = Begun]
          /\ UNCHANGED refresher
       \/ world.setting = "wrong" /\ Exits("setting")
       \/ world.setting \in {"ungranted", "unsorted"} /\ Exits("preflight")
       \/ world.trouble /\ \E cause \in {"trouble", "preflight"} : Exits(cause)
    /\ UNCHANGED <<world, tokens, cli, disturbed>>

(* The control daemon's loop has ended, and its children with it.          *)
Exit ==
    /\ process = "up" /\ sock[Control].phase = "ended" /\ ChildrenGone
    /\ Exits(sock[Control].final)
    /\ UNCHANGED <<world, tokens, cli, disturbed>>

(* SIGTERM cancels everything; SIGKILL, or a crash, ends the threads too,  *)
(* and is part of the trouble.                                             *)
Stopped(cause) ==
    /\ process = "up"
    /\ cause = "killed" => world.trouble
    /\ Exits(cause)
    /\ late' = IF cause = "killed" THEN {}
               ELSE late \cup {sock[x].new : x \in
                                 {y \in Daemons : sock[y].phase = "store"}}
    /\ disturbed' = (disturbed \/ \E x \in Daemons : sock[x].phase \in Refreshing)
    /\ UNCHANGED <<world, issued, access, refresh, stored, cli>>

Restart ==
    /\ process \in Cause /\ Restarted(ExitCode(process))
    /\ process' = "start"
    /\ UNCHANGED <<world, tokens, refresher, sock, cli, disturbed>>

(* The user, having signed in or mended what was wrong.                    *)
UserStarts ==
    /\ process \in Cause
    /\ process' = "start"
    /\ UNCHANGED <<world, tokens, refresher, sock, cli, disturbed>>

(***************************************************************************)
(* The other processes, the platform, and the world.                       *)
(***************************************************************************)

(* autogpt-shim auth stores a pair of a new family.                        *)
SignIn ==
    /\ issued + 1 < MaxPairs
    /\ issued' = issued + 1
    /\ access' = access \cup {issued + 1}
    /\ refresh' = refresh \cup {issued + 1}
    /\ stored' = issued + 1
    /\ disturbed' = TRUE
    /\ UNCHANGED <<world, late, refresher, sock, process, cli>>

(* autogpt-shim revoke reads the pair, has the platform revoke it, and     *)
(* removes what the keychain holds by then.                                *)
RevokeReads ==
    /\ cli = NoPair /\ stored # NoPair
    /\ cli' = stored
    /\ disturbed' = TRUE
    /\ UNCHANGED <<world, tokens, refresher, sock, process>>

RevokePosts ==
    /\ cli # NoPair
    /\ \/ cli \in access /\ access' = access \ {cli} /\ UNCHANGED refresh
       \/ /\ cli \in refresh \ access
          /\ refresh' = refresh \ {cli} /\ UNCHANGED access
    /\ UNCHANGED <<world, issued, stored, late, refresher, sock, process, cli,
                   disturbed>>

RevokeClears ==
    /\ cli # NoPair /\ cli \notin access \cup refresh
    /\ stored' = NoPair
    /\ cli' = NoPair
    /\ UNCHANGED <<world, issued, access, refresh, late, refresher, sock, process,
                   disturbed>>

(* The platform cannot be reached: what is left stays, for a retry.        *)
RevokeFails ==
    /\ cli # NoPair /\ world.trouble
    /\ cli' = NoPair
    /\ UNCHANGED <<world, tokens, refresher, sock, process, disturbed>>

(* An access token outlives, by far, the attempt to connect that got it,   *)
(* and any that began before.                                              *)
Expires(p) ==
    /\ p \in access /\ issued < MaxPairs
    /\ \A x \in Daemons :
          /\ sock[x].phase # "retry"
          /\ sock[x].phase \in {"connect", "wait", "check", "fetch"} \cup Refreshing
                => p <= sock[x].tok
    /\ access' = access \ {p}
    /\ UNCHANGED <<world, issued, refresh, stored, late, refresher, sock, process,
                   cli, disturbed>>

RefreshExpires(p) ==
    /\ p \in refresh
    /\ refresh' = refresh \ {p}
    /\ UNCHANGED <<world, issued, access, stored, late, refresher, sock, process,
                   cli, disturbed>>

(* Whatever was wrong for the time being passes; the user grants.          *)
Clears ==
    /\ \/ world.trouble /\ world' = [world EXCEPT !.trouble = FALSE]
       \/ /\ world.setting = "ungranted"
          /\ world' = [world EXCEPT !.setting = "right"]
    /\ UNCHANGED <<tokens, refresher, sock, process, cli, disturbed>>

Step(x) ==
    \/ Wake(x) \/ ReadToken(x) \/ Upgrade(x)
    \/ (x = Control => ChildrenGone) /\ Handshake(x)
    \/ TakeLock(x) \/ Recheck(x) \/ Fetch(x) \/ Rotate(x) \/ Refused(x)
    \/ Answer(x) \/ Store(x)

(* The control daemon waits for its children to be stopped.                *)
Stopping(c) ==
    /\ sock[Control].phase \in {"shake", "ended"}
    /\ Cancel(c) \/ ChildEnds(c)

Next ==
    \/ \E x \in Daemons : Step(x) \/ Drop(x) \/ CloseForGood(x)
    \/ \E c \in Chats : StartChild(c) \/ ChildEnds(c) \/ Cancel(c)
    \/ \E n \in Pairs : LateStore(n) \/ Expires(n) \/ RefreshExpires(n)
    \/ Preflight \/ Exit \/ Stopped("user") \/ Stopped("killed")
    \/ Restart \/ UserStarts
    \/ SignIn \/ RevokeReads \/ RevokePosts \/ RevokeFails
    \/ RevokeClears \/ Clears

(* The loops and the service manager go on; nothing else must happen.      *)
Spec ==
    /\ Init /\ [][Next]_vars
    /\ \A x \in Daemons : WF_vars(Step(x))
    /\ \A c \in Chats : WF_vars(Stopping(c))
    /\ WF_vars(Preflight) /\ WF_vars(Exit) /\ WF_vars(Restart)

(***************************************************************************)
(* Properties                                                              *)
(***************************************************************************)

(* Values have their types, and whoever is between taking the refresh lock *)
(* and the end of its refresh holds it, alone.                             *)
TypeOK ==
    /\ world \in World
    /\ issued \in 0..MaxPairs /\ stored \in Pairs \cup {NoPair}
    /\ access \subseteq Pairs /\ refresh \subseteq Pairs /\ late \subseteq Pairs
    /\ sock \in [Daemons -> Sock]
    /\ process \in {"start", "up"} \cup Cause
    /\ cli \in Pairs \cup {NoPair}
    /\ disturbed \in BOOLEAN
    /\ \A x \in Daemons :
          (refresher = x) <=> sock[x].phase \in {"check", "fetch"} \cup Refreshing
    /\ refresher \in Daemons \cup {NoOne}

(* However many connections are refused at once, what is taken for a       *)
(* refusal by its own rule is one (401 and 403, an empty keychain, one     *)
(* that is missing): unless a refresh was cut short or the user signed in  *)
(* or out meanwhile, the platform bars the account or names another        *)
(* session, or what the keychain holds cannot be refreshed.  The answers   *)
(* no rule covers (Odd) give up credentials that may be good, whatever     *)
(* they were, and are not claimed to have a cause.                         *)
SignedOutForCause ==
    [][\A x \in Daemons :
          sock'[x].final = "denied" /\ sock[x].final = "no" =>
              \/ disturbed \/ world.barred \/ ~world.compatible \/ ~world.keychain
              \/ stored = NoPair \/ stored \notin refresh]_vars

(* A refresh token is spent only on the access token that was refused, not *)
(* on one another connection has just refreshed.                           *)
RefreshesWhatWasRefused ==
    [][\A x \in Daemons : Rotate(x) =>
          sock[x].old = sock[x].tok \/ disturbed]_vars

(* The service manager does not start the process for ever: once nothing   *)
(* is wrong that passes by itself, what the platform or a setting refuses  *)
(* again is left to the user.  Not so where starting fails in a way the    *)
(* code has no class for, or a permission is never granted: launchd starts *)
(* the process again and again, and the property is not about these.       *)
Calm == ~world.trouble /\ world.setting \in {"right", "wrong"}
NoRestartLoop == <>[]Calm => <>[][~Restart]_vars

(* Once nothing is wrong that passes by itself, the control daemon is      *)
(* connected again and again, unless it has ended for good or the user     *)
(* stopped it.  Under systemd a failure to start that the code has no      *)
(* class for ends it for good as well, though it may have passed.          *)
(* (Behaviours that reach the bound on pairs are left out.)                *)
Connected == sock[Control].phase = "up"
GivenUp   ==
    \/ process \in {"setting", "denied", "odd", "disabled", "user"}
    \/ process = "preflight" /\ world.manager = "systemd"
ConnectsInTheEnd ==
    <>[](Calm /\ issued < MaxPairs) => []<>(Connected \/ GivenUp)

=============================================================================
