---------------------------- MODULE WorkerThreads ----------------------------
(***************************************************************************)
(* The two kinds of channel whose requests do their work in threads: a     *)
(* session's, with the handlers of SideEffects, and the control channel,   *)
(* with DirectoryBrowser.  They share nothing but the threads, and how     *)
(* long work waits for one is left open, so one behaviour is of one        *)
(* channel, or of what replies hold, with Replies.                         *)
(***************************************************************************)
EXTENDS SideEffects, DirectoryBrowser, Replies

VARIABLE channel    (* the channel of this behaviour                       *)

vars == <<req, thread, effects, browser, replies, channel>>

Init ==
    /\ PoolInit /\ BrowserInit /\ RepliesInit
    /\ \/ channel = "session" /\ EffectsInit
       \/ /\ channel \in {"control", "replies"}
          /\ files = {} /\ group = [r \in Requests |-> {}] /\ commands = 0 /\ llm = NoRequest

SessionNext ==
    /\ channel = "session"
    /\ \/ \E r \in Requests :
              \/ Emit(r) \/ EffectForgotten(r) \/ FileCancelled(r)
              \/ \E j \in FileJobs : FileBegin(r, j)
              \/ \E t \in Threads : FileStarts(t, r)
              \/ CommandRefused(r) \/ CommandBegin(r) \/ Spawned(r)
              \/ SpawnCancelled(r) \/ GroupMoves(r)
              \/ CommandExits(r) \/ Drained(r) \/ TimesOut(r) \/ TermEnds(r)
              \/ WaitEnds(r) \/ CommandCancelled(r) \/ StopCancelled(r)
              \/ LlmRefused(r) \/ LlmBegin(r) \/ LlmEnds(r) \/ LlmCancelled(r)
       \/ \E t \in Threads : FileWorks(t)
       \/ \E n \in Names : OthersCreate(n)
    /\ UNCHANGED <<browser, replies, channel>>

ControlNext ==
    /\ channel = "control"
    /\ \/ \E r \in Requests :
              \/ \E j \in BrowseJobs : BrowseBegin(r, j)
              \/ BrowseLocked(r) \/ BrowseTold(r)
              \/ \E t \in Threads : BrowseRuns(t, r)
       \/ \E t \in Threads :
              \/ BrowseLooks(t) \/ RootsFound(t) \/ PageListed(t)
              \/ DirectoryUnavailable(t) \/ Resolved(t) \/ Consume(t)
       \/ \E b \in DOMAIN browse : Expire(b)
       \/ ConnectionLost \/ ConnectedAgain
    /\ UNCHANGED <<effects, replies, channel>>

Next ==
    \/ SessionNext \/ ControlNext
    \/ /\ channel = "replies" /\ RepliesNext
       /\ UNCHANGED <<req, thread, effects, browser, channel>>

Spec == Init /\ [][Next]_vars

(***************************************************************************)
(* Properties of a session's side effects.                                 *)
(***************************************************************************)

Ended(r) == req[r].step = "ended"

(* A file that changed has a record, unless the log failed: also when its  *)
(* session ended while a thread was changing it (handlers.py:342, the held *)
(* cancellation of _run_to_completion).                                    *)
ChangesAreRecorded ==
    \A r \in Requests :
        /\ req[r].did = <<"changed">> /\ Ended(r) => req[r].log # "none"
        /\ Op(r) \in {"write", "delete", "move"} /\ Ended(r) /\ req[r].log = "none"
               => /\ req[r].did = <<"nothing">>
                  /\ \A t \in Threads : thread[t].owner # r

(* A command that was stopped leaves no process of its group behind, even  *)
(* those that ignored SIGTERM, unless its stop was cut short               *)
(* (handlers.py:264, _terminate_process_group).  One that was cancelled    *)
(* while it was being started was not stopped: only its own process is     *)
(* gone.                                                                   *)
StoppedGroupsAreGone ==
    \A r \in Requests : Ended(r) =>
        /\ Op(r) = "stopped" /\ req[r].did # <<"let go">> => group[r] = {}
        /\ req[r].did = <<"cut short">> => "leader" \notin group[r]

(* Every command that was started has a record, unless its stop was        *)
(* cancelled too, or it was cancelled while it was being started           *)
(* (handlers.py:556-589, against the comment at 625).                      *)
CommandsAreRecorded ==
    \A r \in Requests :
        /\ Op(r) \in {"command", "stopped"} /\ Ended(r)
        /\ req[r].cancels < 2 /\ req[r].did # <<"cut short">>
        => req[r].log # "none"

(* The places of commands and of the local model are given back however a  *)
(* request ends (handlers.py:508, 2070).                                   *)
PlacesAreGivenBack ==
    /\ commands = Cardinality({r \in Requests : Op(r) \in {"command", "stopped"} /\ ~Ended(r)})
    /\ llm # NoRequest => ~Ended(llm)

(* A request that has ended is accounted for: what it changed, what it     *)
(* stopped and what it held (handlers.py:309, 617, 508).                   *)
EndedRequestsAreAccounted ==
    ChangesAreRecorded /\ StoppedGroupsAreGone /\ CommandsAreRecorded /\ PlacesAreGivenBack

(* An entry goes away only because a delete or an overwriting move was     *)
(* asked for: a move that must not replace never does, even where the      *)
(* destination appeared after the handler looked (handlers.py:1364,        *)
(* rename_no_replace).                                                     *)
NothingIsReplaced ==
    Cardinality(files') < Cardinality(files)
        => \E t \in Threads :
               /\ thread'[t] # thread[t]
               /\ \/ thread[t].job[1] = "delete"
                  \/ thread[t].job[1] = "move" /\ thread[t].job[4]

(* Both, of every step: whatever it ends is accounted for, and whatever it *)
(* takes away was to go (handlers.py:309, 617, 508, 1364).                 *)
SideEffectsAreAccounted == [][EndedRequestsAreAccounted' /\ NothingIsReplaced]_vars

(***************************************************************************)
(* Properties of directory browsing.                                       *)
(***************************************************************************)

(* One browse serves one attach (directory_browser.py:186): two attaches   *)
(* with one browse cannot both get a root.                                 *)
OneSelectionPerBrowse == \A b \in DOMAIN browse : browse[b].used <= 1

(* A reference the platform was told on an earlier connection stands for   *)
(* nothing, whatever a thread left over from that connection does          *)
(* (directory_browser.py:106, reset).                                      *)
OldReferencesAreGone ==
    up => \A b \in DOMAIN browse : InBrowser(b) /\ browse[b].told # 0 => browse[b].told = connection

(* A listing that leaves children out says so or offers the rest, and the  *)
(* rest begins where it ends (directory_browser.py:263-288).               *)
CutListingsSaySo ==
    \A r \in Requests : req[r].did[1] = "listed" =>
        LET page    == req[r].did[3]
            found   == Sorted(req[r].did[4])
            offset  == req[r].job[3]
            asked   == {found[i] : i \in (offset + 1)..Len(found)}
        IN /\ (req[r].did[5] \/ asked # page.entries) => page.truncated \/ page.more # 0
           /\ page.more # 0 => page.more = offset + Cardinality(page.entries)
           /\ page.entries \subseteq browse[req[r].did[2]].refs

BrowsingIsBounded == \A b \in DOMAIN browse : Cardinality(browse[b].refs) <= MaxRefs

BrowsesKeepTheirWord ==
    OneSelectionPerBrowse /\ OldReferencesAreGone /\ CutListingsSaySo /\ BrowsingIsBounded

==============================================================================
