----------------------------- MODULE SideEffects -----------------------------
(***************************************************************************)
(* The handlers that change the computer: FILE_WRITE, FILE_MOVE and        *)
(* FILE_DELETE in worker threads, EXECUTE_COMMAND in a process group of    *)
(* its own, LOCAL_LLM_COMPLETION on the one local backend.  Each ends with *)
(* an audit record, which is written to the end even if its request is     *)
(* cancelled meanwhile.                                                    *)
(***************************************************************************)
EXTENDS ThreadPool

CONSTANTS
    Names,          (* directory entries inside the allowed root           *)
    MaxCommands     (* max_concurrent_commands                             *)

ASSUME SideEffectsAssumption == IsFiniteSet(Names) /\ MaxCommands \in Nat

VARIABLES
    files,          (* the entries that exist                              *)
    group,          (* the processes of each command's group that live     *)
    commands,       (* _CommandConcurrency.active                          *)
    llm             (* _inflight_lock: the request the backend serves      *)

effects == <<files, group, commands, llm>>

(* <<"move", source, destination, overwrite>>                              *)
FileJobs == ({"write", "delete"} \X Names) \cup ({"move"} \X Names \X Names \X BOOLEAN)
Members == {"leader", "child"}

EffectsInit ==
    /\ files \in SUBSET Names
    /\ group = [r \in Requests |-> {}]
    /\ commands = 0
    /\ llm = NoRequest

(* What a request holds is given back however it ends.                     *)
Release(r) ==
    /\ commands' = IF Op(r) \in {"command", "stopped"} THEN commands - 1 ELSE commands
    /\ llm' = IF llm = r THEN NoRequest ELSE llm

(* The record is kept, or the log fails and the handler goes on all the    *)
(* same; a cancellation waits for it.                                      *)
Emit(r) ==
    /\ req[r].step = "emit"
    /\ \E outcome \in {"kept", "failed"} :
           req' = [req EXCEPT ![r].step = "ended", ![r].log = outcome]
    /\ Release(r)
    /\ UNCHANGED <<thread, files, group>>

(* A request that has ended makes place for another one.                   *)
EffectForgotten(r) ==
    /\ req[r].step = "ended"
    /\ req' = [req EXCEPT ![r] = Idle]
    /\ group' = [group EXCEPT ![r] = {}]
    /\ UNCHANGED <<thread, files, commands, llm>>

(***************************************************************************)
(* Files.                                                                  *)
(***************************************************************************)

(* What the handler refuses before it starts any work.                     *)
RefusedEarly(j) ==
    \/ j[1] \in {"delete", "move"} /\ j[2] \notin files
    \/ j[1] = "move" /\ j[3] \in files /\ ~j[4]

FileBegin(r, j) ==
    /\ req[r].step = "idle"
    /\ req' = [req EXCEPT ![r] = Begun(IF RefusedEarly(j) THEN "emit" ELSE "queued", j)]
    /\ UNCHANGED <<thread, effects>>

(* run(): work that was cancelled while it waited for a thread is not done.*)
MayRun(r) == req[r].cancels = 0

FileStarts(t, r) ==
    /\ req[r].step = "queued" /\ req[r].job \in FileJobs
    /\ \/ MayRun(r) /\ Takes(t, r) /\ At(r, "running")
       \/ ~MayRun(r) /\ At(r, "ended") /\ UNCHANGED thread
    /\ UNCHANGED effects

(* Faulty variant: a rename replaces what it finds.                        *)
ReplacesAnyway(j) == j[1] = "write" \/ j[2] \in files

(* Whether the operating system does it now, whatever was checked earlier: *)
(* a rename that must not replace refuses an existing destination itself.  *)
Possible(j) ==
    \/ j[1] = "write"
    \/ j[1] = "delete" /\ j[2] \in files
    \/ j[1] = "move" /\ j[2] \in files /\ (j[4] \/ j[3] \notin files)

Effect(j) ==
    CASE j[1] = "write"  -> files \cup {j[2]}
      [] j[1] = "delete" -> files \ {j[2]}
      [] j[1] = "move"   -> (files \ {j[2]}) \cup {j[3]}

(* The thread's work succeeds, or fails and leaves things as they were.    *)
FileWorks(t) ==
    LET j == thread[t].job IN
    /\ j \in FileJobs
    /\ \/ Possible(j) /\ files' = Effect(j) /\ Returns(t, <<"changed">>)
       \/ files' = files /\ Returns(t, <<"failed">>)
    /\ UNCHANGED <<group, commands, llm>>

(* Another program, or the person, makes an entry.                         *)
OthersCreate(n) ==
    /\ n \notin files
    /\ files' = files \cup {n}
    /\ UNCHANGED <<req, thread, group, commands, llm>>

(* Faulty variant: a cancelled request ends at once.                       *)
FileLetGo(r) == At(r, "ended")

(* A cancellation is held until the thread is done.                        *)
FileHeld(r) == req' = [req EXCEPT ![r].cancels = @ + 1]

FileCancelled(r) ==
    /\ req[r].step \in {"queued", "running"} /\ req[r].job \in FileJobs
    /\ req[r].cancels < MaxCancels
    /\ FileHeld(r)
    /\ UNCHANGED <<thread, effects>>

(***************************************************************************)
(* Commands.  A request is in "spawn" until asyncio has its pipes, in      *)
(* "command" while the command runs, in "drain" while its output is read   *)
(* to the end after that, in "term" and "wait" while it is stopped; its    *)
(* job is then "stopped".                                                  *)
(***************************************************************************)

(* The rate limit and the concurrency limit refuse with a record; so does  *)
(* a program that cannot be started, which gives its place back.           *)
CommandRefused(r) ==
    /\ req[r].step = "idle"
    /\ \/ req' = [req EXCEPT ![r] = Begun("emit", <<"refused">>)] /\ commands' = commands
       \/ /\ commands < MaxCommands /\ commands' = commands + 1
          /\ req' = [req EXCEPT ![r] = Begun("emit", <<"command">>)]
    /\ UNCHANGED <<thread, files, group, llm>>

(* The command is started, and runs while its pipes are still awaited.     *)
CommandBegin(r) ==
    /\ req[r].step = "idle"
    /\ commands < MaxCommands /\ commands' = commands + 1
    /\ req' = [req EXCEPT ![r] = Begun("spawn", <<"command">>)]
    /\ group' = [group EXCEPT ![r] = {"leader"}]
    /\ UNCHANGED <<thread, files, llm>>

Spawned(r) ==
    /\ req[r].step = "spawn"
    /\ At(r, "command")
    /\ UNCHANGED <<thread, effects>>

(* A cancellation while they are awaited passes both except clauses:       *)
(* asyncio kills the command's own process, and nothing stops its group or *)
(* writes a record.                                                        *)
SpawnCancelled(r) ==
    /\ req[r].step = "spawn" /\ MaxCancels > 0
    /\ req' = [req EXCEPT ![r] = [@ EXCEPT !.step = "ended", !.cancels = 1,
                                          !.did = <<"cut short">>]]
    /\ group' = [group EXCEPT ![r] = @ \ {"leader"}]
    /\ Release(r)
    /\ UNCHANGED <<thread, files>>

(* Processes of the group start and exit on their own.                     *)
GroupMoves(r) ==
    /\ group[r] # {}
    /\ \E g \in SUBSET Members :
           /\ g # group[r] /\ ("leader" \in g => "leader" \in group[r])
           /\ group' = [group EXCEPT ![r] = g]
    /\ UNCHANGED <<req, thread, files, commands, llm>>

CommandExits(r) ==
    /\ req[r].step = "command" /\ "leader" \notin group[r]
    /\ At(r, "drain")
    /\ UNCHANGED <<thread, effects>>

(* The pipes are closed, or two seconds have passed.                       *)
Drained(r) ==
    /\ req[r].step = "drain"
    /\ At(r, "emit")
    /\ UNCHANGED <<thread, effects>>

(* SIGTERM goes to the group, any process of which may ignore it; nothing  *)
(* is sent once the command itself has exited.                             *)
Terminate(r, cancels) ==
    LET at(step, did) == [req[r] EXCEPT !.step = step, !.cancels = cancels, !.did = did] IN
    \/ /\ "leader" \in group[r]
       /\ \E g \in SUBSET group[r] : group' = [group EXCEPT ![r] = g]
       /\ req' = [req EXCEPT ![r] = [at("term", <<"stopping">>) EXCEPT !.job = <<"stopped">>]]
    \/ /\ "leader" \notin group[r] /\ group' = group
       /\ req' = [req EXCEPT ![r] = at("wait", IF @.step = "term" THEN <<"let go">> ELSE @.did)]

TimesOut(r) ==
    /\ req[r].step = "command"
    /\ Terminate(r, 0)
    /\ UNCHANGED <<thread, files, commands, llm>>

(* Faulty variant: only the command's own process is waited for.           *)
LeaderGone(r) == "leader" \notin group[r]

GroupGone(r) == group[r] = {}

(* The group is looked at until it is gone; what is left of it after the   *)
(* grace period is killed.                                                 *)
TermEnds(r) ==
    /\ req[r].step = "term"
    /\ \/ GroupGone(r) /\ UNCHANGED group
       \/ group' = [group EXCEPT ![r] = {}]
    /\ At(r, "wait")
    /\ UNCHANGED <<thread, files, commands, llm>>

WaitEnds(r) ==
    /\ req[r].step = "wait"
    /\ At(r, "emit")
    /\ UNCHANGED <<thread, effects>>

(* The first cancellation stops the command, anew if a timeout already was *)
(* stopping it.                                                            *)
CommandCancelled(r) ==
    /\ req[r].step \in {"command", "drain", "term", "wait"}
    /\ req[r].cancels = 0 /\ MaxCancels > 0
    /\ Terminate(r, 1)
    /\ UNCHANGED <<thread, files, commands, llm>>

(* Another one while it does ends the request as it is.                    *)
StopCancelled(r) ==
    /\ req[r].step \in {"term", "wait"} /\ req[r].cancels = 1 /\ MaxCancels > 1
    /\ req' = [req EXCEPT ![r] = [@ EXCEPT !.step = "ended", !.cancels = 2, !.did = <<"let go">>]]
    /\ Release(r)
    /\ UNCHANGED <<thread, files, group>>

(***************************************************************************)
(* The local model.                                                        *)
(***************************************************************************)

(* The model is not one the backend has, or the backend is busy.           *)
LlmRefused(r) ==
    /\ req[r].step = "idle"
    /\ req' = [req EXCEPT ![r] = Begun("emit", <<"refused">>)]
    /\ UNCHANGED <<thread, effects>>

LlmBegin(r) ==
    /\ req[r].step = "idle" /\ llm = NoRequest
    /\ llm' = r
    /\ req' = [req EXCEPT ![r] = Begun("llm", <<"llm">>)]
    /\ UNCHANGED <<thread, files, group, commands>>

(* The last chunk, an error of the backend, a limit or a timeout.          *)
LlmEnds(r) ==
    /\ req[r].step = "llm"
    /\ At(r, "emit")
    /\ UNCHANGED <<thread, effects>>

LlmCancelled(r) ==
    /\ req[r].step = "llm" /\ MaxCancels > 0
    /\ req' = [req EXCEPT ![r].step = "ended", ![r].cancels = 1]
    /\ Release(r)
    /\ UNCHANGED <<thread, files, group>>

==============================================================================
