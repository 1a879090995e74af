------------------------ MODULE WorkerThreadsProofs --------------------------
(***************************************************************************)
(* What WorkerThreads promises of a session's side effects, of directory   *)
(* browsing and of replies, for any number of requests, threads, names,    *)
(* children and browses and any limits, proved.                            *)
(*                                                                         *)
(* Of a session, the inductive invariant says what every step of a request *)
(* has done so far and holds, that a thread which works does so for one    *)
(* request that waits for it, and that the other channels leave all of     *)
(* this alone.  Of the control channel, it says who may name a browse: the *)
(* requests and threads that ask for it know it was told, only the one     *)
(* that starts it does not, and only the request with the lock has a       *)
(* thread that works for it.  Of replies, it is RepliesInv of              *)
(* RepliesProofs, which no step of the other channels touches.             *)
(***************************************************************************)
EXTENDS WorkerThreads, RepliesProofs, FiniteSetTheorems, TLAPS

Steps == {"idle", "queued", "running", "emit", "ended", "spawn", "command", "drain",
          "term", "wait", "llm"}

QuietSteps == {"idle", "lock", "queued", "running", "emit"}

(* A request is a record; what it may hold depends on its step.            *)
IsRequest(q, steps) ==
    q \in [step : steps, job : {q.job}, cancels : Nat, did : {q.did},
           log : {"none", "kept", "failed"}]

Holds(q) == q.job[1] \in {"command", "stopped"} /\ q.step # "ended"

(* What a request has done and left, with the processes of its group.      *)
Sound(q, processes) ==
    /\ q.step = "idle" => q = Idle
    /\ q.step \in {"queued", "running"} => q.job \in FileJobs /\ q.did = <<"nothing">>
    /\ q.step \in {"spawn", "command", "drain"} => q.job[1] = "command"
    /\ q.step = "term" => q.job[1] = "stopped"
    /\ q.step = "wait" => q.job[1] \in {"command", "stopped"}
    /\ q.step = "llm" => q.job[1] = "llm"
    /\ q.did[1] # "listed"
    /\ q.did = <<"changed">> => q.step = "emit" \/ (q.step = "ended" /\ q.log # "none")
    /\ q.step = "ended" /\ q.log = "none" =>
          /\ q.job \in FileJobs => q.did = <<"nothing">>
          /\ q.job[1] \in {"write", "delete", "move"} => q.job \in FileJobs
          /\ q.job[1] \in {"command", "stopped"} => q.cancels >= 2 \/ q.did = <<"cut short">>
    /\ q.did = <<"cut short">> => q.step = "ended" /\ "leader" \notin processes
    /\ q.job[1] = "stopped" /\ q.step \in {"wait", "emit", "ended"} /\ q.did # <<"let go">>
          => processes = {}

RequestsSound ==
    /\ req = [r \in Requests |-> req[r]]
    /\ group \in [Requests -> SUBSET Members]
    /\ \A r \in Requests : IsRequest(req[r], Steps) /\ Sound(req[r], group[r])

ThreadsSound ==
    /\ thread = [t \in Threads |-> thread[t]]
    /\ \A t \in Threads : thread[t] # Free =>
          /\ thread[t].owner \in Requests /\ thread[t].job \in FileJobs
          /\ req[thread[t].owner].step = "running"
          /\ \A u \in Threads : thread[u].owner = thread[t].owner => u = t

PlacesSound ==
    /\ commands = Cardinality({r \in Requests : Holds(req[r])})
    /\ llm # NoRequest =>
          llm \in Requests /\ req[llm].job[1] = "llm" /\ req[llm].step # "ended"

SessionInv == files \subseteq Names /\ RequestsSound /\ ThreadsSound /\ PlacesSound

(* The requests of the other channels have no side effects.                *)
QuietInv ==
    /\ req = [r \in Requests |-> req[r]]
    /\ \A r \in Requests :
          /\ IsRequest(req[r], QuietSteps)
          /\ req[r].job[1] \in {"none", "start", "page", "attach"}
    /\ files = {} /\ group = [r \in Requests |-> {}] /\ commands = 0 /\ llm = NoRequest

EffectsInv ==
    /\ channel \in {"session", "control", "replies"}
    /\ channel = "session" => SessionInv
    /\ channel # "session" => QuietInv

-----------------------------------------------------------------------------
(* Requests, threads and places                                            *)

LEMMA IdleIs ==
    /\ IsRequest(Idle, Steps) /\ Idle.step = "idle" /\ Idle.job = <<"none">>
    /\ Idle.cancels = 0 /\ Idle.did = <<"nothing">> /\ Idle.log = "none"
    /\ \A processes : Sound(Idle, processes)
  BY DEF Idle, IsRequest, Steps, Sound

LEMMA BegunIs ==
    ASSUME NEW step \in Steps, NEW job
    PROVE  /\ IsRequest(Begun(step, job), Steps) /\ Begun(step, job).step = step
           /\ Begun(step, job).job = job /\ Begun(step, job).did = <<"nothing">>
           /\ Begun(step, job).log = "none" /\ Begun(step, job).cancels = 0
  BY DEF Begun, Idle, IsRequest

(* A request at another step.                                              *)
LEMMA Stepped ==
    ASSUME NEW steps, NEW q, IsRequest(q, steps), NEW step \in steps
    PROVE  /\ IsRequest([q EXCEPT !.step = step], steps)
           /\ [q EXCEPT !.step = step].step = step
           /\ [q EXCEPT !.step = step].job = q.job
           /\ [q EXCEPT !.step = step].cancels = q.cancels
           /\ [q EXCEPT !.step = step].did = q.did
           /\ [q EXCEPT !.step = step].log = q.log
  BY DEF IsRequest

LEMMA FileJobsAre ==
    ASSUME NEW j \in FileJobs
    PROVE  /\ j[1] \in {"write", "delete", "move"} /\ j[2] \in Names
           /\ j[1] = "move" => j[3] \in Names /\ j[4] \in BOOLEAN
           /\ j # <<"none">>
  BY DEF FileJobs

(* One request moves, and with it what it has of threads and places.       *)
LEMMA RequestMoves ==
    ASSUME SessionInv, NEW r \in Requests, NEW q, IsRequest(q, Steps),
           Sound(q, group'[r]), req' = [req EXCEPT ![r] = q],
           group' \in [Requests -> SUBSET Members],
           \A s \in Requests \ {r} : group'[s] = group[s],
           ThreadsSound', PlacesSound', files' \subseteq Names
    PROVE  SessionInv'
  <1>1. RequestsSound
    BY DEF SessionInv
  <1>2. req'[r] = q /\ (\A s \in Requests \ {r} : req'[s] = req[s])
    BY <1>1 DEF RequestsSound
  <1>3. req' = [s \in Requests |-> req'[s]]
    BY <1>1 DEF RequestsSound
  <1>4. \A s \in Requests : IsRequest(req'[s], Steps) /\ Sound(req'[s], group'[s])
    BY <1>1, <1>2 DEF RequestsSound
  <1> QED
    BY <1>3, <1>4 DEF SessionInv, RequestsSound

(* The threads go on with a request that nothing of theirs waits for.      *)
LEMMA ThreadsStay ==
    ASSUME SessionInv, NEW r \in Requests, NEW q, req' = [req EXCEPT ![r] = q],
           thread' = thread, req[r].step = "running" => q.step = "running"
    PROVE  ThreadsSound'
  <1>1. ThreadsSound /\ req = [s \in Requests |-> req[s]]
    BY DEF SessionInv, RequestsSound
  <1>2. req'[r] = q /\ (\A s \in Requests \ {r} : req'[s] = req[s])
    BY <1>1
  <1> QED
    BY <1>1, <1>2 DEF ThreadsSound

(* The places are counted by the requests that have one.                   *)
LEMMA PlacesMove ==
    ASSUME SessionInv, NEW r \in Requests, NEW q, req' = [req EXCEPT ![r] = q],
           Holds(q) /\ ~Holds(req[r]) => commands' = commands + 1,
           ~Holds(q) /\ Holds(req[r]) => commands' = commands - 1,
           Holds(q) <=> Holds(req[r]) => commands' = commands,
           llm' # NoRequest =>
               \/ llm' = r /\ q.job[1] = "llm" /\ q.step # "ended"
               \/ llm' = llm /\ llm # r
    PROVE  PlacesSound'
  <1> DEFINE H == {s \in Requests : Holds(req[s])}
             N == {s \in Requests : Holds(req'[s])}
  <1>1. PlacesSound /\ req = [s \in Requests |-> req[s]]
    BY DEF SessionInv, RequestsSound
  <1>2. req'[r] = q /\ (\A s \in Requests \ {r} : req'[s] = req[s])
    BY <1>1
  <1>3. IsFiniteSet(H) /\ commands = Cardinality(H) /\ r \in Requests
    BY <1>1, ThreadPoolAssumption, FS_Subset DEF PlacesSound
  <1>4. commands' = Cardinality(N)
    <2>1. CASE Holds(q) /\ ~Holds(req[r])
      <3>1. N = H \cup {r} /\ r \notin H
        BY <1>2, <2>1
      <3> QED
        BY <1>3, <2>1, <3>1, FS_AddElement
    <2>2. CASE ~Holds(q) /\ Holds(req[r])
      <3>1. N = H \ {r} /\ r \in H
        BY <1>2, <2>2
      <3> QED
        BY <1>3, <2>2, <3>1, FS_RemoveElement
    <2>3. CASE Holds(q) <=> Holds(req[r])
      <3>1. N = H
        BY <1>2, <2>3
      <3> QED
        BY <1>3, <2>3, <3>1
    <2> QED
      BY <2>1, <2>2, <2>3
  <1>5. llm' # NoRequest =>
          llm' \in Requests /\ req'[llm'].job[1] = "llm" /\ req'[llm'].step # "ended"
    BY <1>1, <1>2 DEF PlacesSound
  <1> QED
    BY <1>4, <1>5 DEF PlacesSound

(* A request ends, and what it held is given back.                         *)
LEMMA Released ==
    ASSUME SessionInv, NEW r \in Requests, NEW q, req' = [req EXCEPT ![r] = q],
           q.step = "ended", q.job = req[r].job, req[r].step # "ended", Release(r)
    PROVE  PlacesSound'
  <1>1. ~Holds(q) /\ (Holds(req[r]) <=> Op(r) \in {"command", "stopped"})
    BY DEF Holds, Op
  <1>2. llm' # NoRequest => llm' = llm /\ llm # r
    BY DEF Release
  <1>3. Holds(req[r]) => commands' = commands - 1
    BY <1>1 DEF Release
  <1>4. ~Holds(req[r]) => commands' = commands
    BY <1>1 DEF Release
  <1> QED
    BY <1>1, <1>2, <1>3, <1>4, PlacesMove

(* A request goes on to another step, and nothing else changes.            *)
LEMMA GoesOn ==
    ASSUME SessionInv, NEW r \in Requests, NEW step \in Steps \ {"ended"}, At(r, step),
           UNCHANGED <<thread, effects>>, req[r].step \notin {"ended", "running"},
           \A q : /\ IsRequest(q, Steps) /\ q.step = step /\ q.job = req[r].job
                  /\ q.did = req[r].did /\ q.log = req[r].log
                  => Sound(q, group[r])
    PROVE  SessionInv'
  <1> DEFINE q == [req[r] EXCEPT !.step = step]
  <1>1. /\ SessionInv /\ IsRequest(req[r], Steps) /\ group \in [Requests -> SUBSET Members]
        /\ files \subseteq Names
    BY DEF SessionInv, RequestsSound
  <1>2. req' = [req EXCEPT ![r] = q]
    BY DEF At
  <1>3. /\ IsRequest(q, Steps) /\ q.step = step /\ q.job = req[r].job
        /\ q.did = req[r].did /\ q.log = req[r].log
    BY <1>1, Stepped
  <1> HIDE DEF q
  <1>4. UNCHANGED <<thread, files, group, commands, llm>>
    BY DEF effects
  <1>5. Sound(q, group'[r])
    BY <1>3, <1>4
  <1>6. ThreadsSound'
    BY <1>1, <1>2, <1>4, ThreadsStay
  <1>7. PlacesSound'
    <2>1. Holds(q) <=> Holds(req[r])
      BY <1>3 DEF Holds
    <2>2. llm = r => q.job[1] = "llm" /\ q.step # "ended"
      BY <1>1, <1>3, ThreadPoolAssumption DEF SessionInv, PlacesSound
    <2> QED
      BY <1>1, <1>2, <1>4, <2>1, <2>2, PlacesMove
  <1> QED
    BY <1>1, <1>2, <1>3, <1>4, <1>5, <1>6, <1>7, RequestMoves

LEMMA SoundRequest ==
    ASSUME SessionInv, NEW r \in Requests
    PROVE  IsRequest(req[r], Steps) /\ Sound(req[r], group[r])
  BY DEF SessionInv, RequestsSound

LEMMA CommandExitsKeeps ==
    ASSUME SessionInv, NEW r \in Requests, CommandExits(r)
    PROVE  SessionInv'
  <1>1. req[r].step = "command" /\ At(r, "drain") /\ UNCHANGED <<thread, effects>>
    BY DEF CommandExits
  <1>2. ASSUME NEW q, IsRequest(q, Steps), q.step = "drain", q.job = req[r].job,
               q.did = req[r].did, q.log = req[r].log
        PROVE  Sound(q, group[r])
    BY <1>1, <1>2, SoundRequest DEF Sound
  <1> QED
    BY <1>1, <1>2, GoesOn DEF Steps

LEMMA SpawnedKeeps ==
    ASSUME SessionInv, NEW r \in Requests, Spawned(r)
    PROVE  SessionInv'
  <1>1. req[r].step = "spawn" /\ At(r, "command") /\ UNCHANGED <<thread, effects>>
    BY DEF Spawned
  <1>2. ASSUME NEW q, IsRequest(q, Steps), q.step = "command", q.job = req[r].job,
               q.did = req[r].did, q.log = req[r].log
        PROVE  Sound(q, group[r])
    BY <1>1, <1>2, SoundRequest DEF Sound
  <1> QED
    BY <1>1, <1>2, GoesOn DEF Steps

LEMMA DrainedKeeps ==
    ASSUME SessionInv, NEW r \in Requests, Drained(r)
    PROVE  SessionInv'
  <1>1. req[r].step = "drain" /\ At(r, "emit") /\ UNCHANGED <<thread, effects>>
    BY DEF Drained
  <1>2. ASSUME NEW q, IsRequest(q, Steps), q.step = "emit", q.job = req[r].job,
               q.did = req[r].did, q.log = req[r].log
        PROVE  Sound(q, group[r])
    BY <1>1, <1>2, SoundRequest DEF Sound
  <1> QED
    BY <1>1, <1>2, GoesOn DEF Steps

LEMMA WaitEndsKeeps ==
    ASSUME SessionInv, NEW r \in Requests, WaitEnds(r)
    PROVE  SessionInv'
  <1>1. req[r].step = "wait" /\ At(r, "emit") /\ UNCHANGED <<thread, effects>>
    BY DEF WaitEnds
  <1>2. ASSUME NEW q, IsRequest(q, Steps), q.step = "emit", q.job = req[r].job,
               q.did = req[r].did, q.log = req[r].log
        PROVE  Sound(q, group[r])
    BY <1>1, <1>2, SoundRequest DEF Sound
  <1> QED
    BY <1>1, <1>2, GoesOn DEF Steps

LEMMA LlmEndsKeeps ==
    ASSUME SessionInv, NEW r \in Requests, LlmEnds(r)
    PROVE  SessionInv'
  <1>1. req[r].step = "llm" /\ At(r, "emit") /\ UNCHANGED <<thread, effects>>
    BY DEF LlmEnds
  <1>2. ASSUME NEW q, IsRequest(q, Steps), q.step = "emit", q.job = req[r].job,
               q.did = req[r].did, q.log = req[r].log
        PROVE  Sound(q, group[r])
    BY <1>1, <1>2, SoundRequest DEF Sound
  <1> QED
    BY <1>1, <1>2, GoesOn DEF Steps

LEMMA WordsAre ==
    /\ <<"command">>[1] = "command" /\ <<"refused">>[1] = "refused"
    /\ <<"llm">>[1] = "llm" /\ <<"stopped">>[1] = "stopped" /\ <<"none">>[1] = "none"
    /\ <<"nothing">>[1] = "nothing" /\ <<"changed">>[1] = "changed"
    /\ <<"failed">>[1] = "failed" /\ <<"stopping">>[1] = "stopping"
    /\ <<"let go">>[1] = "let go" /\ <<"refused">>[1] = "refused"
    /\ <<"nothing">> # <<"changed">> /\ <<"failed">> # <<"changed">>
    /\ <<"stopping">> # <<"changed">> /\ <<"let go">> # <<"changed">>
    /\ <<"cut short">>[1] = "cut short" /\ <<"cut short">> # <<"changed">>
    /\ <<"nothing">> # <<"cut short">> /\ <<"changed">> # <<"cut short">>
    /\ <<"failed">> # <<"cut short">> /\ <<"stopping">> # <<"cut short">>
    /\ <<"let go">> # <<"cut short">>
    /\ \A j \in FileJobs : j[1] \notin {"command", "refused", "llm", "stopped", "none"}
  BY FileJobsAre

LEMMA SoundBegun ==
    ASSUME NEW step \in {"queued", "emit", "spawn", "llm"}, NEW job, NEW processes,
           step = "queued" => job \in FileJobs,
           step = "spawn" => job[1] = "command", step = "llm" => job[1] = "llm",
           job[1] # "stopped"
    PROVE  Sound(Begun(step, job), processes)
  <1> DEFINE q == Begun(step, job)
  <1>1. q.step = step /\ q.job = job /\ q.did = <<"nothing">> /\ q.log = "none"
    BY BegunIs DEF Steps
  <1> HIDE DEF q
  <1>2. Sound(q, processes)
    BY <1>1, WordsAre DEF Sound
  <1> QED
    BY <1>2 DEF q

(* A new request begins.                                                   *)
LEMMA Begins ==
    ASSUME SessionInv, NEW r \in Requests, req[r].step = "idle",
           NEW step \in Steps \ {"idle", "ended"}, NEW job,
           req' = [req EXCEPT ![r] = Begun(step, job)],
           thread' = thread, files' = files,
           group' \in [Requests -> SUBSET Members],
           \A s \in Requests \ {r} : group'[s] = group[s],
           Sound(Begun(step, job), group'[r]),
           job[1] \in {"command", "stopped"} => commands' = commands + 1,
           job[1] \notin {"command", "stopped"} => commands' = commands,
           llm' = llm \/ (llm' = r /\ job[1] = "llm")
    PROVE  SessionInv'
  <1> DEFINE q == Begun(step, job)
  <1>1. IsRequest(q, Steps) /\ q.step = step /\ q.job = job
    BY BegunIs
  <1>2. req[r] = Idle /\ req[r].job = <<"none">>
    BY SoundRequest, IdleIs DEF Sound
  <1> HIDE DEF q
  <1>3. req' = [req EXCEPT ![r] = q] /\ Sound(q, group'[r])
    BY DEF q
  <1>4. ThreadsSound'
    BY <1>3, ThreadsStay
  <1>5. PlacesSound'
    <2>1. ~Holds(req[r]) /\ (Holds(q) <=> job[1] \in {"command", "stopped"})
      BY <1>1, <1>2 DEF Holds
    <2>2. llm # NoRequest => llm # r
      BY <1>2 DEF SessionInv, PlacesSound
    <2>3. llm' # NoRequest =>
            \/ llm' = r /\ q.job[1] = "llm" /\ q.step # "ended"
            \/ llm' = llm /\ llm # r
      BY <1>1, <2>2
    <2> QED
      BY <1>3, <2>1, <2>3, PlacesMove
  <1>6. files' \subseteq Names
    BY DEF SessionInv
  <1> QED
    BY <1>1, <1>3, <1>4, <1>5, <1>6, RequestMoves

LEMMA FileBeginKeeps ==
    ASSUME SessionInv, NEW r \in Requests, NEW j \in FileJobs, FileBegin(r, j)
    PROVE  SessionInv'
  <1>1. PICK step \in {"queued", "emit"} : req' = [req EXCEPT ![r] = Begun(step, j)]
    BY DEF FileBegin
  <1>2. Sound(Begun(step, j), group'[r])
    <2>1. j[1] # "stopped"
      BY WordsAre
    <2> QED
      BY <1>1, <2>1, SoundBegun
  <1>3. group \in [Requests -> SUBSET Members] /\ req[r].step = "idle"
        /\ UNCHANGED <<thread, files, group, commands, llm>>
    BY DEF SessionInv, RequestsSound, FileBegin, effects
  <1>4. step \in Steps \ {"idle", "ended"} /\ j[1] \notin {"command", "stopped"}
    BY <1>1, FileJobsAre DEF Steps
  <1> QED
    BY <1>1, <1>2, <1>3, <1>4, Begins

LEMMA CommandRefusedKeeps ==
    ASSUME SessionInv, NEW r \in Requests, CommandRefused(r)
    PROVE  SessionInv'
  <1>1. group \in [Requests -> SUBSET Members] /\ req[r].step = "idle"
        /\ UNCHANGED <<thread, files, group, llm>>
    BY DEF SessionInv, RequestsSound, CommandRefused
  <1>2. \A job : job \in {<<"refused">>, <<"command">>} => Sound(Begun("emit", job), group'[r])
    BY SoundBegun, WordsAre
  <1>3. CASE req' = [req EXCEPT ![r] = Begun("emit", <<"refused">>)] /\ commands' = commands
    BY <1>1, <1>2, <1>3, Begins, WordsAre DEF Steps
  <1>4. CASE /\ commands' = commands + 1
             /\ req' = [req EXCEPT ![r] = Begun("emit", <<"command">>)]
    BY <1>1, <1>2, <1>4, Begins, WordsAre DEF Steps
  <1> QED
    BY <1>3, <1>4 DEF CommandRefused

LEMMA CommandBeginKeeps ==
    ASSUME SessionInv, NEW r \in Requests, CommandBegin(r)
    PROVE  SessionInv'
  <1>1. /\ group \in [Requests -> SUBSET Members] /\ req[r].step = "idle"
        /\ UNCHANGED <<thread, files, llm>> /\ commands' = commands + 1
        /\ req' = [req EXCEPT ![r] = Begun("spawn", <<"command">>)]
        /\ group' = [group EXCEPT ![r] = {"leader"}]
    BY DEF SessionInv, RequestsSound, CommandBegin
  <1>2. /\ group' \in [Requests -> SUBSET Members]
        /\ \A s \in Requests \ {r} : group'[s] = group[s]
    BY <1>1 DEF Members
  <1>3. Sound(Begun("spawn", <<"command">>), group'[r])
    BY SoundBegun, WordsAre
  <1> QED
    BY <1>1, <1>2, <1>3, Begins, WordsAre DEF Steps

LEMMA LlmRefusedKeeps ==
    ASSUME SessionInv, NEW r \in Requests, LlmRefused(r)
    PROVE  SessionInv'
  <1>1. /\ group \in [Requests -> SUBSET Members] /\ req[r].step = "idle"
        /\ UNCHANGED <<thread, files, group, commands, llm>>
        /\ req' = [req EXCEPT ![r] = Begun("emit", <<"refused">>)]
    BY DEF SessionInv, RequestsSound, LlmRefused, effects
  <1>2. Sound(Begun("emit", <<"refused">>), group'[r])
    BY SoundBegun, WordsAre
  <1> QED
    BY <1>1, <1>2, Begins, WordsAre DEF Steps

LEMMA LlmBeginKeeps ==
    ASSUME SessionInv, NEW r \in Requests, LlmBegin(r)
    PROVE  SessionInv'
  <1>1. /\ group \in [Requests -> SUBSET Members] /\ req[r].step = "idle"
        /\ UNCHANGED <<thread, files, group, commands>> /\ llm' = r
        /\ req' = [req EXCEPT ![r] = Begun("llm", <<"llm">>)]
    BY DEF SessionInv, RequestsSound, LlmBegin
  <1>2. Sound(Begun("llm", <<"llm">>), group'[r])
    BY SoundBegun, WordsAre
  <1> QED
    BY <1>1, <1>2, Begins, WordsAre DEF Steps

(* A request ends with a record or without, and nothing of it goes on.     *)
LEMMA Ends ==
    ASSUME SessionInv, NEW r \in Requests, req[r].step \notin {"ended", "running"},
           NEW q, IsRequest(q, Steps), q.step = "ended", q.job = req[r].job,
           Sound(q, group[r]), req' = [req EXCEPT ![r] = q], Release(r),
           UNCHANGED <<thread, files, group>>
    PROVE  SessionInv'
  <1>1. files \subseteq Names /\ group \in [Requests -> SUBSET Members]
    BY DEF SessionInv, RequestsSound
  <1>2. ThreadsSound'
    BY ThreadsStay
  <1>3. PlacesSound'
    BY Released
  <1> QED
    BY <1>1, <1>2, <1>3, RequestMoves

LEMMA EmitKeeps ==
    ASSUME SessionInv, NEW r \in Requests, Emit(r)
    PROVE  SessionInv'
  <1>1. /\ req[r].step = "emit" /\ Release(r) /\ UNCHANGED <<thread, files, group>>
        /\ \E outcome \in {"kept", "failed"} :
              req' = [req EXCEPT ![r].step = "ended", ![r].log = outcome]
    BY DEF Emit
  <1>2. PICK outcome \in {"kept", "failed"} :
           req' = [req EXCEPT ![r].step = "ended", ![r].log = outcome]
    BY <1>1
  <1> DEFINE p == req[r]
             q == [p EXCEPT !.step = "ended", !.log = outcome]
  <1>3. /\ req' = [req EXCEPT ![r] = q] /\ IsRequest(p, Steps) /\ Sound(p, group[r])
        /\ p.step = "emit" /\ p.job = req[r].job
    BY <1>1, <1>2, SoundRequest
  <1> HIDE DEF p
  <1>4. /\ IsRequest(q, Steps) /\ q.step = "ended" /\ q.job = p.job /\ q.did = p.did
        /\ q.log # "none"
    BY <1>3 DEF IsRequest, Steps
  <1> HIDE DEF q
  <1>5. Sound(q, group[r])
    BY <1>3, <1>4 DEF Sound
  <1> QED
    BY <1>1, <1>3, <1>4, <1>5, Ends

LEMMA LlmCancelledKeeps ==
    ASSUME SessionInv, NEW r \in Requests, LlmCancelled(r)
    PROVE  SessionInv'
  <1> DEFINE p == req[r]
             q == [p EXCEPT !.step = "ended", !.cancels = 1]
  <1>1. /\ req[r].step = "llm" /\ Release(r) /\ UNCHANGED <<thread, files, group>>
        /\ req' = [req EXCEPT ![r] = q] /\ IsRequest(p, Steps) /\ Sound(p, group[r])
        /\ p.step = "llm" /\ p.job = req[r].job
    BY SoundRequest DEF LlmCancelled
  <1> HIDE DEF p
  <1>2. /\ IsRequest(q, Steps) /\ q.step = "ended" /\ q.job = p.job /\ q.did = p.did
    BY <1>1 DEF IsRequest, Steps
  <1> HIDE DEF q
  <1>3. /\ q.job[1] = "llm" /\ q.did # <<"changed">> /\ q.did[1] # "listed"
        /\ q.did # <<"cut short">>
    BY <1>1, <1>2 DEF Sound
  <1>5. q.job \notin FileJobs
    BY <1>3, WordsAre
  <1>4. Sound(q, group[r])
    BY <1>2, <1>3, <1>5 DEF Sound
  <1> QED
    BY <1>1, <1>2, <1>4, Ends

LEMMA StopCancelledKeeps ==
    ASSUME SessionInv, NEW r \in Requests, StopCancelled(r)
    PROVE  SessionInv'
  <1> DEFINE p == req[r]
             q == [p EXCEPT !.step = "ended", !.cancels = 2, !.did = <<"let go">>]
  <1>1. /\ req[r].step \in {"term", "wait"} /\ Release(r)
        /\ UNCHANGED <<thread, files, group>>
        /\ req' = [req EXCEPT ![r] = q] /\ IsRequest(p, Steps) /\ Sound(p, group[r])
        /\ p.step \in {"term", "wait"} /\ p.job = req[r].job
    BY SoundRequest DEF StopCancelled
  <1> HIDE DEF p
  <1>2. /\ IsRequest(q, Steps) /\ q.step = "ended" /\ q.job = p.job /\ q.did = <<"let go">>
        /\ q.cancels = 2
    BY <1>1 DEF IsRequest, Steps
  <1> HIDE DEF q
  <1>3. /\ q.job[1] \in {"command", "stopped"} /\ q.did # <<"changed">>
        /\ q.did[1] # "listed" /\ q.did # <<"cut short">>
    BY <1>1, <1>2, WordsAre DEF Sound
  <1>5. q.job \notin FileJobs
    BY <1>3, WordsAre
  <1>6. q.cancels >= 2
    <2>1. q.cancels = 2
      BY <1>2
    <2> QED
      BY <2>1
  <1>4. Sound(q, group[r])
    BY <1>2, <1>3, <1>5, <1>6 DEF Sound
  <1> QED
    BY <1>1, <1>2, <1>4, Ends

(* A command cancelled while it is started loses its own process.          *)
LEMMA SpawnCancelledKeeps ==
    ASSUME SessionInv, NEW r \in Requests, SpawnCancelled(r)
    PROVE  SessionInv'
  <1> DEFINE p == req[r]
             q == [p EXCEPT !.step = "ended", !.cancels = 1, !.did = <<"cut short">>]
  <1>1. /\ req[r].step = "spawn" /\ Release(r) /\ UNCHANGED <<thread, files>>
        /\ req' = [req EXCEPT ![r] = q] /\ IsRequest(p, Steps) /\ Sound(p, group[r])
        /\ p.step = "spawn" /\ p.job = req[r].job
    BY SoundRequest DEF SpawnCancelled
  <1>2. /\ group' = [group EXCEPT ![r] = group[r] \ {"leader"}]
        /\ group \in [Requests -> SUBSET Members] /\ files \subseteq Names
    BY DEF SpawnCancelled, SessionInv, RequestsSound
  <1>3. /\ group' \in [Requests -> SUBSET Members] /\ "leader" \notin group'[r]
        /\ \A s \in Requests \ {r} : group'[s] = group[s]
    BY <1>2
  <1> HIDE DEF p
  <1>4. /\ IsRequest(q, Steps) /\ q.step = "ended" /\ q.job = p.job
        /\ q.did = <<"cut short">>
    BY <1>1 DEF IsRequest, Steps
  <1> HIDE DEF q
  <1>5. /\ q.job[1] = "command" /\ q.did # <<"changed">> /\ q.did[1] # "listed"
    BY <1>1, <1>4, WordsAre DEF Sound
  <1>6. q.job \notin FileJobs
    BY <1>5, WordsAre
  <1>7. Sound(q, group'[r])
    BY <1>3, <1>4, <1>5, <1>6 DEF Sound
  <1>8. ThreadsSound'
    BY <1>1, ThreadsStay
  <1>9. PlacesSound'
    BY <1>1, <1>4, Released
  <1> QED
    BY <1>1, <1>2, <1>3, <1>4, <1>7, <1>8, <1>9, RequestMoves

LEMMA EffectForgottenKeeps ==
    ASSUME SessionInv, NEW r \in Requests, EffectForgotten(r)
    PROVE  SessionInv'
  <1>1. /\ req[r].step = "ended" /\ req' = [req EXCEPT ![r] = Idle]
        /\ group' = [group EXCEPT ![r] = {}] /\ UNCHANGED <<thread, files, commands, llm>>
        /\ group \in [Requests -> SUBSET Members] /\ files \subseteq Names
    BY DEF EffectForgotten, SessionInv, RequestsSound
  <1>2. group' \in [Requests -> SUBSET Members]
        /\ \A s \in Requests \ {r} : group'[s] = group[s]
    BY <1>1
  <1>3. ThreadsSound'
    BY <1>1, ThreadsStay
  <1>4. PlacesSound'
    <2>1. ~Holds(req[r]) /\ ~Holds(Idle)
      BY <1>1, IdleIs, WordsAre DEF Holds
    <2>2. llm # NoRequest => llm # r
      BY <1>1 DEF SessionInv, PlacesSound
    <2> QED
      BY <1>1, <2>1, <2>2, PlacesMove
  <1> QED
    BY <1>1, <1>2, <1>3, <1>4, IdleIs, RequestMoves

LEMMA FileCancelledKeeps ==
    ASSUME SessionInv, NEW r \in Requests, FileCancelled(r)
    PROVE  SessionInv'
  <1> DEFINE p == req[r]
             q == [p EXCEPT !.cancels = @ + 1]
  <1>1. /\ req[r].step \in {"queued", "running"} /\ UNCHANGED <<thread, effects>>
        /\ req' = [req EXCEPT ![r] = q] /\ IsRequest(p, Steps) /\ Sound(p, group[r])
        /\ p.step = req[r].step /\ p.job = req[r].job
    BY SoundRequest DEF FileCancelled, FileHeld
  <1> HIDE DEF p
  <1>2. /\ IsRequest(q, Steps) /\ q.step = p.step /\ q.job = p.job /\ q.did = p.did
    BY <1>1 DEF IsRequest
  <1> HIDE DEF q
  <1>3. Sound(q, group[r])
    BY <1>1, <1>2 DEF Sound
  <1>4. /\ files \subseteq Names /\ group \in [Requests -> SUBSET Members]
        /\ UNCHANGED <<files, group, commands, llm>>
    BY <1>1 DEF SessionInv, RequestsSound, effects
  <1>5. ThreadsSound'
    BY <1>1, <1>2, ThreadsStay
  <1>6. PlacesSound'
    <2>1. Holds(q) <=> Holds(req[r])
      BY <1>1, <1>2 DEF Holds
    <2>2. llm # NoRequest => llm # r
      BY <1>1, FileJobsAre DEF SessionInv, PlacesSound, FileCancelled
    <2> QED
      BY <1>1, <1>4, <2>1, <2>2, PlacesMove
  <1> QED
    BY <1>1, <1>2, <1>3, <1>4, <1>5, <1>6, RequestMoves

(* The processes of a command's group change with its request, or alone.   *)
LEMMA GroupAndRequest ==
    ASSUME SessionInv, NEW r \in Requests, NEW processes \in SUBSET Members,
           NEW q, IsRequest(q, Steps), req' = [req EXCEPT ![r] = q],
           group' = [group EXCEPT ![r] = processes], Sound(q, processes),
           Holds(q) <=> Holds(req[r]), req[r].step \notin {"running", "llm"},
           req[r].job[1] # "llm", UNCHANGED <<thread, files, commands, llm>>
    PROVE  SessionInv'
  <1>1. files \subseteq Names /\ group \in [Requests -> SUBSET Members]
    BY DEF SessionInv, RequestsSound
  <1>2. /\ group' \in [Requests -> SUBSET Members] /\ group'[r] = processes
        /\ \A s \in Requests \ {r} : group'[s] = group[s]
    BY <1>1
  <1>3. ThreadsSound'
    BY ThreadsStay
  <1>4. PlacesSound'
    <2>1. llm # NoRequest => llm # r
      BY DEF SessionInv, PlacesSound
    <2> QED
      BY <2>1, PlacesMove
  <1> QED
    BY <1>1, <1>2, <1>3, <1>4, RequestMoves

(* The group ends, or shrinks, on its own.                                 *)
LEMMA GroupMovesKeeps ==
    ASSUME SessionInv, NEW r \in Requests, GroupMoves(r)
    PROVE  SessionInv'
  <1>1. /\ RequestsSound /\ group[r] # {} /\ group' \in [Requests -> SUBSET Members]
        /\ \A s \in Requests \ {r} : group'[s] = group[s]
        /\ UNCHANGED <<req, thread, files, commands, llm>>
    BY DEF GroupMoves, SessionInv, RequestsSound
  <1>2. Sound(req[r], group[r]) => Sound(req[r], group'[r])
    <2>1. "leader" \in group'[r] => "leader" \in group[r]
      BY <1>1 DEF GroupMoves, RequestsSound
    <2> QED
      BY <1>1, <2>1 DEF Sound
  <1>3. RequestsSound'
    BY <1>1, <1>2 DEF RequestsSound
  <1>4. ThreadsSound' /\ PlacesSound' /\ files' \subseteq Names
    BY <1>1 DEF SessionInv, ThreadsSound, PlacesSound
  <1> QED
    BY <1>3, <1>4 DEF SessionInv

LEMMA OthersCreateKeeps ==
    ASSUME SessionInv, NEW n \in Names, OthersCreate(n)
    PROVE  SessionInv'
  <1>1. UNCHANGED <<req, thread, group, commands, llm>> /\ files' \subseteq Names
    BY DEF OthersCreate, SessionInv
  <1>2. RequestsSound' /\ ThreadsSound' /\ PlacesSound'
    BY <1>1 DEF SessionInv, RequestsSound, ThreadsSound, PlacesSound
  <1> QED
    BY <1>1, <1>2 DEF SessionInv

LEMMA TermEndsKeeps ==
    ASSUME SessionInv, NEW r \in Requests, TermEnds(r)
    PROVE  SessionInv'
  <1> DEFINE p == req[r]
             q == [p EXCEPT !.step = "wait"]
  <1>1. /\ req' = [req EXCEPT ![r] = q] /\ IsRequest(p, Steps) /\ Sound(p, group[r])
        /\ p.step = "term" /\ UNCHANGED <<thread, files, commands, llm>>
        /\ group \in [Requests -> SUBSET Members] /\ p = req[r]
        /\ (group' = group /\ group[r] = {}) \/ group' = [group EXCEPT ![r] = {}]
    BY SoundRequest DEF TermEnds, GroupGone, At, SessionInv, RequestsSound
  <1>2. group' = [group EXCEPT ![r] = {}]
    BY <1>1
  <1> HIDE DEF p
  <1>3. /\ IsRequest(q, Steps) /\ q.step = "wait" /\ q.job = p.job /\ q.did = p.did
    BY <1>1, Stepped DEF Steps
  <1> HIDE DEF q
  <1>4. /\ p.job[1] = "stopped" /\ p.did # <<"changed">> /\ p.did[1] # "listed"
        /\ p.did # <<"cut short">>
    BY <1>1 DEF Sound
  <1>5. Sound(q, {})
    BY <1>3, <1>4 DEF Sound
  <1>6. Holds(q) <=> Holds(p)
    BY <1>1, <1>3 DEF Holds
  <1> QED
    BY <1>1, <1>2, <1>3, <1>4, <1>5, <1>6, GroupAndRequest

(* A command is told to stop, or has stopped by itself.                    *)
LEMMA TerminateKeeps ==
    ASSUME SessionInv, NEW r \in Requests, NEW cancels \in {0, 1},
           req[r].step \in {"command", "drain", "term", "wait"}, Terminate(r, cancels),
           UNCHANGED <<thread, files, commands, llm>>
    PROVE  SessionInv'
  <1> DEFINE p == req[r]
  <1>1. /\ IsRequest(p, Steps) /\ Sound(p, group[r]) /\ p = req[r]
        /\ p.step \in {"command", "drain", "term", "wait"}
        /\ group \in [Requests -> SUBSET Members]
    BY SoundRequest DEF SessionInv, RequestsSound
  <1>2. /\ p.job[1] \in {"command", "stopped"} /\ Holds(p) /\ p.did # <<"changed">>
        /\ p.did[1] # "listed" /\ p.did # <<"cut short">>
    BY <1>1 DEF Sound, Holds
  <1>3. CASE /\ "leader" \in group[r]
             /\ \E g \in SUBSET group[r] : group' = [group EXCEPT ![r] = g]
             /\ req' = [req EXCEPT ![r] =
                          [[p EXCEPT !.step = "term", !.cancels = cancels,
                                     !.did = <<"stopping">>] EXCEPT !.job = <<"stopped">>]]
    <2> DEFINE n == [p EXCEPT !.step = "term", !.cancels = cancels, !.did = <<"stopping">>]
               q == [n EXCEPT !.job = <<"stopped">>]
    <2>1. PICK g \in SUBSET group[r] : group' = [group EXCEPT ![r] = g]
      BY <1>3
    <2>2. req' = [req EXCEPT ![r] = q] /\ g \in SUBSET Members
      BY <1>1, <1>3
    <2> HIDE DEF p
    <2>3. /\ IsRequest(q, Steps) /\ q.step = "term" /\ q.job = <<"stopped">>
          /\ q.did = <<"stopping">>
      <3>1. cancels \in Nat /\ "term" \in Steps /\ IsRequest(p, Steps)
        BY <1>1 DEF Steps
      <3>2. IsRequest(n, Steps) /\ n.step = "term" /\ n.did = <<"stopping">>
        BY ONLY <3>1 DEF IsRequest
      <3> HIDE DEF n
      <3> QED
        BY ONLY <3>2 DEF IsRequest
    <2> HIDE DEF q
    <2>4. /\ q.step = "term" /\ q.job[1] = "stopped" /\ q.did # <<"changed">>
          /\ q.did[1] # "listed" /\ q.did # <<"cut short">>
      BY <2>3, WordsAre
    <2>5. Sound(q, g) /\ Holds(q)
      <3> HIDE <2>3, <1>3, <2>2
      <3> QED
        BY <2>4 DEF Sound, Holds
    <2> QED
      BY <1>1, <1>2, <2>1, <2>2, <2>3, <2>5, GroupAndRequest
  <1>4. CASE /\ "leader" \notin group[r] /\ group' = group
             /\ req' = [req EXCEPT ![r] =
                          [p EXCEPT !.step = "wait", !.cancels = cancels,
                                    !.did = IF p.step = "term" THEN <<"let go">> ELSE p.did]]
    <2> DEFINE did == IF p.step = "term" THEN <<"let go">> ELSE p.did
               q == [p EXCEPT !.step = "wait", !.cancels = cancels, !.did = did]
    <2>1. req' = [req EXCEPT ![r] = q] /\ group[r] \in SUBSET Members
          /\ group' = [group EXCEPT ![r] = group[r]]
      BY <1>1, <1>4
    <2>2. did # <<"changed">> /\ did[1] # "listed" /\ did # <<"cut short">> /\ (p.step # "term" => did = p.did)
          /\ (p.step = "term" => did = <<"let go">>)
      BY <1>2, WordsAre
    <2> HIDE DEF p, did
    <2>3. /\ IsRequest(q, Steps) /\ q.step = "wait" /\ q.job = p.job /\ q.did = did
      <3>1. cancels \in Nat /\ "wait" \in Steps /\ IsRequest(p, Steps)
        BY <1>1 DEF Steps
      <3> QED
        BY ONLY <3>1 DEF IsRequest
    <2> HIDE DEF q
    <2>4. Sound(q, group[r])
      <3>1. /\ q.step = "wait" /\ q.job[1] \in {"command", "stopped"}
            /\ q.did # <<"changed">> /\ q.did[1] # "listed" /\ q.did # <<"cut short">>
        BY <1>2, <2>2, <2>3
      <3>2. q.job[1] = "stopped" /\ q.did # <<"let go">> => group[r] = {}
        <4>1. p.step \in {"command", "drain"} => p.job[1] = "command"
          BY <1>1 DEF Sound
        <4>2. p.step = "wait" /\ p.job[1] = "stopped" /\ p.did # <<"let go">> => group[r] = {}
          BY <1>1 DEF Sound
        <4> QED
          BY <1>1, <2>2, <2>3, <4>1, <4>2
      <3> HIDE <1>4, <2>1
      <3> QED
        BY <3>1, <3>2 DEF Sound
    <2>5. Holds(q)
      BY <1>2, <2>3 DEF Holds
    <2> QED
      BY <1>1, <1>2, <2>1, <2>3, <2>4, <2>5, GroupAndRequest
  <1> QED
    BY <1>3, <1>4 DEF Terminate

LEMMA StopsKeep ==
    ASSUME SessionInv, NEW r \in Requests, TimesOut(r) \/ CommandCancelled(r)
    PROVE  SessionInv'
  BY TerminateKeeps DEF TimesOut, CommandCancelled

(* A thread takes a file's work, or the work was given up before.          *)
LEMMA FileStartsKeeps ==
    ASSUME SessionInv, NEW r \in Requests, NEW t \in Threads, FileStarts(t, r)
    PROVE  SessionInv'
  <1>1. /\ IsRequest(req[r], Steps) /\ Sound(req[r], group[r])
        /\ group \in [Requests -> SUBSET Members] /\ files \subseteq Names
        /\ UNCHANGED <<files, group, commands, llm>>
        /\ req[r].step = "queued" /\ req[r].job \in FileJobs
    BY SoundRequest DEF SessionInv, RequestsSound, FileStarts, effects
  <1>2. req[r].did = <<"nothing">> /\ llm # r /\ ~Holds(req[r])
        /\ req[r].job[1] \notin {"command", "stopped", "llm"}
    <2>1. req[r].did = <<"nothing">>
      BY <1>1 DEF Sound
    <2>2. req[r].job[1] \notin {"command", "stopped", "llm"}
      BY <1>1, WordsAre
    <2> QED
      BY <2>1, <2>2, ThreadPoolAssumption DEF Holds, SessionInv, PlacesSound
  <1>3. ASSUME NEW step \in {"running", "ended"}, At(r, step), ThreadsSound'
        PROVE  SessionInv'
    <2> DEFINE q == [req[r] EXCEPT !.step = step]
    <2>1. req' = [req EXCEPT ![r] = q]
      BY <1>3 DEF At
    <2>2. step \in Steps
      BY DEF Steps
    <2>3. IsRequest(q, Steps) /\ q.step = step /\ q.job = req[r].job /\ q.did = req[r].did
      BY <1>1, <2>2, Stepped
    <2> HIDE DEF q
    <2>4. q.did # <<"changed">> /\ q.did = <<"nothing">> /\ q.job \in FileJobs
          /\ q.job[1] \notin {"command", "stopped", "llm"}
      BY <1>1, <1>2, <2>3, WordsAre
    <2>5. Sound(q, group[r])
      BY <2>3, <2>4 DEF Sound
    <2>6. PlacesSound'
      <3>1. ~Holds(q)
        BY <2>4 DEF Holds
      <3> QED
        BY <1>1, <1>2, <2>1, <3>1, PlacesMove
    <2> QED
      BY <1>1, <1>3, <2>1, <2>3, <2>5, <2>6, RequestMoves
  <1>4. CASE Takes(t, r) /\ At(r, "running")
    <2>1. /\ ThreadsSound /\ req = [s \in Requests |-> req[s]] /\ thread[t] = Free
          /\ thread' = [thread EXCEPT ![t] = [owner |-> r, job |-> req[r].job, at |-> "begin"]]
      BY <1>4 DEF SessionInv, RequestsSound, Takes
    <2>2. /\ \A s \in Requests \ {r} : req'[s] = req[s]
          /\ req'[r].step = "running"
      <3> DEFINE q == [req[r] EXCEPT !.step = "running"]
      <3>1. req' = [req EXCEPT ![r] = q]
        BY <1>4 DEF At
      <3>2. q.step = "running"
        BY <1>1, Stepped DEF Steps
      <3> HIDE DEF q
      <3> QED
        BY <2>1, <3>1, <3>2
    <2>3. /\ thread' = [u \in Threads |-> thread'[u]]
          /\ thread'[t].owner = r /\ thread'[t].job = req[r].job
          /\ \A u \in Threads \ {t} : thread'[u] = thread[u]
      BY <2>1 DEF ThreadsSound
    <2>4. \A u \in Threads : thread[u].owner # r
      BY <1>1, <2>1, ThreadPoolAssumption DEF ThreadsSound, Free
    <2>5. ThreadsSound'
      BY <1>1, <2>1, <2>2, <2>3, <2>4 DEF ThreadsSound
    <2> QED
      BY <1>3, <1>4, <2>5
  <1>5. CASE At(r, "ended") /\ thread' = thread
    <2> DEFINE q == [req[r] EXCEPT !.step = "ended"]
    <2>1. req' = [req EXCEPT ![r] = q]
      BY <1>5 DEF At
    <2> HIDE DEF q
    <2>2. ThreadsSound'
      BY <1>1, <1>5, <2>1, ThreadsStay
    <2> QED
      BY <1>3, <1>5, <2>2
  <1> QED
    BY <1>4, <1>5 DEF FileStarts

(* The thread that works does so for one request.                          *)
LEMMA FileWorker ==
    ASSUME SessionInv, NEW t \in Threads, thread[t].job \in FileJobs
    PROVE  /\ thread[t].owner \in Requests /\ req[thread[t].owner].step = "running"
           /\ \A u \in Threads \ {t} : thread[u].owner # thread[t].owner
  <1>1. thread[t] # Free
    BY FileJobsAre DEF Free
  <1> QED
    BY <1>1 DEF SessionInv, ThreadsSound

(* The thread is done, and its request goes on to its record.              *)
LEMMA FileWorksKeeps ==
    ASSUME SessionInv, NEW t \in Threads, FileWorks(t)
    PROVE  SessionInv'
  <1> DEFINE r == thread[t].owner
             j == thread[t].job
             p == req[r]
  <1>1. /\ j \in FileJobs /\ r \in Requests /\ p.step = "running"
        /\ \A u \in Threads \ {t} : thread[u].owner # r
        /\ UNCHANGED <<group, commands, llm>>
    BY FileWorker DEF FileWorks
  <1>2. /\ IsRequest(p, Steps) /\ Sound(p, group[r]) /\ p = req[r]
        /\ group \in [Requests -> SUBSET Members] /\ files \subseteq Names
        /\ req = [s \in Requests |-> req[s]] /\ ThreadsSound
    BY <1>1, SoundRequest DEF SessionInv, RequestsSound
  <1>3. files' \subseteq Names
    <2>1. Effect(j) \subseteq Names
      BY <1>1, <1>2, FileJobsAre DEF Effect
    <2> QED
      BY <1>2, <2>1 DEF FileWorks
  <1>4. PICK did : did \in {<<"changed">>, <<"failed">>} /\ Returns(t, did)
    BY DEF FileWorks
  <1>5. p.job \in FileJobs /\ p.job[1] \notin {"command", "stopped", "llm"}
    <2>1. p.job \in FileJobs
      BY <1>1, <1>2 DEF Sound
    <2> QED
      BY <2>1, WordsAre
  <1> DEFINE q == [p EXCEPT !.step = "emit", !.did = did]
  <1>6. req' = [req EXCEPT ![r] = q]
    BY <1>1, <1>2, <1>4 DEF Returns
  <1>7. thread' = [thread EXCEPT ![t] = Free]
    BY <1>4 DEF Returns, Frees
  <1> HIDE DEF r, j, p
  <1>8. IsRequest(q, Steps) /\ q.step = "emit" /\ q.job = p.job /\ q.did = did
    BY ONLY <1>2 DEF IsRequest, Steps
  <1> HIDE DEF q
  <1>12. q.did[1] # "listed" /\ q.did # <<"cut short">>
    BY <1>4, <1>8, WordsAre
  <1>9. Sound(q, group[r]) /\ ~Holds(q) /\ ~Holds(p)
    BY <1>5, <1>8, <1>12 DEF Sound, Holds
  <1>10. ThreadsSound'
    <2>1. \A s \in Requests \ {r} : req'[s] = req[s]
      BY <1>2, <1>6
    <2>2. /\ thread' = [u \in Threads |-> thread'[u]] /\ thread'[t] = Free
          /\ \A u \in Threads \ {t} : thread'[u] = thread[u]
      BY <1>2, <1>7 DEF ThreadsSound
    <2>3. Free.owner \notin Requests
      BY ThreadPoolAssumption DEF Free
    <2> QED
      BY <1>1, <1>2, <2>1, <2>2, <2>3 DEF ThreadsSound
  <1>11. PlacesSound'
    <2>1. llm # r
      BY <1>1, <1>2, <1>5, ThreadPoolAssumption DEF SessionInv, PlacesSound
    <2> QED
      BY <1>1, <1>2, <1>6, <1>9, <2>1, PlacesMove
  <1> QED
    BY <1>1, <1>2, <1>3, <1>6, <1>8, <1>9, <1>10, <1>11, RequestMoves

LEMMA SessionStep ==
    SessionInv /\ SessionNext => SessionInv'
  BY EmitKeeps, EffectForgottenKeeps, FileCancelledKeeps, FileBeginKeeps, FileStartsKeeps,
     CommandRefusedKeeps, CommandBeginKeeps, SpawnedKeeps, SpawnCancelledKeeps,
     GroupMovesKeeps, CommandExitsKeeps, DrainedKeeps, StopsKeep, TermEndsKeeps, WaitEndsKeeps, StopCancelledKeeps, LlmRefusedKeeps,
     LlmBeginKeeps, LlmEndsKeeps, LlmCancelledKeeps, FileWorksKeeps, OthersCreateKeeps
     DEF SessionNext

-----------------------------------------------------------------------------
(* The other channels                                                      *)

LEMMA QuietMoves ==
    ASSUME QuietInv, NEW r \in Requests, NEW q, IsRequest(q, QuietSteps),
           q.job[1] \in {"none", "start", "page", "attach"},
           req' = [req EXCEPT ![r] = q], UNCHANGED effects
    PROVE  QuietInv'
  <1>1. /\ \A s \in Requests \ {r} : req'[s] = req[s]
        /\ req' = [s \in Requests |-> req'[s]] /\ req'[r] = q
        /\ UNCHANGED <<files, group, commands, llm>>
    BY DEF QuietInv, effects
  <1> QED
    BY <1>1 DEF QuietInv

LEMMA QuietAt ==
    ASSUME QuietInv, NEW r \in Requests, NEW step \in QuietSteps, At(r, step),
           UNCHANGED effects
    PROVE  QuietInv'
  <1> DEFINE q == [req[r] EXCEPT !.step = step]
  <1>1. IsRequest(req[r], QuietSteps) /\ req[r].job[1] \in {"none", "start", "page", "attach"}
    BY DEF QuietInv
  <1>2. IsRequest(q, QuietSteps) /\ q.job = req[r].job
    BY <1>1, Stepped
  <1>3. req' = [req EXCEPT ![r] = q]
    BY DEF At
  <1> HIDE DEF q
  <1> QED
    BY <1>1, <1>2, <1>3, QuietMoves

LEMMA QuietReturns ==
    ASSUME QuietInv, NEW t, NEW did, Returns(t, did), UNCHANGED effects
    PROVE  QuietInv'
  <1> DEFINE q(r) == [req[r] EXCEPT !.step = "emit", !.did = did]
  <1>1. ASSUME NEW r \in Requests
        PROVE  IsRequest(q(r), QuietSteps) /\ q(r).job = req[r].job
    <2> DEFINE p == req[r]
    <2>1. IsRequest(p, QuietSteps)
      BY DEF QuietInv
    <2> HIDE DEF p
    <2>2. /\ IsRequest([p EXCEPT !.step = "emit", !.did = did], QuietSteps)
          /\ [p EXCEPT !.step = "emit", !.did = did].job = p.job
      BY ONLY <2>1 DEF IsRequest, QuietSteps
    <2> QED
      BY <2>2 DEF p
  <1>2. req' = [r \in Requests |-> IF thread[t].owner = r THEN q(r) ELSE req[r]]
    BY DEF Returns
  <1> HIDE DEF q
  <1>3. \A r \in Requests : req'[r] \in {q(r), req[r]}
    BY <1>2
  <1>4. req' = [r \in Requests |-> req'[r]] /\ UNCHANGED <<files, group, commands, llm>>
    BY <1>2 DEF effects
  <1> QED
    BY <1>1, <1>3, <1>4 DEF QuietInv

LEMMA QuietUnchanged ==
    ASSUME QuietInv, UNCHANGED <<req, effects>>
    PROVE  QuietInv'
  BY DEF QuietInv, effects

LEMMA IdleIsQuiet ==
    IsRequest(Idle, QuietSteps) /\ Idle.job[1] = "none"
  BY DEF Idle, IsRequest, QuietSteps

LEMMA ControlStep ==
    QuietInv /\ ControlNext => QuietInv'
  <1> SUFFICES ASSUME QuietInv, ControlNext PROVE QuietInv'
    OBVIOUS
  <1>1. UNCHANGED effects
    BY DEF ControlNext
  <1>2. ASSUME NEW r \in Requests, NEW j \in BrowseJobs, BrowseBegin(r, j)
        PROVE  QuietInv'
    <2>1. j[1] \in {"start", "page", "attach"}
      BY DEF BrowseJobs
    <2> DEFINE q == Begun("lock", j)
    <2>2. IsRequest(q, QuietSteps) /\ q.job = j
      BY DEF Begun, Idle, IsRequest, QuietSteps
    <2>3. req' = [req EXCEPT ![r] = q]
      BY <1>2 DEF BrowseBegin
    <2> HIDE DEF q
    <2> QED
      BY <1>1, <2>1, <2>2, <2>3, QuietMoves
  <1>3. ASSUME NEW r \in Requests, BrowseLocked(r) \/ \E t \in Threads : BrowseRuns(t, r)
        PROVE  QuietInv'
    <2>1. At(r, "queued") \/ At(r, "running")
      BY <1>3 DEF BrowseLocked, BrowseRuns
    <2> QED
      BY <1>1, <2>1, QuietAt DEF QuietSteps
  <1>4. ASSUME NEW r \in Requests, BrowseTold(r)
        PROVE  QuietInv'
    BY <1>1, <1>4, IdleIsQuiet, QuietMoves DEF BrowseTold
  <1>5. ASSUME NEW t \in Threads,
               \/ BrowseLooks(t) \/ RootsFound(t) \/ PageListed(t)
               \/ DirectoryUnavailable(t) \/ Resolved(t) \/ Consume(t)
        PROVE  QuietInv'
    <2>1. req' = req \/ \E did : Returns(t, did)
      BY <1>5 DEF BrowseLooks, RootsFound, PageListed, DirectoryUnavailable, Resolved, Consume,
                  Answers
    <2> QED
      BY <1>1, <2>1, QuietReturns, QuietUnchanged
  <1>6. ASSUME NEW b \in DOMAIN browse, Expire(b) PROVE QuietInv'
    BY <1>1, <1>6, QuietUnchanged DEF Expire
  <1>7. CASE ConnectionLost
    <2>1. req' = [r \in Requests |-> Idle] /\ UNCHANGED <<files, group, commands, llm>>
      BY <1>1, <1>7 DEF ConnectionLost, effects
    <2>2. req' = [r \in Requests |-> req'[r]] /\ \A r \in Requests : req'[r] = Idle
      BY <2>1
    <2> QED
      BY <2>1, <2>2, IdleIsQuiet DEF QuietInv
  <1>8. CASE ConnectedAgain
    BY <1>1, <1>8, QuietUnchanged DEF ConnectedAgain
  <1> QED
    BY <1>2, <1>3, <1>4, <1>5, <1>6, <1>7, <1>8 DEF ControlNext

-----------------------------------------------------------------------------
(* The inductive invariant                                                 *)

LEMMA InitHolds ==
    Init => EffectsInv
  <1> SUFFICES ASSUME Init PROVE EffectsInv
    OBVIOUS
  <1>1. /\ req = [r \in Requests |-> Idle] /\ thread = [t \in Threads |-> Free]
        /\ group = [r \in Requests |-> {}] /\ commands = 0 /\ llm = NoRequest
        /\ files \subseteq Names /\ channel \in {"session", "control", "replies"}
        /\ channel # "session" => files = {}
    BY DEF Init, PoolInit, EffectsInit
  <1>2. RequestsSound
    BY <1>1, IdleIs DEF RequestsSound
  <1>3. ThreadsSound
    BY <1>1 DEF ThreadsSound
  <1>4. PlacesSound
    <2>1. {r \in Requests : Holds(req[r])} = {}
      BY <1>1, IdleIs, WordsAre DEF Holds
    <2> QED
      BY <1>1, <2>1, FS_EmptySet DEF PlacesSound
  <1>5. channel # "session" => QuietInv
    BY <1>1, IdleIsQuiet DEF QuietInv
  <1> QED
    BY <1>1, <1>2, <1>3, <1>4, <1>5 DEF EffectsInv, SessionInv

LEMMA StepHolds ==
    EffectsInv /\ [Next]_vars => EffectsInv'
  <1> SUFFICES ASSUME EffectsInv, [Next]_vars PROVE EffectsInv'
    OBVIOUS
  <1>1. CASE SessionNext
    BY <1>1, SessionStep DEF EffectsInv, SessionNext
  <1>2. CASE ControlNext
    BY <1>2, ControlStep DEF EffectsInv, ControlNext
  <1>3. CASE channel = "replies" /\ UNCHANGED <<req, thread, effects, browser, channel>>
    BY <1>3, QuietUnchanged DEF EffectsInv
  <1>4. CASE vars' = vars
    <2>1. UNCHANGED <<req, thread, files, group, commands, llm, channel>>
      BY <1>4 DEF vars, effects
    <2>2. RequestsSound' <=> RequestsSound
      BY <2>1 DEF RequestsSound
    <2>3. ThreadsSound' <=> ThreadsSound
      BY <2>1 DEF ThreadsSound
    <2>4. PlacesSound' <=> PlacesSound
      BY <2>1 DEF PlacesSound
    <2>5. QuietInv => QuietInv'
      BY <2>1, QuietUnchanged DEF effects
    <2> QED
      BY <2>1, <2>2, <2>3, <2>4, <2>5 DEF EffectsInv, SessionInv
  <1> QED
    BY <1>1, <1>2, <1>3, <1>4 DEF Next

(* Every reachable state, in every instance, satisfies the invariant of    *)
(* this module: what every request of SideEffects has done and holds, and  *)
(* that its thread works for it alone (handlers.py:309, 508, 617).         *)
THEOREM Invariance == Spec => []EffectsInv
  <1>1. Init => EffectsInv
    BY InitHolds
  <1>2. EffectsInv /\ [Next]_vars => EffectsInv'
    BY StepHolds
  <1> QED
    BY <1>1, <1>2, PTL DEF Spec

-----------------------------------------------------------------------------
(* What it says of ended requests                                          *)

(* Of numbers of cancellations, by itself: a comparison with a tuple among *)
(* the hypotheses keeps the arithmetic from the provers.                   *)
LEMMA TwoIsNotLess == \A n \in Nat : n >= 2 => ~(n < 2)
  OBVIOUS

LEMMA SessionIsAccounted ==
    SessionInv => EndedRequestsAreAccounted
  <1> SUFFICES ASSUME SessionInv PROVE EndedRequestsAreAccounted
    OBVIOUS
  <1>1. ASSUME NEW r \in Requests
        PROVE  /\ IsRequest(req[r], Steps) /\ Sound(req[r], group[r]) /\ ThreadsSound
    BY SoundRequest DEF SessionInv
  <1>2. ChangesAreRecorded
    <2> SUFFICES ASSUME NEW r \in Requests, Ended(r)
                 PROVE  /\ req[r].did = <<"changed">> => req[r].log # "none"
                        /\ Op(r) \in {"write", "delete", "move"} /\ req[r].log = "none"
                               => /\ req[r].did = <<"nothing">>
                                  /\ \A t \in Threads : thread[t].owner # r
      BY DEF ChangesAreRecorded
    <2>1. req[r].step = "ended" /\ Sound(req[r], group[r]) /\ ThreadsSound
      BY <1>1 DEF Ended
    <2>2. req[r].did = <<"changed">> => req[r].log # "none"
      BY <2>1 DEF Sound
    <2>3. Op(r) \in {"write", "delete", "move"} /\ req[r].log = "none"
              => req[r].did = <<"nothing">>
      BY <2>1 DEF Sound, Op
    <2>4. \A t \in Threads : thread[t].owner # r
      BY <2>1, ThreadPoolAssumption DEF ThreadsSound, Free
    <2> QED
      BY <2>2, <2>3, <2>4
  <1>3. StoppedGroupsAreGone
    BY <1>1 DEF StoppedGroupsAreGone, Sound, Ended, Op
  <1>4. CommandsAreRecorded
    <2> SUFFICES ASSUME NEW r \in Requests, Ended(r), Op(r) \in {"command", "stopped"},
                        req[r].log = "none", req[r].cancels < 2,
                        req[r].did # <<"cut short">>
                 PROVE  FALSE
      BY DEF CommandsAreRecorded
    <2>1. req[r].cancels >= 2
      BY <1>1 DEF Sound, Ended, Op
    <2>2. req[r].cancels \in Nat
      BY <1>1 DEF IsRequest
    <2> QED
      BY <2>1, <2>2, TwoIsNotLess
  <1>5. PlacesAreGivenBack
    <2>1. {r \in Requests : Op(r) \in {"command", "stopped"} /\ ~Ended(r)}
            = {r \in Requests : Holds(req[r])}
      BY DEF Op, Ended, Holds
    <2> QED
      BY <2>1 DEF SessionInv, PlacesSound, PlacesAreGivenBack, Ended
  <1> QED
    BY <1>2, <1>3, <1>4, <1>5 DEF EndedRequestsAreAccounted

LEMMA QuietIsAccounted ==
    QuietInv => EndedRequestsAreAccounted
  <1> SUFFICES ASSUME QuietInv PROVE EndedRequestsAreAccounted
    OBVIOUS
  <1>1. \A r \in Requests : ~Ended(r)
    BY DEF QuietInv, IsRequest, QuietSteps, Ended
  <1>2. {r \in Requests : Op(r) \in {"command", "stopped"} /\ ~Ended(r)} = {}
    BY DEF QuietInv, Op
  <1>3. PlacesAreGivenBack
    BY <1>2, FS_EmptySet DEF QuietInv, PlacesAreGivenBack
  <1> QED
    BY <1>1, <1>3 DEF EndedRequestsAreAccounted, ChangesAreRecorded, StoppedGroupsAreGone,
                      CommandsAreRecorded

(* In every reachable state a request that has ended is accounted for: its *)
(* change has a record or none was made, its stopped group is gone, and    *)
(* its place is given back (handlers.py:309, 508, 617).                    *)
THEOREM EndedAreAccounted == Spec => []EndedRequestsAreAccounted
  <1>1. EffectsInv => EndedRequestsAreAccounted
    BY SessionIsAccounted, QuietIsAccounted DEF EffectsInv
  <1> QED
    BY <1>1, Invariance, PTL

-----------------------------------------------------------------------------
(* What it says of steps                                                   *)

(* An entry that is moved is still one entry.                              *)
LEMMA MoveKeepsNumber ==
    ASSUME IsFiniteSet(files), NEW from \in files, NEW to, to \notin files
    PROVE  Cardinality((files \ {from}) \cup {to}) = Cardinality(files)
  <1> DEFINE rest == files \ {from}
  <1>1. IsFiniteSet(rest) /\ Cardinality(rest) = Cardinality(files) - 1
    BY FS_RemoveElement
  <1>2. to \notin rest
    OBVIOUS
  <1> HIDE DEF rest
  <1>3. Cardinality(rest \cup {to}) = Cardinality(rest) + 1
    BY <1>1, <1>2, FS_AddElement
  <1>4. Cardinality(files) \in Nat
    BY FS_CardinalityType
  <1> QED
    BY <1>1, <1>3, <1>4 DEF rest

LEMMA NothingReplacedInStep ==
    ASSUME EffectsInv, [Next]_vars, Cardinality(files') < Cardinality(files)
    PROVE  \E t \in Threads :
               /\ thread'[t] # thread[t]
               /\ \/ thread[t].job[1] = "delete"
                  \/ thread[t].job[1] = "move" /\ thread[t].job[4]
  <1>1. IsFiniteSet(files) /\ Cardinality(files) \in Nat
    <2>1. IsFiniteSet(files)
      BY SideEffectsAssumption, FS_Subset, FS_EmptySet DEF EffectsInv, SessionInv, QuietInv
    <2> QED
      BY <2>1, FS_CardinalityType
  <1>2. files' # files
    BY <1>1
  <1>3. ASSUME NEW n, n \notin files, files' = files \cup {n} PROVE FALSE
    BY <1>1, <1>3, FS_AddElement
  <1>4. channel = "session" /\ SessionInv /\ SessionNext
    <2>1. ControlNext => files' = files
      BY DEF ControlNext, effects
    <2>2. vars' = vars => files' = files
      BY DEF vars, effects
    <2>3. UNCHANGED <<req, thread, effects, browser, channel>> => files' = files
      BY DEF effects
    <2>4. SessionNext
      BY <1>2, <2>1, <2>2, <2>3 DEF Next
    <2> QED
      BY <2>4 DEF SessionNext, EffectsInv
  <1>5. ~ \E n \in Names : OthersCreate(n)
    BY <1>3 DEF OthersCreate
  <1>6. PICK t \in Threads : FileWorks(t)
    BY <1>2, <1>4, <1>5 DEF SessionNext, Emit, EffectForgotten, FileCancelled, FileBegin,
       FileStarts, CommandRefused, CommandBegin, Spawned, SpawnCancelled, GroupMoves, CommandExits, Drained, TimesOut,
       TermEnds, WaitEnds, CommandCancelled, StopCancelled, LlmRefused, LlmBegin, LlmEnds,
       LlmCancelled, effects
  <1> DEFINE j == thread[t].job
  <1>7. j \in FileJobs /\ Possible(j) /\ files' = Effect(j)
    BY <1>2, <1>6 DEF FileWorks
  <1>8. thread'[t] = Free /\ thread[t] # Free
    <2>1. thread' = [thread EXCEPT ![t] = Free]
      BY <1>6 DEF FileWorks, Returns, Frees
    <2>2. thread[t] # Free
      BY <1>7, FileJobsAre DEF Free
    <2> QED
      BY <1>4, <2>1, <2>2 DEF SessionInv, ThreadsSound
  <1> HIDE DEF j
  <1>9. j[1] # "write"
    <2> SUFFICES ASSUME j[1] = "write" PROVE FALSE
      OBVIOUS
    <2>1. files' = files \cup {j[2]}
      BY <1>7 DEF Effect
    <2> QED
      BY <1>2, <1>3, <2>1
  <1>10. ~(j[1] = "move" /\ ~j[4])
    <2> SUFFICES ASSUME j[1] = "move", ~j[4] PROVE FALSE
      OBVIOUS
    <2>1. j[2] \in files /\ j[3] \notin files
      BY <1>7 DEF Possible
    <2>2. files' = (files \ {j[2]}) \cup {j[3]}
      BY <1>7 DEF Effect
    <2>3. Cardinality(files') = Cardinality(files)
      BY <1>1, <2>1, <2>2, MoveKeepsNumber
    <2> QED
      BY <1>1, <2>3
  <1>11. j[1] = "delete" \/ (j[1] = "move" /\ j[4])
    BY <1>7, <1>9, <1>10, FileJobsAre
  <1> QED
    BY <1>8, <1>11 DEF j

(* In every behaviour each ended request is accounted for, and an entry    *)
(* goes away only with a delete or a move that was to replace it, also     *)
(* where the destination appeared after the handler looked                 *)
(* (handlers.py:309, 1364).                                                *)
THEOREM EffectsAreAccounted == Spec => SideEffectsAreAccounted
  <1>1. EffectsInv /\ [Next]_vars => NothingIsReplaced
    BY NothingReplacedInStep DEF NothingIsReplaced
  <1> QED
    BY <1>1, Invariance, EndedAreAccounted, PTL DEF Spec, SideEffectsAreAccounted

-----------------------------------------------------------------------------
(* Sequences and pages of a browser                                        *)

(* A page has no reference too many, and says when it leaves children out. *)
LEMMA PageIs ==
    ASSUME NEW b, browse[b].refs \subseteq Children, Cardinality(browse[b].refs) <= MaxRefs,
           NEW seen \in SUBSET Children, NEW offset \in Nat, NEW scanned \in BOOLEAN
    PROVE  LET page  == Page(b, seen, offset, scanned)
               found == Sorted(seen)
               asked == {found[i] : i \in offset+1..Len(found)}
           IN /\ page.entries \subseteq Children /\ page.more \in Nat
              /\ Cardinality(browse[b].refs \cup page.entries) <= MaxRefs
              /\ scanned \/ asked # page.entries => page.truncated \/ page.more # 0
              /\ page.more # 0 => page.more = offset + Cardinality(page.entries)
  <1> DEFINE found   == Sorted(seen)
             n       == Cardinality(seen)
             last    == Min({Len(found), offset + PageSize})
             known   == browse[b].refs
             fits(i) == Cardinality(known \cup {found[k] : k \in offset+1..i}) <= MaxRefs
             upto    == Max({offset} \cup {i \in offset+1..last : fits(i)})
             entries == {found[i] : i \in offset+1..upto}
             asked   == {found[i] : i \in offset+1..Len(found)}
             refused == upto < last
             rest    == last < Len(found)
             page    == Page(b, seen, offset, scanned)
  <1>1. IsFiniteSet(seen) /\ seen \in SUBSET Nat
    BY DirectoryBrowserAssumption, FS_Subset
  <1>2. n \in Nat /\ found \in [1..n -> seen] /\ \A i, k \in 1..n : i < k => found[i] < found[k]
    BY <1>1, SortedIs
  <1>3. Len(found) = n
    BY <1>2
  <1>4. page = [entries |-> entries, truncated |-> scanned \/ refused,
                more |-> IF rest /\ ~refused THEN last ELSE 0]
    BY DEF Page, Truncated
  <1>13. /\ page.entries = entries /\ (page.truncated <=> scanned \/ refused)
         /\ page.more = IF rest /\ ~refused THEN last ELSE 0
    <2> HIDE DEF entries, refused, rest, last, page
    <2> QED
      BY <1>4
  <1> HIDE DEF found, n, page
  <1>5. /\ last \in Nat /\ last <= n /\ last <= offset + PageSize
        /\ last = n \/ last = offset + PageSize
    <2>1. PageSize \in Nat /\ offset + PageSize \in Nat
      BY DirectoryBrowserAssumption
    <2> QED
      BY <1>2, <1>3, <2>1, SmallerOfTwo
  <1> HIDE DEF last
  <1>6. upto = offset \/ (upto \in offset+1..last /\ fits(upto))
    <2> DEFINE S == {offset} \cup {i \in offset+1..last : fits(i)}
    <2>1. S \in SUBSET Nat /\ S # {}
      <3> HIDE DEF fits
      <3> QED
        BY <1>5
    <2>2. IsFiniteSet(S)
      <3>3. offset \in Int /\ last \in Int
        BY <1>5
      <3>4. IsFiniteSet(offset..last)
        BY <3>3, FS_Interval
      <3>1. IsFiniteSet((offset..last) \cup {offset})
        BY <3>4, FS_AddElement
      <3>2. S \subseteq (offset..last) \cup {offset}
        <4> HIDE DEF fits
        <4> QED
          BY <1>5
      <3> QED
        BY <3>1, <3>2, FS_Subset
    <2> HIDE DEF S
    <2>3. Max(S) \in S
      BY <2>1, <2>2, LargestIs
    <2> QED
      BY <2>3 DEF S
  <1> HIDE DEF upto
  <1>7. upto \in Nat /\ upto >= offset /\ (upto = offset \/ upto <= last)
    <2> HIDE DEF fits
    <2> QED
      BY <1>5, <1>6
  <1>8. upto = offset => entries = {}
    OBVIOUS
  <1>9. entries \subseteq Children
    BY <1>2, <1>5, <1>7, <1>8
  <1>10. Cardinality(known \cup entries) <= MaxRefs
    <2>1. CASE upto = offset
      BY <1>8, <2>1
    <2>2. CASE fits(upto)
      BY <2>2
    <2> QED
      BY <1>6, <2>1, <2>2
  <1>11. scanned \/ asked # entries => page.truncated \/ page.more # 0
    <2> SUFFICES ASSUME ~scanned, ~refused, ~(rest /\ last # 0) PROVE asked = entries
      <3> HIDE DEF entries, asked, rest, refused
      <3> QED
        BY <1>13
    <2>2. PageSize \in Nat \ {0}
      BY DirectoryBrowserAssumption
    <2>3. last = n
      BY <1>2, <1>3, <1>5, <2>2
    <2>1. last = n /\ (upto = offset \/ upto = n) /\ upto >= n
      BY <1>2, <1>7, <2>3
    <2> QED
      BY <1>2, <1>3, <1>7, <2>1
  <1>12. page.more # 0 => page.more = offset + Cardinality(entries)
    <2> SUFFICES ASSUME rest, ~refused PROVE last = offset + Cardinality(entries)
      <3> HIDE DEF entries, rest, refused
      <3> QED
        BY <1>13
    <2>1. last = offset + PageSize /\ upto = last /\ PageSize \in Nat
      BY <1>2, <1>3, <1>5, <1>7, DirectoryBrowserAssumption
    <2> DEFINE I == offset+1..upto
               f == [i \in I |-> found[i]]
    <2>2. IsFiniteSet(I) /\ Cardinality(I) = PageSize
      <3>1. offset + 1 \in Int /\ upto \in Int /\ upto = offset + PageSize
        BY <1>7, <2>1
      <3>2. IsFiniteSet(I) /\ Cardinality(I) = IF offset + 1 > upto THEN 0 ELSE upto - (offset + 1) + 1
        BY <3>1, FS_Interval
      <3> QED
        BY <2>1, <3>1, <3>2
    <2>3. I \subseteq 1..n
      BY <1>2, <1>5, <2>1
    <2>4. f \in Bijection(I, entries)
      <3>1. f \in [I -> entries] /\ \A x \in entries : \E i \in I : f[i] = x
        OBVIOUS
      <3>2. ASSUME NEW i \in I, NEW k \in I, f[i] = f[k] PROVE i = k
        <4>1. i \in 1..n /\ k \in 1..n /\ found[i] = found[k] /\ found[i] \in Nat
          BY <1>1, <1>2, <2>3, <3>2
        <4>2. ~(i < k) /\ ~(k < i)
          <5>1. i < k => found[i] < found[k]
            BY <1>2, <4>1
          <5>2. k < i => found[k] < found[i]
            BY <1>2, <4>1
          <5> QED
            BY <4>1, <5>1, <5>2
        <4> QED
          BY <1>2, <4>1, <4>2
      <3> HIDE DEF f, entries, I
      <3> QED
        BY <3>1, <3>2 DEF Bijection, Injection, Surjection, IsInjective
    <2> HIDE DEF f, entries, I
    <2>5. ExistsBijection(I, entries)
      BY <2>4 DEF ExistsBijection
    <2>6. Cardinality(entries) = PageSize
      BY <2>2, <2>5, FS_Bijection
    <2> QED
      BY <2>1, <2>6
  <1>14. page.more \in Nat
    BY <1>5, <1>13
  <1> HIDE DEF entries, asked
  <1>15. asked = {Sorted(seen)[i] : i \in offset+1..Len(Sorted(seen))}
    BY DEF asked, found
  <1> QED
    BY <1>9, <1>10, <1>11, <1>12, <1>13, <1>14, <1>15 DEF page

Has(seq, b) == \E i \in DOMAIN seq : seq[i] = b

(* What stays in the browser was there.                                    *)
LEMMA OnlyIs ==
    ASSUME NEW S, live \in Seq(S), NEW bs
    PROVE  Only(bs) \in Seq(S) /\ \A b : Has(Only(bs), b) => InBrowser(b) /\ b \in bs
  <1> DEFINE places == {i \in DOMAIN live : live[i] \in bs}
             at == Sorted(places)
             n == Cardinality(places)
  <1>1. IsFiniteSet(places) /\ places \in SUBSET Nat /\ places \subseteq DOMAIN live
    <2>1. Len(live) \in Nat /\ DOMAIN live = 1..Len(live)
      OBVIOUS
    <2>2. IsFiniteSet(DOMAIN live)
      BY <2>1, FS_Interval
    <2> QED
      BY <2>1, <2>2, FS_Subset
  <1>2. n \in Nat /\ at \in [1..n -> places]
    BY <1>1, SortedIs
  <1>3. Only(bs) = [k \in DOMAIN at |-> live[at[k]]]
    BY DEF Only, Selected
  <1>4. \A x \in places : live[x] \in bs /\ live[x] \in S /\ x \in DOMAIN live
    BY <1>1
  <1> HIDE DEF places, at, n
  <1>5. Only(bs) = [k \in 1..n |-> live[at[k]]]
    BY <1>2, <1>3
  <1>6. \A k \in 1..n : live[at[k]] \in bs /\ live[at[k]] \in S /\ at[k] \in DOMAIN live
    BY <1>2, <1>4
  <1>7. Only(bs) \in Seq(S)
    BY <1>2, <1>5, <1>6
  <1> QED
    BY <1>5, <1>6, <1>7 DEF Has, InBrowser

LEMMA EvictedIs ==
    ASSUME NEW S, NEW seq \in Seq(S)
    PROVE  Evicted(seq) \in Seq(S) /\ \A b : Has(Evicted(seq), b) => Has(seq, b)
  <1>1. CASE Len(seq) < MaxBrowses
    BY <1>1 DEF Evicted
  <1>2. CASE ~(Len(seq) < MaxBrowses)
    <2> DEFINE m == Len(seq) - MaxBrowses + 2
               out == SubSeq(seq, m, Len(seq))
    <2>1. Len(seq) \in Nat /\ MaxBrowses \in Nat \ {0} /\ m \in Int /\ m >= 2
      BY <1>2, DirectoryBrowserAssumption
    <2>2. Evicted(seq) = out
      BY <1>2 DEF Evicted
    <2> HIDE DEF m
    <2>3. /\ out \in Seq(S)
          /\ \A k \in DOMAIN out : k + m - 1 \in DOMAIN seq /\ out[k] = seq[k + m - 1]
      BY <2>1
    <2> QED
      BY <2>2, <2>3 DEF Has
  <1> QED
    BY <1>1, <1>2

LEMMA AppendIs ==
    ASSUME NEW S, NEW seq \in Seq(S), NEW x \in S
    PROVE  Append(seq, x) \in Seq(S) /\ \A b : Has(Append(seq, x), b) => Has(seq, b) \/ b = x
  BY DEF Has

-----------------------------------------------------------------------------
(* Directory browsing: what a browse, its requests and threads know of     *)
(* each other                                                              *)

Browses == DOMAIN browse
Starts(j, b) == j[1] = "start" /\ j[2] = b

(* A request or a thread names a browse there is; only the one that starts *)
(* it does so before the platform was told of it.                          *)
IsJob(j, browses) ==
    /\ j[1] \in {"start", "page", "attach"} /\ j[2] \in DOMAIN browses
    /\ j[1] = "page" => j[3] \in Nat
    /\ j[1] = "start" <=> browses[j[2]].told = 0

CatalogInv ==
    /\ connection \in Nat \ {0} /\ up \in BOOLEAN /\ live \in Seq(Browses)
    /\ browse \in [Browses -> [told : Nat, refs : SUBSET Children, cursors : SUBSET Nat,
                               expired : BOOLEAN, used : {0, 1}]]
    /\ IsFiniteSet(Browses) /\ Browses \subseteq 1..Cardinality(Browses)
    /\ \A b \in Browses :
          /\ Cardinality(browse[b].refs) <= MaxRefs
          /\ browse[b].used = 1 => browse[b].told # 0 /\ ~InBrowser(b)
          /\ up /\ InBrowser(b) /\ browse[b].told # 0 => browse[b].told = connection

Asks(q, b) == q.step # "idle" /\ Starts(q.job, b)

AskedInv ==
    \A r \in Requests :
        /\ req[r].step = "idle" => req[r] = Idle
        /\ req[r].step # "idle" => IsJob(req[r].job, browse)
        /\ req[r].step \in {"queued", "running"} => lock = r
        /\ \A s \in Requests, b \in Browses : Asks(req[r], b) /\ Asks(req[s], b) => r = s
        /\ req[r].did[1] = "started" => Starts(req[r].job, req[r].did[2]) /\ req[r].step = "emit"

Worker(x) ==
    x \in [owner : Requests \cup {NoRequest}, job : {x.job}, at : {"begin", "found", "resolved"}]

WorkInv ==
    /\ thread = [t \in Threads |-> thread[t]]
    /\ \A t \in Threads : thread[t] # Free =>
          LET j == thread[t].job  r == thread[t].owner IN
          /\ Worker(thread[t]) /\ IsJob(j, browse) /\ (thread[t].at = "resolved" => j[1] = "attach")
          /\ r # NoRequest => /\ req[r].step = "running" /\ req[r].job = j
                              /\ j[1] = "attach" /\ thread[t].at # "begin"
                                    => browse[j[2]].used = 0
          /\ \A u \in Threads : r # NoRequest /\ thread[u].owner = r => u = t
          /\ \A u \in Threads, b \in Browses :
                Starts(j, b) /\ Starts(thread[u].job, b) => u = t
          /\ \A s \in Requests, b \in Browses : Starts(j, b) /\ Asks(req[s], b) => r = s

(* A listing from an offset that says what it leaves out, with these refs. *)
Honest(did, offset, refs) ==
    LET page  == did[3]
        found == Sorted(did[4])
        asked == {found[i] : i \in (offset + 1)..Len(found)}
    IN /\ did[5] \/ asked # page.entries => page.truncated \/ page.more # 0
       /\ page.more # 0 => page.more = offset + Cardinality(page.entries)
       /\ page.entries \subseteq refs

ListedInv ==
    \A r \in Requests : req[r].did[1] = "listed" =>
        /\ req[r].did[2] \in Browses
        /\ Honest(req[r].did, req[r].job[3], browse[req[r].did[2]].refs)

BrowseInv == CatalogInv /\ AskedInv /\ WorkInv /\ ListedInv

BrowsesInv ==
    /\ EffectsInv
    /\ channel = "session" => Browses = {}
    /\ channel # "session" => BrowseInv

LEMMA JobKept ==
    ASSUME NEW b1, NEW b2, NEW j, IsJob(j, b1), DOMAIN b1 \subseteq DOMAIN b2,
           \A b \in DOMAIN b1 : b2[b].told = b1[b].told
    PROVE  IsJob(j, b2)
  BY DEF IsJob

(* The catalog with a browse less, used up, used more, or newly shown.     *)
LEMMA CatalogKept ==
    ASSUME CatalogInv, Browses' = Browses, UNCHANGED connection, up' \in BOOLEAN, up' => up,
           live' \in Seq(Browses),
           browse' \in [Browses -> [told : Nat, refs : SUBSET Children, cursors : SUBSET Nat,
                                    expired : BOOLEAN, used : {0, 1}]],
           \A b \in Browses :
              /\ browse'[b].told = browse[b].told /\ Cardinality(browse'[b].refs) <= MaxRefs
              /\ Has(live', b) => InBrowser(b) \/ browse[b].told = 0
              /\ \/ browse'[b].used = browse[b].used
                 \/ browse[b].told # 0 /\ ~Has(live', b)
    PROVE  CatalogInv'
  <1>1. \A b \in Browses : InBrowser(b)' <=> Has(live', b)
    BY DEF InBrowser, Has
  <1>2. \A b \in Browses :
          /\ Cardinality(browse'[b].refs) <= MaxRefs
          /\ browse'[b].used = 1 => browse'[b].told # 0 /\ ~InBrowser(b)'
          /\ up' /\ InBrowser(b)' /\ browse'[b].told # 0 => browse'[b].told = connection'
    BY <1>1 DEF CatalogInv
  <1> QED
    BY <1>2 DEF CatalogInv

(* What the requests remember of listings stays true while browses grow.   *)
LEMMA ListedKept ==
    ASSUME ListedInv, Browses \subseteq Browses',
           \A b \in Browses : browse[b].refs \subseteq browse'[b].refs,
           \A r \in Requests :
              \/ req'[r].did = req[r].did /\ req'[r].job = req[r].job
              \/ req'[r].did[1] # "listed"
              \/ /\ req'[r].did[2] \in Browses'
                 /\ Honest(req'[r].did, req'[r].job[3], browse'[req'[r].did[2]].refs)
    PROVE  ListedInv'
  <1> SUFFICES ASSUME NEW r \in Requests, req'[r].did[1] = "listed"
               PROVE  /\ req'[r].did[2] \in Browses'
                      /\ Honest(req'[r].did, req'[r].job[3], browse'[req'[r].did[2]].refs)
    BY DEF ListedInv
  <1>1. CASE req'[r].did = req[r].did /\ req'[r].job = req[r].job
    <2>1. /\ req[r].did[2] \in Browses
          /\ Honest(req[r].did, req[r].job[3], browse[req[r].did[2]].refs)
      BY <1>1 DEF ListedInv
    <2>2. Honest(req[r].did, req[r].job[3], browse'[req[r].did[2]].refs)
      BY <2>1 DEF Honest
    <2> QED
      BY <1>1, <2>1, <2>2
  <1> QED
    BY <1>1

(* A thread answers, and its request, if it has one, goes on to its record.*)
LEMMA AnswersKeep ==
    ASSUME QuietInv, AskedInv, WorkInv, Browses' = Browses,
           NEW t \in Threads, thread[t] # Free, NEW did, Answers(t, did),
           did[1] = "started" => Starts(thread[t].job, did[2]),
           \A b \in Browses :
              /\ browse'[b].told = browse[b].told
              /\ browse'[b].used = browse[b].used \/ thread[t].owner # NoRequest
    PROVE  /\ AskedInv' /\ WorkInv'
           /\ \A r \in Requests : /\ req'[r].job = req[r].job
                                  /\ req'[r].did = IF thread[t].owner = r THEN did ELSE req[r].did
  <1> DEFINE o == thread[t].owner
             q(r) == [req[r] EXCEPT !.step = "emit", !.did = did]
  <1>1. /\ req' = [r \in Requests |-> IF o = r THEN q(r) ELSE req[r]]
        /\ thread' = [thread EXCEPT ![t] = Free]
        /\ lock' = IF lock = o THEN NoRequest ELSE lock
    BY DEF Answers, Returns, Frees
  <1>2. ASSUME NEW r \in Requests
        PROVE  q(r).step = "emit" /\ q(r).job = req[r].job /\ q(r).did = did
    <2> DEFINE p == req[r]
    <2>1. IsRequest(p, QuietSteps)
      BY DEF QuietInv
    <2> HIDE DEF p
    <2>2. LET n == [p EXCEPT !.step = "emit", !.did = did]
          IN n.step = "emit" /\ n.job = p.job /\ n.did = did
      BY ONLY <2>1 DEF IsRequest
    <2> QED
      BY <2>2 DEF p
  <1> HIDE DEF q
  <1>3. \A r \in Requests :
          /\ req'[r].job = req[r].job
          /\ o = r => req'[r].step = "emit" /\ req'[r].did = did
          /\ o # r => req'[r] = req[r]
    BY <1>1, <1>2
  <1>4. /\ thread'[t] = Free /\ (\A u \in Threads \ {t} : thread'[u] = thread[u])
        /\ thread' = [u \in Threads |-> thread'[u]]
    BY <1>1 DEF WorkInv
  <1>5. /\ o \in Requests \cup {NoRequest}
        /\ o # NoRequest => req[o].step = "running" /\ req[o].job = thread[t].job /\ lock = o
        /\ o # NoRequest => \A u \in Threads : thread[u].owner = o => u = t
    BY DEF WorkInv, AskedInv, Worker
  <1>6. ASSUME NEW r \in Requests, NEW b
        PROVE  Asks(req'[r], b) <=> Asks(req[r], b)
    <2>1. CASE o = r
      <3>1. /\ req'[r].step = "emit" /\ req[r].step = "running"
            /\ req'[r].job = req[r].job
        BY <1>3, <1>5, <2>1, ThreadPoolAssumption
      <3> QED
        BY <3>1 DEF Asks
    <2>2. CASE o # r
      BY <1>3, <2>2 DEF Asks
    <2> QED
      BY <2>1, <2>2
  <1>7. \A j : IsJob(j, browse) => IsJob(j, browse')
    BY JobKept DEF Browses
  <1> HIDE DEF o
  <1>8. AskedInv'
    <2> SUFFICES ASSUME NEW r \in Requests
                 PROVE  /\ req'[r].step = "idle" => req'[r] = Idle
                        /\ req'[r].step # "idle" => IsJob(req'[r].job, browse')
                        /\ req'[r].step \in {"queued", "running"} => lock' = r
                        /\ req'[r].did[1] = "started"
                              => Starts(req'[r].job, req'[r].did[2]) /\ req'[r].step = "emit"
      <3>1. \A r, s \in Requests, b \in Browses :
              Asks(req'[r], b) /\ Asks(req'[s], b) => r = s
        BY <1>6 DEF AskedInv
      <3> HIDE <1>3, <1>6
      <3> QED
        BY <3>1 DEF AskedInv
    <2>1. CASE o = r
      <3>1. /\ req'[r].step = "emit" /\ req'[r].job = req[r].job /\ req'[r].did = did
            /\ req[r].step = "running" /\ req[r].job = thread[t].job
        BY <1>3, <1>5, <2>1, ThreadPoolAssumption
      <3>2. IsJob(req[r].job, browse)
        BY <3>1 DEF AskedInv
      <3> QED
        BY <3>1, <3>2, <1>7
    <2>2. CASE o # r
      <3>1. req'[r] = req[r]
        BY <1>3, <2>2
      <3>2. req'[r].step \in {"queued", "running"} => lock' = r
        BY <1>1, <3>1, <1>5, <2>2, ThreadPoolAssumption DEF AskedInv
      <3> QED
        BY <3>1, <3>2, <1>7 DEF AskedInv
    <2> QED
      BY <2>1, <2>2
  <1>9. WorkInv'
    <2> SUFFICES ASSUME NEW u \in Threads, u # t, thread'[u] # Free
                 PROVE  LET j == thread'[u].job  r == thread'[u].owner IN
          /\ Worker(thread'[u]) /\ IsJob(j, browse')
          /\ (thread'[u].at = "resolved" => j[1] = "attach")
          /\ r # NoRequest => /\ req'[r].step = "running" /\ req'[r].job = j
                              /\ j[1] = "attach" /\ thread'[u].at # "begin"
                                    => browse'[j[2]].used = 0
          /\ \A v \in Threads : r # NoRequest /\ thread'[v].owner = r => v = u
          /\ \A v \in Threads, b \in Browses :
                Starts(j, b) /\ Starts(thread'[v].job, b) => v = u
          /\ \A s \in Requests, b \in Browses : Starts(j, b) /\ Asks(req'[s], b) => r = s
      <3> HIDE <1>3, <1>6
      <3> QED
        BY <1>4 DEF WorkInv
    <2> DEFINE x == thread[u]
    <2>1. /\ thread'[u] = x /\ x # Free /\ Worker(x) /\ IsJob(x.job, browse)
          /\ (x.at = "resolved" => x.job[1] = "attach")
          /\ x.owner # NoRequest => /\ req[x.owner].step = "running" /\ req[x.owner].job = x.job
                                    /\ x.job[1] = "attach" /\ x.at # "begin"
                                         => browse[x.job[2]].used = 0
      BY <1>4 DEF WorkInv
    <2>2. /\ \A v \in Threads : x.owner # NoRequest /\ thread[v].owner = x.owner => v = u
          /\ \A v \in Threads, b \in Browses :
                Starts(x.job, b) /\ Starts(thread[v].job, b) => v = u
          /\ \A s \in Requests, b \in Browses :
                Starts(x.job, b) /\ Asks(req[s], b) => x.owner = s
      BY <1>4 DEF WorkInv
    <2>3. x.owner # NoRequest => x.owner # o /\ x.owner \in Requests /\ lock = x.owner
      BY <1>5, <2>1, <2>2 DEF Worker, AskedInv, o
    <2>4. o # NoRequest => x.owner = NoRequest
      BY <1>5, <2>3
    <2>5. \A v \in Threads : thread'[v] = thread[v] \/ (v = t /\ thread'[v] = Free)
      BY <1>4
    <2>6. Free.owner = NoRequest /\ \A b : ~Starts(Free.job, b)
      BY DEF Free, Starts
    <2> HIDE DEF x
    <2>7. IsJob(x.job, browse')
      BY <1>7, <2>1
    <2>8. x.owner # NoRequest => req'[x.owner] = req[x.owner]
      BY <1>3, <2>3
    <2>9. x.owner # NoRequest => browse'[x.job[2]].used = browse[x.job[2]].used
      <3>1. x.job[2] \in Browses
        BY <2>1 DEF IsJob, Browses
      <3> QED
        BY <2>4, <3>1 DEF o
    <2>10. \A v \in Threads : x.owner # NoRequest /\ thread'[v].owner = x.owner => v = u
      BY <2>2, <2>5, <2>6
    <2>11. \A v \in Threads, b \in Browses :
              Starts(x.job, b) /\ Starts(thread'[v].job, b) => v = u
      BY <2>2, <2>5, <2>6
    <2>12. \A s \in Requests, b \in Browses :
              Starts(x.job, b) /\ Asks(req'[s], b) => x.owner = s
      BY <1>6, <2>2
    <2> QED
      BY <2>1, <2>7, <2>8, <2>9, <2>10, <2>11, <2>12
  <1> QED
    BY <1>3, <1>8, <1>9 DEF o

(* A thread goes on with its work.                                         *)
LEMMA ReachesKeep ==
    ASSUME AskedInv, WorkInv, NEW t \in Threads, thread[t] # Free,
           NEW at \in {"found", "resolved"}, at = "resolved" => thread[t].job[1] = "attach",
           thread[t].job[1] = "attach" /\ thread[t].owner # NoRequest
               => browse[thread[t].job[2]].used = 0,
           Reaches(t, at), UNCHANGED <<req, lock, browse>>
    PROVE  AskedInv' /\ WorkInv'
  <1> DEFINE x == thread[t]
             y == [x EXCEPT !.at = at]
  <1>1. thread' = [thread EXCEPT ![t] = y]
    BY DEF Reaches
  <1>2. Worker(x)
    BY DEF WorkInv
  <1> HIDE DEF x
  <1>3. Worker(y) /\ y.owner = x.owner /\ y.job = x.job /\ y.at = at
    BY ONLY <1>2 DEF Worker
  <1> HIDE DEF y
  <1>4. /\ thread'[t] = y /\ (\A u \in Threads \ {t} : thread'[u] = thread[u])
        /\ thread' = [u \in Threads |-> thread'[u]]
    BY <1>1 DEF WorkInv
  <1>5. \A u \in Threads : /\ thread'[u].owner = thread[u].owner
                           /\ thread'[u].job = thread[u].job
                           /\ thread[u] = Free => thread'[u] = Free
    BY <1>3, <1>4 DEF x
  <1>6. \A u \in Threads : thread[u] # Free =>
          /\ Worker(thread'[u])
          /\ thread'[u].at = "resolved" => thread[u].job[1] = "attach"
          /\ thread[u].owner # NoRequest /\ thread[u].job[1] = "attach" /\ thread'[u].at # "begin"
               => browse[thread[u].job[2]].used = 0
    BY <1>3, <1>4 DEF WorkInv, x
  <1>7. WorkInv'
    BY <1>4, <1>5, <1>6 DEF WorkInv, Browses
  <1> QED
    BY <1>7 DEF AskedInv, Browses

LEMMA TuplesAre ==
    ASSUME NEW a, NEW b, NEW c, NEW d, NEW e
    PROVE  /\ <<a>>[1] = a /\ <<a, b>>[1] = a /\ <<a, b>>[2] = b
           /\ <<a, b, c, d, e>>[1] = a /\ <<a, b, c, d, e>>[2] = b
           /\ <<a, b, c, d, e>>[3] = c /\ <<a, b, c, d, e>>[4] = d
           /\ <<a, b, c, d, e>>[5] = e
  OBVIOUS

LEMMA WorkerIs ==
    ASSUME WorkInv, NEW t \in Threads,
           thread[t].at # "none" \/ thread[t].job[1] \in {"start", "page", "attach"}
    PROVE  /\ thread[t] # Free /\ Worker(thread[t]) /\ IsJob(thread[t].job, browse)
           /\ thread[t].owner # NoRequest =>
                thread[t].owner \in Requests /\ req[thread[t].owner].job = thread[t].job
  <1>1. thread[t] # Free
    BY TuplesAre DEF Free
  <1> QED
    BY <1>1 DEF WorkInv, Worker

(* What a thread answers without having listed or changed anything.        *)
LEMMA PlainAnswerKeeps ==
    ASSUME QuietInv, AskedInv, WorkInv, ListedInv, UNCHANGED browse,
           NEW t \in Threads, thread[t] # Free, NEW did, Answers(t, did),
           did[1] = "started" => Starts(thread[t].job, did[2]), did[1] # "listed"
    PROVE  AskedInv' /\ WorkInv' /\ ListedInv'
  <1>1. /\ AskedInv' /\ WorkInv'
        /\ \A r \in Requests : /\ req'[r].job = req[r].job
                               /\ req'[r].did = IF thread[t].owner = r THEN did ELSE req[r].did
    BY AnswersKeep DEF Browses
  <1> QED
    BY <1>1, ListedKept DEF Browses

LEMMA StaysListed ==
    ListedInv /\ UNCHANGED <<req, browse>> => ListedInv'
  BY ListedKept DEF Browses

LEMMA BrowseLooksKeeps ==
    ASSUME QuietInv, BrowseInv, NEW t \in Threads, BrowseLooks(t)
    PROVE  BrowseInv'
  <1> DEFINE j == thread[t].job
  <1>1. /\ thread[t].at = "begin" /\ UNCHANGED <<connection, up, browse>>
        /\ thread[t] # Free /\ IsJob(j, browse)
    BY WorkerIs DEF BrowseLooks, BrowseInv
  <1>2. /\ Fresh \in Seq(Browses) /\ Evicted(Fresh) \in Seq(Browses)
        /\ \A b : Has(Fresh, b) \/ Has(Evicted(Fresh), b) => InBrowser(b)
    BY OnlyIs, EvictedIs DEF Fresh, BrowseInv, CatalogInv
  <1>3. live' \in {Fresh, Evicted(Fresh)}
    BY DEF BrowseLooks
  <1>4. CatalogInv'
    BY <1>1, <1>2, <1>3, CatalogKept DEF BrowseInv, CatalogInv, Browses
  <1>5. ASSUME Reaches(t, "found"), UNCHANGED <<req, lock>>,
               j[1] = "attach" => Has(Fresh, j[2])
        PROVE  BrowseInv'
    <2>1. j[1] = "attach" => browse[j[2]].used = 0
      <3>1. j[1] = "attach" => j[2] \in Browses /\ InBrowser(j[2])
        BY <1>1, <1>2, <1>5 DEF IsJob, Browses
      <3>2. \A b \in Browses : browse[b].used \in {0, 1}
        BY DEF BrowseInv, CatalogInv
      <3> QED
        BY <3>1, <3>2 DEF BrowseInv, CatalogInv
    <2>2. AskedInv' /\ WorkInv'
      BY <1>1, <1>5, <2>1, ReachesKeep DEF BrowseInv
    <2>3. ListedInv'
      BY <1>1, <1>5, StaysListed DEF BrowseInv
    <2> QED
      BY <1>4, <2>2, <2>3 DEF BrowseInv
  <1>6. ASSUME Answers(t, <<"refused">>) PROVE BrowseInv'
    <2>1. AskedInv' /\ WorkInv' /\ ListedInv'
      BY <1>1, <1>6, PlainAnswerKeeps, TuplesAre DEF BrowseInv
    <2> QED
      BY <1>4, <2>1 DEF BrowseInv
  <1>7. \/ j[1] = "start" /\ Reaches(t, "found") /\ UNCHANGED <<req, lock>>
        \/ /\ \E i \in DOMAIN Fresh : Fresh[i] = j[2]
           /\ Reaches(t, "found") /\ UNCHANGED <<req, lock>>
        \/ Answers(t, <<"refused">>)
    BY DEF BrowseLooks
  <1> QED
    BY <1>5, <1>6, <1>7 DEF Has

LEMMA RootsFoundKeeps ==
    ASSUME QuietInv, BrowseInv, NEW t \in Threads, RootsFound(t)
    PROVE  BrowseInv'
  <1> DEFINE j == thread[t].job
             b == j[2]
  <1>1. /\ j[1] = "start" /\ live' = Append(live, b) /\ Answers(t, <<"started", b>>)
        /\ UNCHANGED <<connection, up, browse>>
    BY DEF RootsFound
  <1>2. thread[t] # Free /\ b \in Browses /\ browse[b].told = 0 /\ Starts(j, b)
    BY <1>1, WorkerIs DEF BrowseInv, IsJob, Browses, Starts
  <1>3. CatalogInv'
    <2>1. live' \in Seq(Browses) /\ \A c : Has(live', c) => InBrowser(c) \/ c = b
      BY <1>1, <1>2, AppendIs DEF BrowseInv, CatalogInv, Has, InBrowser
    <2> QED
      BY <1>1, <1>2, <2>1, CatalogKept DEF BrowseInv, CatalogInv, Browses
  <1>4. AskedInv' /\ WorkInv' /\ ListedInv'
    BY <1>1, <1>2, PlainAnswerKeeps, TuplesAre DEF BrowseInv
  <1> QED
    BY <1>3, <1>4 DEF BrowseInv

LEMMA DirectoryUnavailableKeeps ==
    ASSUME QuietInv, BrowseInv, NEW t \in Threads, DirectoryUnavailable(t)
    PROVE  BrowseInv'
  <1>1. /\ thread[t].job[1] \in {"page", "attach"} /\ Answers(t, <<"refused">>)
        /\ UNCHANGED <<connection, up, live, browse>>
    BY DEF DirectoryUnavailable
  <1>2. thread[t] # Free
    BY <1>1, WorkerIs DEF BrowseInv
  <1>3. AskedInv' /\ WorkInv' /\ ListedInv'
    BY <1>1, <1>2, PlainAnswerKeeps, TuplesAre DEF BrowseInv
  <1>4. CatalogInv'
    BY <1>1, CatalogKept DEF BrowseInv, CatalogInv, Browses, Has, InBrowser
  <1> QED
    BY <1>3, <1>4 DEF BrowseInv

LEMMA ResolvedKeeps ==
    ASSUME QuietInv, BrowseInv, NEW t \in Threads, Resolved(t)
    PROVE  BrowseInv'
  <1>1. /\ thread[t].job[1] = "attach" /\ thread[t].at = "found" /\ Reaches(t, "resolved")
        /\ UNCHANGED <<req, connection, up, lock, live, browse>>
    BY DEF Resolved, browser
  <1>2. thread[t] # Free
    BY <1>1, WorkerIs DEF BrowseInv
  <1>3. thread[t].owner # NoRequest => browse[thread[t].job[2]].used = 0
    BY <1>1, <1>2 DEF BrowseInv, WorkInv
  <1>4. AskedInv' /\ WorkInv'
    BY <1>1, <1>2, <1>3, ReachesKeep DEF BrowseInv
  <1>5. ListedInv'
    BY <1>1, StaysListed DEF BrowseInv
  <1>6. CatalogInv'
    BY <1>1, CatalogKept DEF BrowseInv, CatalogInv, Browses, Has, InBrowser
  <1> QED
    BY <1>4, <1>5, <1>6 DEF BrowseInv

LEMMA ConsumeKeeps ==
    ASSUME QuietInv, BrowseInv, NEW t \in Threads, Consume(t)
    PROVE  BrowseInv'
  <1> DEFINE j == thread[t].job
             b == j[2]
             x == browse[b]
  <1>1. /\ thread[t].at = "resolved" /\ live' = Without(b) /\ Answers(t, <<"attached", b>>)
        /\ browse' = IF thread[t].owner = NoRequest THEN browse
                     ELSE [browse EXCEPT ![b].used = @ + 1]
        /\ UNCHANGED <<connection, up>>
    BY DEF Consume
  <1>2. /\ thread[t] # Free /\ b \in Browses /\ x.told # 0
        /\ thread[t].owner # NoRequest => x.used = 0
    <2>1. thread[t] # Free /\ IsJob(j, browse)
      BY <1>1, WorkerIs DEF BrowseInv
    <2>2. j[1] = "attach" /\ (thread[t].owner # NoRequest => x.used = 0)
      BY <1>1, <2>1 DEF BrowseInv, WorkInv
    <2> QED
      BY <2>1, <2>2 DEF IsJob, Browses
  <1>3. live' \in Seq(Browses) /\ ~Has(live', b) /\ \A c : Has(live', c) => InBrowser(c)
    <2>1. live \in Seq(Browses)
      BY DEF BrowseInv, CatalogInv
    <2> QED
      BY <1>1, <2>1, OnlyIs DEF Without
  <1> DEFINE B == [told : Nat, refs : SUBSET Children, cursors : SUBSET Nat,
                   expired : BOOLEAN, used : {0, 1}]
  <1>4. /\ Browses' = Browses /\ browse' \in [Browses -> B]
        /\ \A c \in Browses :
              /\ browse'[c].told = browse[c].told /\ browse'[c].refs = browse[c].refs
              /\ c # b \/ thread[t].owner = NoRequest => browse'[c].used = browse[c].used
    <2>1. browse \in [Browses -> B]
      BY DEF BrowseInv, CatalogInv
    <2>2. CASE thread[t].owner = NoRequest
      BY <1>1, <2>1, <2>2 DEF Browses
    <2>3. CASE thread[t].owner # NoRequest
      <3> DEFINE y == [x EXCEPT !.used = @ + 1]
      <3>1. browse' = [browse EXCEPT ![b] = y]
        BY <1>1, <2>3
      <3>2. x \in B /\ x.used = 0
        BY <1>2, <2>1, <2>3
      <3> HIDE DEF x
      <3>3. y \in B /\ y.told = x.told /\ y.refs = x.refs
        <4>1. x.used + 1 = 1
          BY <3>2
        <4> QED
          BY <3>2, <4>1
      <3> HIDE DEF y, B
      <3> QED
        BY <1>2, <2>1, <2>3, <3>1, <3>3 DEF Browses, x
    <2> QED
      BY <2>2, <2>3
  <1> HIDE DEF j, b, x
  <1>5. CatalogInv'
    BY <1>1, <1>2, <1>3, <1>4, CatalogKept DEF BrowseInv, CatalogInv, x
  <1>6. /\ AskedInv' /\ WorkInv'
        /\ \A r \in Requests :
              /\ req'[r].job = req[r].job
              /\ req'[r].did = IF thread[t].owner = r THEN <<"attached", b>> ELSE req[r].did
    BY <1>1, <1>2, <1>4, AnswersKeep, TuplesAre DEF BrowseInv
  <1>7. ListedInv'
    BY <1>4, <1>6, ListedKept, TuplesAre DEF BrowseInv
  <1> QED
    BY <1>5, <1>6, <1>7 DEF BrowseInv

LEMMA PageListedKeeps ==
    ASSUME QuietInv, BrowseInv, NEW t \in Threads, PageListed(t)
    PROVE  BrowseInv'
  <1> DEFINE j == thread[t].job
             b == j[2]
             x == browse[b]
             o == thread[t].owner
             B == [told : Nat, refs : SUBSET Children, cursors : SUBSET Nat,
                   expired : BOOLEAN, used : {0, 1}]
             y(page) == [x EXCEPT !.refs = @ \cup page.entries,
                                  !.cursors = @ \cup ({page.more} \ {0})]
  <1>1. PICK seen \in SUBSET Children, scanned \in BOOLEAN :
           LET page == Page(b, seen, j[3], scanned) IN
           /\ browse' = [browse EXCEPT ![b].refs = @ \cup page.entries,
                                       ![b].cursors = @ \cup ({page.more} \ {0})]
           /\ IF InBrowser(b)
              THEN /\ live' = Append(Without(b), b)
                   /\ Answers(t, <<"listed", b, page, seen, scanned>>)
              ELSE /\ live' = live
                   /\ Answers(t, <<"failed">>)
    BY DEF PageListed
  <1> DEFINE page == Page(b, seen, j[3], scanned)
             found == Sorted(seen)
             asked == {found[i] : i \in j[3]+1..Len(found)}
  <1>2. browse' = [browse EXCEPT ![b].refs = @ \cup page.entries,
                                 ![b].cursors = @ \cup ({page.more} \ {0})]
    BY <1>1
  <1>3. \/ /\ InBrowser(b) /\ live' = Append(Without(b), b)
           /\ Answers(t, <<"listed", b, page, seen, scanned>>)
        \/ live' = live /\ Answers(t, <<"failed">>)
    BY <1>1
  <1>4. /\ thread[t] # Free /\ j[1] = "page" /\ b \in Browses /\ j[3] \in Nat
        /\ x.told # 0 /\ UNCHANGED <<connection, up>>
        /\ o # NoRequest => o \in Requests /\ req[o].job = j
        /\ browse \in [Browses -> B] /\ x \in B /\ Cardinality(x.refs) <= MaxRefs
    BY WorkerIs DEF PageListed, BrowseInv, CatalogInv, IsJob, Browses
  <1>5. /\ page.entries \subseteq Children /\ page.more \in Nat
        /\ Cardinality(x.refs \cup page.entries) <= MaxRefs
        /\ scanned \/ asked # page.entries => page.truncated \/ page.more # 0
        /\ page.more # 0 => page.more = j[3] + Cardinality(page.entries)
    <2> DEFINE offset == j[3]
    <2>1. /\ browse[b].refs \subseteq Children /\ Cardinality(browse[b].refs) <= MaxRefs
          /\ offset \in Nat
      BY <1>4
    <2>2. LET p == Page(b, seen, offset, scanned)
              f == Sorted(seen)
              a == {f[i] : i \in offset+1..Len(f)}
          IN /\ p.entries \subseteq Children /\ p.more \in Nat
             /\ Cardinality(browse[b].refs \cup p.entries) <= MaxRefs
             /\ scanned \/ a # p.entries => p.truncated \/ p.more # 0
             /\ p.more # 0 => p.more = offset + Cardinality(p.entries)
      <3> HIDE DEF b, offset, x, o, B, j
      <3> QED
        BY ONLY <2>1, PageIs, seen \in SUBSET Children, scanned \in BOOLEAN
    <2> QED
      BY <2>2
  <1> HIDE DEF page, asked, found
  <1>6. browse' = [browse EXCEPT ![b] = y(page)]
    BY <1>2, <1>4
  <1>7. /\ y(page) \in B /\ y(page).told = x.told /\ y(page).used = x.used
        /\ y(page).refs = x.refs \cup page.entries
    <2> HIDE DEF x
    <2> QED
      BY <1>4, <1>5
  <1> HIDE DEF y, B
  <1>8. /\ Browses' = Browses /\ browse' \in [Browses -> B]
        /\ \A c \in Browses :
              /\ browse'[c].told = browse[c].told /\ browse'[c].used = browse[c].used
              /\ browse[c].refs \subseteq browse'[c].refs
              /\ Cardinality(browse'[c].refs) <= MaxRefs
        /\ page.entries \subseteq browse'[b].refs
    <2>1. Browses' = Browses /\ browse' \in [Browses -> B] /\ browse'[b] = y(page)
          /\ \A c \in Browses \ {b} : browse'[c] = browse[c]
      BY <1>4, <1>6, <1>7 DEF Browses
    <2>2. \A c \in Browses : Cardinality(browse[c].refs) <= MaxRefs
      BY DEF BrowseInv, CatalogInv
    <2> QED
      BY <1>5, <1>7, <2>1, <2>2
  <1>9. live' \in Seq(Browses) /\ \A c : Has(live', c) => InBrowser(c)
    <2>1. live \in Seq(Browses)
      BY DEF BrowseInv, CatalogInv
    <2>2. CASE live' = live
      BY <2>1, <2>2 DEF Has, InBrowser
    <2>3. CASE InBrowser(b) /\ live' = Append(Without(b), b)
      <3>1. Without(b) \in Seq(Browses) /\ \A c : Has(Without(b), c) => InBrowser(c)
        BY <2>1, OnlyIs DEF Without
      <3>2. \A c : Has(live', c) => Has(Without(b), c) \/ c = b
        BY <1>4, <2>3, <3>1, AppendIs
      <3>3. live' \in Seq(Browses)
        BY <1>4, <2>3, <3>1, AppendIs
      <3> QED
        BY <2>3, <3>1, <3>2, <3>3
    <2> QED
      BY <1>3, <2>2, <2>3
  <1>10. CatalogInv'
    BY <1>4, <1>8, <1>9, CatalogKept DEF BrowseInv, CatalogInv, B
  <1> HIDE DEF b, j, x, o
  <1>11. CASE Answers(t, <<"listed", b, page, seen, scanned>>)
    <2> DEFINE did == <<"listed", b, page, seen, scanned>>
    <2>1. did[1] = "listed" /\ did[2] = b
      BY TuplesAre
    <2>2. Honest(did, j[3], browse'[b].refs)
      <3>1. did[3] = page /\ did[4] = seen /\ did[5] = scanned
        BY TuplesAre
      <3>2. asked = {Sorted(seen)[i] : i \in j[3]+1..Len(Sorted(seen))}
        BY DEF asked, found
      <3> HIDE DEF did
      <3> QED
        BY <1>5, <1>8, <3>1, <3>2 DEF Honest
    <2> HIDE DEF did
    <2>3. Answers(t, did)
      BY <1>11 DEF did
    <2>4. /\ AskedInv' /\ WorkInv'
          /\ \A r \in Requests : /\ req'[r].job = req[r].job
                                 /\ req'[r].did = IF o = r THEN did ELSE req[r].did
      BY <1>4, <1>8, <2>1, <2>3, AnswersKeep DEF BrowseInv, o
    <2>5. \A r \in Requests : o = r => req'[r].job = j
      BY <1>4, <2>4, ThreadPoolAssumption
    <2>6. ListedInv'
      BY <1>4, <1>8, <2>1, <2>2, <2>4, <2>5, ListedKept DEF BrowseInv
    <2> QED
      BY <1>10, <2>4, <2>6 DEF BrowseInv
  <1>12. CASE Answers(t, <<"failed">>)
    <2>1. /\ AskedInv' /\ WorkInv'
          /\ \A r \in Requests : /\ req'[r].job = req[r].job
                                 /\ req'[r].did = IF o = r THEN <<"failed">> ELSE req[r].did
      BY <1>4, <1>8, <1>12, AnswersKeep, TuplesAre DEF BrowseInv, o
    <2>2. ListedInv'
      BY <1>8, <2>1, ListedKept, TuplesAre DEF BrowseInv
    <2> QED
      BY <1>10, <2>1, <2>2 DEF BrowseInv
  <1> QED
    BY <1>3, <1>11, <1>12

(* A request that no thread works for moves on, and who named a browse may *)
(* still do so.                                                            *)
LEMMA AskerMoves ==
    ASSUME QuietInv, AskedInv, WorkInv, NEW r \in Requests, NEW q,
           req' = [req EXCEPT ![r] = q], UNCHANGED thread, req[r].step # "running",
           q.step # "running", q.step = "queued" => lock' = r,
           q.step = "idle" => q = Idle, q.step # "idle" => IsJob(q.job, browse'),
           q.did[1] # "started",
           \A s \in Requests \ {r} :
              /\ req[s].step # "idle" => IsJob(req[s].job, browse')
              /\ req[s].step \in {"queued", "running"} => lock' = lock,
           \A t \in Threads : thread[t] # Free =>
              /\ IsJob(thread[t].job, browse')
              /\ browse'[thread[t].job[2]].used = browse[thread[t].job[2]].used,
           \A b \in Browses' : Asks(q, b) =>
              /\ \A s \in Requests \ {r} : ~Asks(req[s], b)
              /\ \A t \in Threads : thread[t] # Free => ~Starts(thread[t].job, b),
           \A s \in Requests \ {r}, b \in Browses' : Asks(req[s], b) => b \in Browses,
           \A t \in Threads, b \in Browses' :
              thread[t] # Free /\ Starts(thread[t].job, b) => b \in Browses
    PROVE  AskedInv' /\ WorkInv'
  <1>1. req'[r] = q /\ \A s \in Requests \ {r} : req'[s] = req[s]
    BY DEF QuietInv
  <1>2. \A s \in Requests, c \in Requests, b \in Browses' :
           Asks(req'[s], b) /\ Asks(req'[c], b) => s = c
    BY <1>1 DEF AskedInv
  <1>3. AskedInv'
    <2> SUFFICES ASSUME NEW s \in Requests
                 PROVE  /\ req'[s].step = "idle" => req'[s] = Idle
                        /\ req'[s].step # "idle" => IsJob(req'[s].job, browse')
                        /\ req'[s].step \in {"queued", "running"} => lock' = s
                        /\ req'[s].did[1] = "started"
                              => Starts(req'[s].job, req'[s].did[2]) /\ req'[s].step = "emit"
      BY <1>2 DEF AskedInv
    <2>1. CASE s = r
      BY <1>1, <2>1
    <2>2. CASE s # r
      BY <1>1, <2>2 DEF AskedInv
    <2> QED
      BY <2>1, <2>2
  <1>4. ASSUME NEW t \in Threads, thread[t] # Free, NEW o, o = thread[t].owner
        PROVE  /\ o # r
               /\ o # NoRequest => o \in Requests /\ req'[o] = req[o]
               /\ \A s \in Requests, b \in Browses' :
                    Starts(thread[t].job, b) /\ Asks(req'[s], b) => o = s
    <2>1. o # r
      BY <1>4, ThreadPoolAssumption DEF WorkInv
    <2>2. o # NoRequest => o \in Requests
      BY <1>4 DEF WorkInv, Worker
    <2>3. ASSUME NEW s \in Requests, NEW b \in Browses', Starts(thread[t].job, b),
                 Asks(req'[s], b)
          PROVE  o = s
      <3>1. s # r
        BY <1>1, <1>4, <2>3
      <3>2. Asks(req[s], b) /\ b \in Browses
        BY <1>1, <2>3, <3>1
      <3> QED
        BY <1>4, <2>3, <3>2 DEF WorkInv
    <2> QED
      BY <1>1, <2>1, <2>2, <2>3
  <1>5. ASSUME NEW t \in Threads, thread[t] # Free, NEW u \in Threads, NEW b \in Browses',
               Starts(thread[t].job, b), Starts(thread[u].job, b)
        PROVE  u = t
    BY <1>5 DEF WorkInv
  <1>6. WorkInv'
    <2> SUFFICES ASSUME NEW t \in Threads, thread[t] # Free
                 PROVE  LET j == thread[t].job  o == thread[t].owner IN
                        /\ Worker(thread[t]) /\ IsJob(j, browse')
                        /\ thread[t].at = "resolved" => j[1] = "attach"
                        /\ o # NoRequest => /\ req'[o].step = "running" /\ req'[o].job = j
                                            /\ j[1] = "attach" /\ thread[t].at # "begin"
                                                  => browse'[j[2]].used = 0
                        /\ \A u \in Threads : o # NoRequest /\ thread[u].owner = o => u = t
                        /\ \A u \in Threads, b \in Browses' :
                              Starts(j, b) /\ Starts(thread[u].job, b) => u = t
                        /\ \A s \in Requests, b \in Browses' :
                              Starts(j, b) /\ Asks(req'[s], b) => o = s
      BY DEF WorkInv
    <2> QED
      BY <1>4, <1>5 DEF WorkInv
  <1> QED
    BY <1>3, <1>6

(* Nobody moves, and the browses are told and used as they were.           *)
LEMMA AskersStay ==
    ASSUME AskedInv, WorkInv, UNCHANGED <<req, thread, lock>>, Browses' = Browses,
           \A b \in Browses : browse'[b].told = browse[b].told /\ browse'[b].used = browse[b].used
    PROVE  AskedInv' /\ WorkInv'
  <1>1. \A j : IsJob(j, browse) => IsJob(j, browse')
    BY JobKept DEF Browses
  <1>2. AskedInv'
    BY <1>1 DEF AskedInv
  <1>3. \A j : IsJob(j, browse) => browse'[j[2]].used = browse[j[2]].used
    BY DEF IsJob, Browses
  <1>4. ASSUME NEW t \in Threads, thread[t] # Free
        PROVE  /\ IsJob(thread[t].job, browse')
               /\ browse'[thread[t].job[2]].used = browse[thread[t].job[2]].used
    BY <1>1, <1>3, <1>4 DEF WorkInv
  <1>5. WorkInv'
    BY <1>4 DEF WorkInv
  <1> QED
    BY <1>2, <1>5

LEMMA ExpireKeeps ==
    ASSUME BrowseInv, NEW b \in Browses, Expire(b)
    PROVE  BrowseInv'
  <1> DEFINE B == [told : Nat, refs : SUBSET Children, cursors : SUBSET Nat,
                   expired : BOOLEAN, used : {0, 1}]
             x == browse[b]
             y == [x EXCEPT !.expired = TRUE]
  <1>1. browse \in [Browses -> B] /\ UNCHANGED <<req, thread, connection, up, lock, live>>
        /\ browse' = [browse EXCEPT ![b] = y]
    BY DEF Expire, BrowseInv, CatalogInv
  <1>2. x \in B
    BY <1>1
  <1> HIDE DEF x
  <1>3. y \in B /\ y.told = x.told /\ y.refs = x.refs /\ y.used = x.used
    BY <1>2
  <1> HIDE DEF y, B
  <1>4. /\ Browses' = Browses /\ browse' \in [Browses -> B]
        /\ \A c \in Browses : /\ browse'[c].told = browse[c].told
                              /\ browse'[c].refs = browse[c].refs
                              /\ browse'[c].used = browse[c].used
    BY <1>1, <1>3 DEF Browses, x
  <1>5. CatalogInv'
    BY <1>1, <1>4, CatalogKept DEF BrowseInv, CatalogInv, Has, InBrowser, B
  <1>6. AskedInv' /\ WorkInv'
    BY <1>1, <1>4, AskersStay DEF BrowseInv
  <1>7. ListedInv'
    BY <1>1, <1>4, ListedKept DEF BrowseInv
  <1> QED
    BY <1>5, <1>6, <1>7 DEF BrowseInv

LEMMA ConnectedAgainKeeps ==
    ASSUME BrowseInv, ConnectedAgain
    PROVE  BrowseInv'
  <1>1. /\ UNCHANGED <<req, thread, lock, browse>> /\ up' = TRUE
        /\ connection' = connection + 1 /\ live' = <<>>
    BY DEF ConnectedAgain, Reset
  <1>2. \A b : ~InBrowser(b)'
    BY <1>1 DEF InBrowser
  <1>3. connection' \in Nat \ {0} /\ live' \in Seq(Browses)
    BY <1>1 DEF BrowseInv, CatalogInv
  <1>4. CatalogInv'
    BY <1>1, <1>2, <1>3 DEF BrowseInv, CatalogInv, Browses
  <1>5. AskedInv' /\ WorkInv'
    BY <1>1, AskersStay DEF BrowseInv, Browses
  <1>6. ListedInv'
    BY <1>1, StaysListed DEF BrowseInv
  <1> QED
    BY <1>4, <1>5, <1>6 DEF BrowseInv

(* Nobody asks any more, and what runs runs for nobody.                    *)
LEMMA ConnectionLostKeeps ==
    ASSUME QuietInv, BrowseInv, ConnectionLost
    PROVE  BrowseInv'
  <1>1. /\ req' = [r \in Requests |-> Idle] /\ lock' = NoRequest /\ up' = FALSE
        /\ UNCHANGED <<connection, live, browse>>
        /\ thread' = [t \in Threads |-> IF thread[t].owner \in Requests
                                        THEN [thread[t] EXCEPT !.owner = NoRequest] ELSE thread[t]]
    BY DEF ConnectionLost, Abandoned
  <1>2. \A r \in Requests : req'[r] = Idle
    BY <1>1
  <1>3. CatalogInv'
    BY <1>1, CatalogKept DEF BrowseInv, CatalogInv, Browses, Has, InBrowser
  <1>4. AskedInv'
    BY <1>2, IdleIs, WordsAre DEF AskedInv, Asks
  <1>5. ListedInv'
    BY <1>2, IdleIs, WordsAre DEF ListedInv
  <1>6. ASSUME NEW t \in Threads
        PROVE  IF thread[t] = Free THEN thread'[t] = Free
               ELSE /\ Worker(thread'[t]) /\ thread'[t].owner = NoRequest
                    /\ thread'[t].job = thread[t].job /\ thread'[t].at = thread[t].at
    <2>1. CASE thread[t] = Free
      BY <1>1, <2>1, ThreadPoolAssumption DEF Free
    <2>2. CASE thread[t] # Free
      <3> DEFINE x == thread[t]
                 y == [x EXCEPT !.owner = NoRequest]
      <3>1. Worker(x)
        BY <2>2 DEF BrowseInv, WorkInv
      <3>2. thread'[t] = IF x.owner \in Requests THEN y ELSE x
        BY <1>1
      <3> HIDE DEF x
      <3>3. Worker(y) /\ y.owner = NoRequest /\ y.job = x.job /\ y.at = x.at
        BY ONLY <3>1 DEF Worker
      <3>4. x.owner \in Requests \/ x.owner = NoRequest
        BY <3>1 DEF Worker
      <3> HIDE DEF y
      <3> QED
        BY <2>2, <3>1, <3>2, <3>3, <3>4 DEF x
    <2> QED
      BY <2>1, <2>2
  <1>7. thread' = [t \in Threads |-> thread'[t]]
    BY <1>1
  <1>8. \A r \in Requests : \A b : ~Asks(req'[r], b)
    BY <1>2, IdleIs DEF Asks
  <1>9. \A t \in Threads : \A b : Starts(thread'[t].job, b) => Starts(thread[t].job, b)
    <2>1. ASSUME NEW t \in Threads PROVE thread'[t].job = thread[t].job
      BY <1>6
    <2> QED
      BY <2>1
  <1>10. ASSUME NEW t \in Threads, thread'[t] # Free
         PROVE  /\ thread[t] # Free /\ Worker(thread'[t]) /\ thread'[t].owner = NoRequest
                /\ IsJob(thread'[t].job, browse')
                /\ thread'[t].at = "resolved" => thread'[t].job[1] = "attach"
                /\ \A u \in Threads, b \in Browses' :
                      Starts(thread'[t].job, b) /\ Starts(thread'[u].job, b) => u = t
    <2>1. thread[t] # Free
      BY <1>6, <1>10
    <2>2. Worker(thread'[t]) /\ thread'[t].owner = NoRequest /\ thread'[t].job = thread[t].job
          /\ thread'[t].at = thread[t].at
      BY <1>6, <2>1
    <2> QED
      BY <1>1, <1>9, <2>1, <2>2 DEF BrowseInv, WorkInv, Browses
  <1>11. WorkInv'
    <2> SUFFICES ASSUME NEW t \in Threads, thread'[t] # Free
                 PROVE  LET j == thread'[t].job  o == thread'[t].owner IN
                        /\ Worker(thread'[t]) /\ IsJob(j, browse')
                        /\ thread'[t].at = "resolved" => j[1] = "attach"
                        /\ o = NoRequest
                        /\ \A u \in Threads, b \in Browses' :
                              Starts(j, b) /\ Starts(thread'[u].job, b) => u = t
                        /\ \A s \in Requests, b \in Browses' :
                              Starts(j, b) /\ Asks(req'[s], b) => o = s
      BY <1>7 DEF WorkInv
    <2> QED
      BY <1>8, <1>10
  <1> QED
    BY <1>3, <1>4, <1>5, <1>11 DEF BrowseInv

(* A new browse is one nobody has heard of.                                *)
LEMMA BrowseBeginKeeps ==
    ASSUME QuietInv, BrowseInv, NEW r \in Requests, NEW j \in BrowseJobs, BrowseBegin(r, j)
    PROVE  BrowseInv'
  <1> DEFINE q == Begun("lock", j)
             n == j[2]
             B == [told : Nat, refs : SUBSET Children, cursors : SUBSET Nat,
                   expired : BOOLEAN, used : {0, 1}]
  <1>1. /\ req' = [req EXCEPT ![r] = q] /\ UNCHANGED <<thread, connection, up, lock, live>>
        /\ req[r].step = "idle" /\ (j[1] # "start" => browse[n].told # 0)
        /\ j[1] = "page" => j[3] \in browse[n].cursors \cup {0}
        /\ browse' = IF j[1] = "start"
                     THEN [b \in Browses \cup {n} |-> IF b = n THEN NewBrowse ELSE browse[b]]
                     ELSE browse
    BY DEF BrowseBegin, Browses
  <1>2. \/ j[1] = "start" /\ n = Cardinality(Browses) + 1
        \/ j[1] \in {"page", "attach"} /\ n \in Browses
    BY TuplesAre DEF BrowseJobs, NextBrowse, Browses
  <1>3. q.step = "lock" /\ q.job = j /\ q.did = <<"nothing">>
    BY DEF Begun, Idle
  <1> HIDE DEF q
  <1>4. /\ browse \in [Browses -> B] /\ IsFiniteSet(Browses)
        /\ Browses \subseteq 1..Cardinality(Browses)
    BY DEF BrowseInv, CatalogInv
  <1>5. CASE j[1] = "start"
    <2>1. n \notin Browses /\ Cardinality(Browses) \in Nat
      <3>1. Cardinality(Browses) \in Nat
        BY <1>4, FS_CardinalityType
      <3> QED
        BY <1>2, <1>4, <1>5, <3>1
    <2>2. /\ Browses' = Browses \cup {n} /\ browse'[n] = NewBrowse
          /\ \A b \in Browses : browse'[b] = browse[b]
          /\ browse' = [b \in Browses \cup {n} |-> browse'[b]]
      BY <1>1, <1>5, <2>1 DEF Browses
    <2>3. /\ NewBrowse \in B /\ NewBrowse.told = 0 /\ NewBrowse.used = 0 /\ NewBrowse.refs = {}
      BY DEF NewBrowse
    <2> HIDE DEF B
    <2>4. browse' \in [Browses' -> B]
      BY <1>4, <2>2, <2>3
    <2>5. IsFiniteSet(Browses') /\ Browses' \subseteq 1..Cardinality(Browses')
      <3>1. IsFiniteSet(Browses') /\ Cardinality(Browses') = Cardinality(Browses) + 1
        BY <1>4, <2>1, <2>2, FS_AddElement
      <3> QED
        BY <1>2, <1>4, <1>5, <2>1, <2>2, <3>1
    <2>6. live \in Seq(Browses')
      <3>1. live \in Seq(Browses)
        BY DEF BrowseInv, CatalogInv
      <3> QED
        BY <2>2, <3>1
    <2>7. Cardinality({}) = 0 /\ MaxRefs \in Nat
      BY FS_EmptySet, DirectoryBrowserAssumption
    <2>8. \A b \in Browses' :
            /\ Cardinality(browse'[b].refs) <= MaxRefs
            /\ browse'[b].used = 1 => browse'[b].told # 0 /\ ~InBrowser(b)'
            /\ up' /\ InBrowser(b)' /\ browse'[b].told # 0 => browse'[b].told = connection'
      <3> SUFFICES ASSUME NEW b \in Browses'
                   PROVE  /\ Cardinality(browse'[b].refs) <= MaxRefs
                          /\ browse'[b].used = 1 => browse'[b].told # 0 /\ ~InBrowser(b)
                          /\ up /\ InBrowser(b) /\ browse'[b].told # 0
                                => browse'[b].told = connection
        BY <1>1 DEF InBrowser
      <3>1. CASE b = n
        BY <2>2, <2>3, <2>7, <3>1
      <3>2. CASE b \in Browses
        BY <2>2, <3>2 DEF BrowseInv, CatalogInv
      <3> QED
        BY <2>2, <3>1, <3>2
    <2>9. CatalogInv'
      <3>1. /\ connection' \in Nat \ {0} /\ up' \in BOOLEAN /\ live' \in Seq(Browses')
        BY <1>1, <2>6 DEF BrowseInv, CatalogInv
      <3> QED
        BY <2>4, <2>5, <2>8, <3>1 DEF CatalogInv, B
    <2>10. \A k : IsJob(k, browse) => IsJob(k, browse') /\ browse'[k[2]] = browse[k[2]]
                                      /\ k[2] \in Browses
      <3>1. \A k : IsJob(k, browse) => IsJob(k, browse')
        BY <2>2, JobKept DEF Browses
      <3> QED
        BY <2>2, <3>1 DEF IsJob, Browses
    <2>11. IsJob(j, browse')
      BY <1>5, <2>2, <2>3 DEF IsJob, Browses
    <2>12. \A s \in Requests : req[s].step # "idle" => IsJob(req[s].job, browse)
      BY DEF BrowseInv, AskedInv
    <2>13. \A t \in Threads : thread[t] # Free => IsJob(thread[t].job, browse)
      BY DEF BrowseInv, WorkInv
    <2>14. \A b : Asks(q, b) => b = n
      BY <1>3 DEF Asks, Starts
    <2>15. \A s \in Requests : \A b : Asks(req[s], b) => b \in Browses
      BY <2>10, <2>12 DEF Asks, Starts
    <2>16. \A t \in Threads : \A b : thread[t] # Free /\ Starts(thread[t].job, b) => b \in Browses
      BY <2>10, <2>13 DEF Starts
    <2>17. AskedInv' /\ WorkInv'
      <3> HIDE DEF n
      <3>1. /\ \A s \in Requests \ {r} :
                  /\ req[s].step # "idle" => IsJob(req[s].job, browse')
                  /\ req[s].step \in {"queued", "running"} => lock' = lock
            /\ \A t \in Threads : thread[t] # Free =>
                  /\ IsJob(thread[t].job, browse')
                  /\ browse'[thread[t].job[2]].used = browse[thread[t].job[2]].used
        BY <1>1, <2>10, <2>12, <2>13
      <3>2. \A b \in Browses' : Asks(q, b) =>
                  /\ \A s \in Requests \ {r} : ~Asks(req[s], b)
                  /\ \A t \in Threads : thread[t] # Free => ~Starts(thread[t].job, b)
        BY <2>1, <2>14, <2>15, <2>16
      <3>3. /\ req[r].step # "running" /\ q.step \notin {"idle", "running", "queued"}
            /\ q.did[1] # "started" /\ IsJob(q.job, browse')
        BY <1>1, <1>3, <2>11, WordsAre
      <3>4. AskedInv /\ WorkInv /\ req' = [req EXCEPT ![r] = q] /\ UNCHANGED thread
        BY <1>1 DEF BrowseInv
      <3> QED
        BY ONLY QuietInv, r \in Requests, <2>15, <2>16, <3>1, <3>2, <3>3, <3>4, AskerMoves
    <2>18. ListedInv'
      <3>1. req'[r] = q /\ \A s \in Requests \ {r} : req'[s] = req[s]
        BY <1>1 DEF QuietInv
      <3> QED
        BY <1>3, <2>2, <3>1, WordsAre, ListedKept DEF BrowseInv
    <2> QED
      BY <2>9, <2>17, <2>18 DEF BrowseInv
  <1>6. CASE j[1] # "start"
    <2>1. UNCHANGED browse /\ Browses' = Browses
      BY <1>1, <1>6 DEF Browses
    <2>2. CatalogInv'
      BY <1>1, <2>1, CatalogKept DEF BrowseInv, CatalogInv, Has, InBrowser
    <2>3. IsJob(j, browse)
      <3>1. n \in Browses /\ browse[n].cursors \subseteq Nat /\ browse[n].told # 0
        BY <1>1, <1>2, <1>4, <1>6
      <3> QED
        BY <1>1, <1>2, <1>6, <3>1 DEF IsJob, Browses
    <2>4. \A b : ~Asks(q, b)
      BY <1>3, <1>6 DEF Asks, Starts
    <2>5. AskedInv' /\ WorkInv'
      <3>1. \A s \in Requests : req[s].step # "idle" => IsJob(req[s].job, browse)
        BY DEF BrowseInv, AskedInv
      <3>2. \A t \in Threads : thread[t] # Free => IsJob(thread[t].job, browse)
        BY DEF BrowseInv, WorkInv
      <3> QED
        BY <1>1, <1>3, <2>1, <2>3, <2>4, <3>1, <3>2, WordsAre, AskerMoves DEF BrowseInv
    <2>6. ListedInv'
      <3>1. req'[r] = q /\ \A s \in Requests \ {r} : req'[s] = req[s]
        BY <1>1 DEF QuietInv
      <3> QED
        BY <1>3, <2>1, <3>1, WordsAre, ListedKept DEF BrowseInv
    <2> QED
      BY <2>2, <2>5, <2>6 DEF BrowseInv
  <1> QED
    BY <1>5, <1>6

LEMMA BrowseLockedKeeps ==
    ASSUME QuietInv, BrowseInv, NEW r \in Requests, BrowseLocked(r)
    PROVE  BrowseInv'
  <1> DEFINE q == [req[r] EXCEPT !.step = "queued"]
  <1>1. /\ req[r].step = "lock" /\ lock = NoRequest /\ lock' = r
        /\ req' = [req EXCEPT ![r] = q] /\ UNCHANGED <<thread, connection, up, live, browse>>
    BY DEF BrowseLocked, Locks, At
  <1>2. q.step = "queued" /\ q.job = req[r].job /\ q.did = req[r].did
    <2>1. IsRequest(req[r], QuietSteps)
      BY DEF QuietInv
    <2> QED
      BY <2>1, Stepped DEF QuietSteps
  <1> HIDE DEF q
  <1>3. CatalogInv'
    BY <1>1, CatalogKept DEF BrowseInv, CatalogInv, Browses, Has, InBrowser
  <1>4. \A s \in Requests : req[s].step \notin {"queued", "running"}
    BY <1>1, ThreadPoolAssumption DEF BrowseInv, AskedInv
  <1>5. /\ IsJob(req[r].job, browse) /\ req[r].did[1] # "started"
        /\ \A s \in Requests : req[s].step # "idle" => IsJob(req[s].job, browse)
    BY <1>1 DEF BrowseInv, AskedInv
  <1>6. \A t \in Threads : thread[t] # Free => IsJob(thread[t].job, browse)
    BY DEF BrowseInv, WorkInv
  <1>7. \A b \in Browses : Asks(q, b) =>
           /\ \A s \in Requests \ {r} : ~Asks(req[s], b)
           /\ \A t \in Threads : thread[t] # Free => ~Starts(thread[t].job, b)
    <2> SUFFICES ASSUME NEW b \in Browses, Asks(q, b)
                 PROVE  /\ \A s \in Requests \ {r} : ~Asks(req[s], b)
                        /\ \A t \in Threads : thread[t] # Free => ~Starts(thread[t].job, b)
      OBVIOUS
    <2>1. Asks(req[r], b)
      BY <1>1, <1>2 DEF Asks
    <2>2. \A s \in Requests \ {r} : ~Asks(req[s], b)
      BY <2>1 DEF BrowseInv, AskedInv
    <2>3. ASSUME NEW t \in Threads, thread[t] # Free, Starts(thread[t].job, b) PROVE FALSE
      <3>1. thread[t].owner = r
        BY <2>1, <2>3 DEF BrowseInv, WorkInv
      <3> QED
        BY <1>1, <2>3, <3>1, ThreadPoolAssumption DEF BrowseInv, WorkInv
    <2> QED
      BY <2>2, <2>3
  <1>8. AskedInv' /\ WorkInv'
    <2>1. \A s \in Requests : \A b : Asks(req[s], b) => b \in Browses
      BY <1>5 DEF Asks, Starts, IsJob, Browses
    <2>2. \A t \in Threads : \A b : thread[t] # Free /\ Starts(thread[t].job, b) => b \in Browses
      BY <1>6 DEF Starts, IsJob, Browses
    <2>3. Browses' = Browses
      BY <1>1 DEF Browses
    <2>4. q.step # "running" /\ (q.step = "queued" => lock' = r) /\ q.step # "idle"
          /\ q.did[1] # "started" /\ IsJob(q.job, browse')
      BY <1>1, <1>2, <1>5
    <2>5. AskedInv /\ WorkInv /\ UNCHANGED thread /\ req[r].step # "running"
      BY <1>1 DEF BrowseInv
    <2>6. /\ \A s \in Requests \ {r} :
                /\ req[s].step # "idle" => IsJob(req[s].job, browse')
                /\ req[s].step \in {"queued", "running"} => lock' = lock
          /\ \A t \in Threads : thread[t] # Free =>
                /\ IsJob(thread[t].job, browse')
                /\ browse'[thread[t].job[2]].used = browse[thread[t].job[2]].used
      BY <1>1, <1>4, <1>5, <1>6
    <2> QED
      BY <1>1, <1>7, <2>1, <2>2, <2>3, <2>4, <2>5, <2>6, AskerMoves
  <1>9. ListedInv'
    <2>1. req'[r] = q /\ \A s \in Requests \ {r} : req'[s] = req[s]
      BY <1>1 DEF QuietInv
    <2> QED
      BY <1>1, <1>2, <2>1, ListedKept DEF BrowseInv, Browses
  <1> QED
    BY <1>3, <1>8, <1>9 DEF BrowseInv

(* The lock is held by this request, so no thread works for another.       *)
LEMMA BrowseRunsKeeps ==
    ASSUME QuietInv, BrowseInv, NEW r \in Requests, NEW t \in Threads, BrowseRuns(t, r)
    PROVE  BrowseInv'
  <1> DEFINE q == [req[r] EXCEPT !.step = "running"]
             w == [owner |-> r, job |-> req[r].job, at |-> "begin"]
             j == req[r].job
  <1>1. /\ req[r].step = "queued" /\ thread[t] = Free
        /\ req' = [req EXCEPT ![r] = q] /\ thread' = [thread EXCEPT ![t] = w]
        /\ UNCHANGED <<connection, up, lock, live, browse>>
    BY DEF BrowseRuns, Takes, At, browser
  <1>2. q.step = "running" /\ q.job = j /\ q.did = req[r].did
    <2>1. IsRequest(req[r], QuietSteps)
      BY DEF QuietInv
    <2> QED
      BY <2>1, Stepped DEF QuietSteps
  <1>3. w.owner = r /\ w.job = j /\ w.at = "begin" /\ Worker(w)
    BY DEF Worker
  <1> HIDE DEF q, w
  <1>4. /\ req'[r] = q /\ (\A s \in Requests \ {r} : req'[s] = req[s])
        /\ thread'[t] = w /\ (\A u \in Threads \ {t} : thread'[u] = thread[u])
        /\ thread' = [u \in Threads |-> thread'[u]]
    BY <1>1 DEF QuietInv, BrowseInv, WorkInv
  <1>5. CatalogInv'
    BY <1>1, CatalogKept DEF BrowseInv, CatalogInv, Browses, Has, InBrowser
  <1>6. /\ lock = r /\ IsJob(j, browse) /\ req[r].did[1] # "started"
        /\ \A s \in Requests \ {r} : req[s].step \notin {"queued", "running"}
    BY <1>1 DEF BrowseInv, AskedInv
  <1>7. \A s \in Requests : \A b : Asks(req'[s], b) <=> Asks(req[s], b)
    BY <1>1, <1>2, <1>4 DEF Asks
  <1>8. AskedInv'
    <2> SUFFICES ASSUME NEW s \in Requests
                 PROVE  /\ req'[s].step = "idle" => req'[s] = Idle
                        /\ req'[s].step # "idle" => IsJob(req'[s].job, browse)
                        /\ req'[s].step \in {"queued", "running"} => lock = s
                        /\ req'[s].did[1] = "started"
                              => Starts(req'[s].job, req'[s].did[2]) /\ req'[s].step = "emit"
                        /\ \A c \in Requests, b \in Browses :
                              Asks(req'[s], b) /\ Asks(req'[c], b) => s = c
      BY <1>1 DEF AskedInv, Browses
    <2>1. \A c \in Requests, b \in Browses : Asks(req'[s], b) /\ Asks(req'[c], b) => s = c
      BY <1>7 DEF BrowseInv, AskedInv
    <2>2. CASE s = r
      BY <1>2, <1>4, <1>6, <2>1, <2>2
    <2>3. CASE s # r
      BY <1>4, <2>1, <2>3 DEF BrowseInv, AskedInv
    <2> QED
      BY <2>2, <2>3
  <1>9. ASSUME NEW u \in Threads, thread[u] # Free
        PROVE  thread[u].owner = NoRequest /\ u # t
    <2>1. thread[u].owner # NoRequest => thread[u].owner \in Requests
                                         /\ req[thread[u].owner].step = "running"
      BY <1>9 DEF BrowseInv, WorkInv, Worker
    <2> QED
      BY <1>1, <1>6, <1>9, <2>1
  <1>10. ASSUME NEW u \in Threads, NEW b \in Browses, thread[u] # Free, Starts(thread[u].job, b)
         PROVE  \A s \in Requests : ~Asks(req[s], b)
    BY <1>9, <1>10, ThreadPoolAssumption DEF BrowseInv, WorkInv
  <1>11. \A b : ~Starts(Free.job, b)
    BY WordsAre DEF Free, Starts
  <1>12. \A b : Starts(j, b) => Asks(req[r], b)
    BY <1>1 DEF Asks
  <1>13. ASSUME NEW u \in Threads, thread'[u] # Free
         PROVE  LET k == thread'[u].job  o == thread'[u].owner IN
                /\ Worker(thread'[u]) /\ IsJob(k, browse)
                /\ thread'[u].at = "resolved" => k[1] = "attach"
                /\ o # NoRequest => /\ req'[o].step = "running" /\ req'[o].job = k
                                    /\ k[1] = "attach" /\ thread'[u].at # "begin"
                                          => browse[k[2]].used = 0
                /\ \A v \in Threads : o # NoRequest /\ thread'[v].owner = o => v = u
                /\ \A v \in Threads, b \in Browses :
                      Starts(k, b) /\ Starts(thread'[v].job, b) => v = u
                /\ \A s \in Requests, b \in Browses :
                      Starts(k, b) /\ Asks(req'[s], b) => o = s
    <2>1. CASE u = t
      <3>1. \A v \in Threads : thread'[v].owner = r => v = u
        BY <1>4, <1>9, <2>1, ThreadPoolAssumption DEF Free
      <3>2. \A v \in Threads, b \in Browses : Starts(j, b) /\ Starts(thread'[v].job, b) => v = u
        BY <1>4, <1>10, <1>11, <1>12, <2>1
      <3>3. \A s \in Requests, b \in Browses : Starts(j, b) /\ Asks(req'[s], b) => r = s
        BY <1>7, <1>12 DEF BrowseInv, AskedInv
      <3> QED
        BY <1>2, <1>3, <1>4, <1>6, <2>1, <3>1, <3>2, <3>3
    <2>2. CASE u # t
      <3>1. thread'[u] = thread[u] /\ thread[u] # Free /\ thread[u].owner = NoRequest
        BY <1>4, <1>9, <1>13, <2>2
      <3>2. \A v \in Threads, b \in Browses :
               Starts(thread[u].job, b) /\ Starts(thread'[v].job, b) => v = u
        <4> SUFFICES ASSUME NEW v \in Threads, NEW b \in Browses, Starts(thread[u].job, b),
                            Starts(thread'[v].job, b)
                     PROVE  v = u
          OBVIOUS
        <4>1. v # t
          BY <1>3, <1>4, <1>10, <1>12, <3>1
        <4> QED
          BY <1>4, <3>1, <4>1 DEF BrowseInv, WorkInv
      <3>3. \A s \in Requests, b \in Browses : Starts(thread[u].job, b) => ~Asks(req'[s], b)
        BY <1>7, <1>10, <3>1
      <3>4. Worker(thread[u]) /\ IsJob(thread[u].job, browse)
            /\ (thread[u].at = "resolved" => thread[u].job[1] = "attach")
        BY <3>1 DEF BrowseInv, WorkInv
      <3> QED
        BY <3>1, <3>2, <3>3, <3>4
    <2> QED
      BY <2>1, <2>2
  <1>14. WorkInv'
    BY <1>1, <1>4, <1>13 DEF WorkInv, Browses
  <1>15. ListedInv'
    BY <1>1, <1>2, <1>4, ListedKept DEF BrowseInv, Browses
  <1> QED
    BY <1>5, <1>8, <1>14, <1>15 DEF BrowseInv

(* The platform is told of a browse that only its own request names.       *)
LEMMA BrowseToldKeeps ==
    ASSUME QuietInv, BrowseInv, NEW r \in Requests, BrowseTold(r)
    PROVE  BrowseInv'
  <1> DEFINE b == req[r].did[2]
             x == browse[b]
             y == [x EXCEPT !.told = connection]
             B == [told : Nat, refs : SUBSET Children, cursors : SUBSET Nat,
                   expired : BOOLEAN, used : {0, 1}]
  <1>1. /\ req[r].step = "emit" /\ req' = [req EXCEPT ![r] = Idle]
        /\ UNCHANGED <<thread, connection, up, lock, live>>
        /\ \/ browse' = browse
           \/ req[r].did[1] = "started" /\ browse' = [browse EXCEPT ![b] = y]
    BY DEF BrowseTold
  <1>2. req'[r] = Idle /\ \A s \in Requests \ {r} : req'[s] = req[s]
    BY <1>1 DEF QuietInv
  <1>3. browse \in [Browses -> B] /\ connection \in Nat \ {0}
    BY DEF BrowseInv, CatalogInv
  <1>4. /\ \A s \in Requests : req[s].step # "idle" => IsJob(req[s].job, browse)
        /\ \A t \in Threads : thread[t] # Free => IsJob(thread[t].job, browse)
    BY DEF BrowseInv, AskedInv, WorkInv
  <1>5. \A s \in Requests : \A c : Asks(req[s], c) => c \in Browses
    BY <1>4 DEF Asks, Starts, IsJob, Browses
  <1>6. \A t \in Threads : \A c : thread[t] # Free /\ Starts(thread[t].job, c) => c \in Browses
    BY <1>4 DEF Starts, IsJob, Browses
  <1>7. ASSUME Browses' = Browses, \A c \in Browses : browse'[c].used = browse[c].used,
               \A s \in Requests \ {r} : req[s].step # "idle" => IsJob(req[s].job, browse'),
               \A t \in Threads : thread[t] # Free => IsJob(thread[t].job, browse')
        PROVE  AskedInv' /\ WorkInv'
    <2>1. \A t \in Threads : thread[t] # Free =>
            browse'[thread[t].job[2]].used = browse[thread[t].job[2]].used
      BY <1>4, <1>7 DEF IsJob, Browses
    <2>2. \A c : ~Asks(Idle, c)
      BY IdleIs DEF Asks
    <2>3. Idle.step = "idle" /\ Idle.did[1] # "started"
      BY IdleIs, WordsAre
    <2> QED
      BY <1>1, <1>5, <1>6, <1>7, <2>1, <2>2, <2>3, AskerMoves DEF BrowseInv
  <1>8. CASE browse' = browse
    <2>1. AskedInv' /\ WorkInv'
      BY <1>4, <1>7, <1>8 DEF Browses
    <2>2. CatalogInv'
      BY <1>1, <1>8, CatalogKept DEF BrowseInv, CatalogInv, Browses, Has, InBrowser
    <2>3. ListedInv'
      BY <1>2, <1>8, IdleIs, WordsAre, ListedKept DEF BrowseInv, Browses
    <2> QED
      BY <2>1, <2>2, <2>3 DEF BrowseInv
  <1>9. CASE req[r].did[1] = "started" /\ browse' = [browse EXCEPT ![b] = y]
    <2>1. Starts(req[r].job, b) /\ Asks(req[r], b)
      BY <1>1, <1>9 DEF BrowseInv, AskedInv, Asks
    <2>2. b \in Browses /\ x.told = 0 /\ x.used = 0
      <3>1. b \in Browses /\ x.told = 0
        BY <1>1, <1>4, <2>1 DEF Starts, IsJob, Browses
      <3> QED
        BY <1>3, <3>1 DEF BrowseInv, CatalogInv
    <2>3. y \in B /\ y.told = connection /\ y.refs = x.refs /\ y.used = x.used
      <3>1. x \in B
        BY <1>3, <2>2
      <3> HIDE DEF x
      <3> QED
        BY <1>3, <3>1
    <2> HIDE DEF y, B
    <2>4. /\ Browses' = Browses /\ browse' \in [Browses -> B] /\ browse'[b] = y
          /\ \A c \in Browses \ {b} : browse'[c] = browse[c]
      BY <1>3, <1>9, <2>2, <2>3 DEF Browses
    <2>5. \A c \in Browses : browse'[c].refs = browse[c].refs /\ browse'[c].used = browse[c].used
      BY <2>3, <2>4
    <2> HIDE DEF b
    <2>6. \A k : IsJob(k, browse) /\ k[2] # b => IsJob(k, browse')
      BY <2>4 DEF IsJob, Browses
    <2>7. \A k : IsJob(k, browse) /\ k[2] = b => Starts(k, b)
      BY <2>2 DEF IsJob, Starts, x
    <2>8. ASSUME NEW s \in Requests \ {r}, req[s].step # "idle"
          PROVE  IsJob(req[s].job, browse')
      <3>1. ~Asks(req[s], b)
        BY <2>1, <2>2 DEF BrowseInv, AskedInv
      <3>2. IsJob(req[s].job, browse) /\ req[s].job[2] # b
        BY <1>4, <2>7, <2>8, <3>1 DEF Asks
      <3> QED
        BY <2>6, <3>2
    <2>9. ASSUME NEW t \in Threads, thread[t] # Free
          PROVE  IsJob(thread[t].job, browse')
      <3>1. ~Starts(thread[t].job, b)
        <4> SUFFICES ASSUME Starts(thread[t].job, b) PROVE FALSE
          OBVIOUS
        <4>1. thread[t].owner = r
          BY <2>1, <2>2, <2>9 DEF BrowseInv, WorkInv
        <4> QED
          BY <1>1, <2>9, <4>1, ThreadPoolAssumption DEF BrowseInv, WorkInv
      <3>2. IsJob(thread[t].job, browse) /\ thread[t].job[2] # b
        BY <1>4, <2>7, <2>9, <3>1
      <3> QED
        BY <2>6, <3>2
    <2>10. AskedInv' /\ WorkInv'
      BY <1>7, <2>4, <2>5, <2>8, <2>9
    <2>11. \A c \in Browses :
             /\ Cardinality(browse'[c].refs) <= MaxRefs
             /\ browse'[c].used = 1 => browse'[c].told # 0 /\ ~InBrowser(c)
             /\ up /\ InBrowser(c) /\ browse'[c].told # 0 => browse'[c].told = connection
      <3> SUFFICES ASSUME NEW c \in Browses
                   PROVE  /\ Cardinality(browse'[c].refs) <= MaxRefs
                          /\ browse'[c].used = 1 => browse'[c].told # 0 /\ ~InBrowser(c)
                          /\ up /\ InBrowser(c) /\ browse'[c].told # 0
                                => browse'[c].told = connection
        OBVIOUS
      <3>1. /\ Cardinality(browse[c].refs) <= MaxRefs
            /\ browse[c].used = 1 => browse[c].told # 0 /\ ~InBrowser(c)
            /\ up /\ InBrowser(c) /\ browse[c].told # 0 => browse[c].told = connection
        BY DEF BrowseInv, CatalogInv
      <3>2. browse'[c].refs = browse[c].refs /\ browse'[c].used = browse[c].used
        BY <2>5
      <3>3. CASE c = b
        BY <1>3, <2>2, <2>3, <2>4, <3>1, <3>2, <3>3 DEF x
      <3>4. CASE c # b
        BY <2>4, <3>1, <3>4
      <3> QED
        BY <3>3, <3>4
    <2>12. CatalogInv'
      <3>1. /\ connection' \in Nat \ {0} /\ up' \in BOOLEAN /\ live' \in Seq(Browses')
            /\ IsFiniteSet(Browses') /\ Browses' \subseteq 1..Cardinality(Browses')
        BY <1>1, <2>4 DEF BrowseInv, CatalogInv
      <3>2. \A c : InBrowser(c)' <=> InBrowser(c)
        BY <1>1 DEF InBrowser
      <3> QED
        BY <1>1, <2>4, <2>11, <3>1, <3>2 DEF CatalogInv, B
    <2>13. ListedInv'
      BY <1>2, <2>4, <2>5, IdleIs, WordsAre, ListedKept DEF BrowseInv
    <2> QED
      BY <2>10, <2>12, <2>13 DEF BrowseInv
  <1> QED
    BY <1>1, <1>8, <1>9

LEMMA BrowseStep ==
    ASSUME QuietInv, BrowseInv, ControlNext
    PROVE  BrowseInv'
  BY BrowseBeginKeeps, BrowseLockedKeeps, BrowseToldKeeps, BrowseRunsKeeps, BrowseLooksKeeps,
     RootsFoundKeeps, PageListedKeeps, DirectoryUnavailableKeeps, ResolvedKeeps, ConsumeKeeps,
     ExpireKeeps, ConnectionLostKeeps, ConnectedAgainKeeps DEF ControlNext, Browses

LEMMA BrowseInit ==
    Init => BrowsesInv
  <1> SUFFICES ASSUME Init PROVE BrowsesInv
    OBVIOUS
  <1>1. /\ req = [r \in Requests |-> Idle] /\ thread = [t \in Threads |-> Free]
        /\ connection = 1 /\ up = TRUE /\ live = <<>> /\ browse = [b \in {} |-> NewBrowse]
    BY DEF Init, PoolInit, BrowserInit
  <1>2. Browses = {} /\ IsFiniteSet(Browses) /\ live \in Seq(Browses)
    BY <1>1, FS_EmptySet DEF Browses
  <1>3. CatalogInv
    BY <1>1, <1>2 DEF CatalogInv, Browses
  <1>4. AskedInv /\ ListedInv
    BY <1>1, <1>2, IdleIs, WordsAre DEF AskedInv, ListedInv, Asks
  <1>5. WorkInv
    BY <1>1 DEF WorkInv
  <1> QED
    BY <1>2, <1>3, <1>4, <1>5, InitHolds DEF BrowsesInv, BrowseInv

LEMMA BrowsesStep ==
    BrowsesInv /\ [Next]_vars => BrowsesInv'
  <1> SUFFICES ASSUME BrowsesInv, [Next]_vars PROVE BrowsesInv'
    OBVIOUS
  <1>1. EffectsInv'
    BY StepHolds DEF BrowsesInv
  <1>2. CASE SessionNext
    BY <1>1, <1>2 DEF BrowsesInv, SessionNext, browser, Browses
  <1>3. CASE ControlNext
    BY <1>1, <1>3, BrowseStep DEF BrowsesInv, EffectsInv, ControlNext
  <1>4. CASE UNCHANGED <<req, thread, browser, channel>>
    <2>1. UNCHANGED <<req, thread, connection, up, lock, live, browse, channel>>
      BY <1>4 DEF browser
    <2>2. BrowseInv => BrowseInv'
      <3> SUFFICES ASSUME BrowseInv PROVE BrowseInv'
        OBVIOUS
      <3>1. AskedInv' /\ WorkInv' /\ ListedInv'
        BY <2>1, AskersStay, StaysListed DEF BrowseInv, Browses
      <3>2. CatalogInv'
        BY <2>1, CatalogKept DEF BrowseInv, CatalogInv, Browses, Has, InBrowser
      <3> QED
        BY <3>1, <3>2 DEF BrowseInv
    <2> QED
      BY <1>1, <2>1, <2>2 DEF BrowsesInv, Browses
  <1> QED
    BY <1>2, <1>3, <1>4 DEF Next, vars

LEMMA WordIsKept ==
    BrowsesInv => BrowsesKeepTheirWord
  <1> SUFFICES ASSUME BrowsesInv PROVE BrowsesKeepTheirWord
    OBVIOUS
  <1>1. CASE channel = "session"
    <2>1. Browses = {} /\ \A r \in Requests : req[r].did[1] # "listed"
      BY <1>1 DEF BrowsesInv, EffectsInv, SessionInv, RequestsSound, Sound
    <2> QED
      BY <2>1 DEF BrowsesKeepTheirWord, OneSelectionPerBrowse, OldReferencesAreGone,
                  CutListingsSaySo, BrowsingIsBounded, Browses
  <1>2. CASE channel # "session"
    <2>1. CatalogInv /\ ListedInv
      BY <1>2 DEF BrowsesInv, BrowseInv
    <2>2. OneSelectionPerBrowse
      <3>1. \A b \in Browses : browse[b].used \in {0, 1}
        BY <2>1 DEF CatalogInv
      <3> QED
        BY <3>1 DEF OneSelectionPerBrowse, Browses
    <2>3. OldReferencesAreGone /\ BrowsingIsBounded
      BY <2>1 DEF OldReferencesAreGone, BrowsingIsBounded, CatalogInv, Browses
    <2>4. CutListingsSaySo
      BY <2>1 DEF CutListingsSaySo, ListedInv, Honest
    <2> QED
      BY <2>2, <2>3, <2>4 DEF BrowsesKeepTheirWord
  <1> QED
    BY <1>1, <1>2

(* A browse is consumed by at most one attach, what an earlier connection  *)
(* was told stands for nothing, a listing that is cut says so or offers    *)
(* the rest, and no browse has a reference too many, for any number of     *)
(* requests, threads, browses and children (directory_browser.py:106, 186, *)
(* 263).                                                                   *)
THEOREM BrowsesKeepWord == Spec => []BrowsesKeepTheirWord
  <1>1. Init => BrowsesInv
    BY BrowseInit
  <1>2. BrowsesInv /\ [Next]_vars => BrowsesInv'
    BY BrowsesStep
  <1>3. BrowsesInv => BrowsesKeepTheirWord
    BY WordIsKept
  <1> QED
    BY <1>1, <1>2, <1>3, PTL DEF Spec

-----------------------------------------------------------------------------
(* Replies                                                                 *)

LEMMA RepliesStep ==
    ASSUME RepliesInv, [Next]_vars
    PROVE  RepliesInv'
  <1>1. CASE SessionNext \/ ControlNext
    BY <1>1, RepliesKept DEF SessionNext, ControlNext
  <1>2. CASE RepliesNext
    BY <1>2, RepliesKeep
  <1>3. CASE UNCHANGED vars
    BY <1>3, RepliesKept DEF vars
  <1> QED
    BY <1>1, <1>2, <1>3 DEF Next

(* A listing, a command's output or a tool's result that lacks something   *)
(* says so and keeps to its limits, and no more images go out in a minute  *)
(* than may, for any folder, output, result and limits (handlers.py:185,   *)
(* 1126, 1673).                                                            *)
THEOREM RepliesAreHonest == Spec => []RepliesSayWhatIsMissing
  <1>1. Init => RepliesInv
    BY RepliesStart DEF Init
  <1>2. RepliesInv /\ [Next]_vars => RepliesInv'
    BY RepliesStep
  <1>3. RepliesInv => RepliesSayWhatIsMissing
    BY RepliesSaid
  <1> QED
    BY <1>1, <1>2, <1>3, PTL DEF Spec

=============================================================================
