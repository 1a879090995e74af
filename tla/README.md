# TLA+ model of the AutoGPT local executor

The local executor (`src/autogpt_local_executor/`) is a daemon ("shim") that
connects a person's computer to the AutoGPT platform over WebSockets and does
what chats ask of it: commands, file operations, computer use, recordings, a
local LLM. This directory holds TLA+ modules of its control logic, the TLC
configurations that check them, and TLAPS proofs. Paths below are relative to
`src/autogpt_local_executor/`.

## The system

| Component | State | Operations | Hard behaviour | What makes it correct |
|---|---|---|---|---|
| **Request dispatch** (`daemon.py`) | per child daemon: `_pending_requests`, `_queue_depth`, `_in_flight`, `_semaphore`, `_dispatch_tasks`, `_dispatch_generation`, `_detaching`, `_revoked_ws`; shared by all: `_machine_work_semaphore` | admit or refuse a frame, wait for a permit and a machine slot, run, answer, STATUS, revoke, drain, reconnect | requests that outlive their session in a thread; revocation while responses are in flight; idle detach racing a new request | counters exact, slots conserved, nothing sent after revocation, nothing started after the end, a paused platform is told to go on |
| **Session control** (`daemon.py`, `session_grants.py`) | `_session_bindings`, `_child_sessions`, `_session_locks`, `_children_lock` | ATTACH, ACTIVATE, RESTORE, DETACH, idle reaper, shutdown of the children | locks that come and go with their users, audit failures half-way, eviction, the control connection lost at any await | the child serves the bound directory, no child lost, none unaudited, none beside its predecessor, operations end |
| **Connection, authentication, restarts** (`daemon.py`, `auth.py`, `cli.py`, `templates/`) | each `run()` loop, `_disable_reconnect`, `_token_refresh_lock`, the token pair in the keychain, the exit code | upgrade, handshake, back off, refresh and store a token, sign in, revoke, exit, restart | several sockets refused at once; a rotated pair that is not stored; threads of cancelled tasks; a service manager that restarts | signed out only for cause, no refresh wasted, no restart loop, connected in the end |
| **Audit chain** (`audit.py`, `cli.py`) | sequence number, previous HMAC, file identity; the files | append, rotate, recover the tail, verify, show, export, prune, tail | several writing processes, torn appends, failed rotations, cancelled writes, a crash at any step | what verifies is one chain per file; what was acknowledged is kept; a file that is read is read whole |
| **Driver bridge** (`computer_use/`, `handlers.py`) | client, lock, turn, `_starts`, `_stop_unfinished` | list tools, call, start, replace, stop, close, look at the clipboard | overrun and cancelled calls, a driver that hangs or dies, a copy between two looks | no action nobody waits for, the budget counts failures only, nothing private is sent |
| **Recording** (`recording/`, `handlers.py`) | consent tokens, `_sessions`, `_active_recording_id`, `_consume_task`, each recording | consent, start, capture, stop, review, prune | a start cancelled half-way, two stops, retried reviews | one approval per recording and kind, the active one can be stopped, reviews stand (a preview: with it, or the local model, enabled the daemon refuses to start, `daemon.py:2059`) |
| **Directory browser** (`directory_browser.py`, `daemon.py`) | browse sessions, references, cursors, `_browser_lock` | list roots, page, resolve and consume, reset | expiry, budgets, a thread of a cancelled request, a reconnect | one attach per browse, none of an earlier connection, cut listings say so |
| **Handlers** (`handlers.py`, `fsops.py`, `local_llm_limits.py`) | concurrency count, `_inflight_lock`, process groups, rate windows | change files, run and stop commands, complete, list | cancellation while a side effect runs, a second one while the first is served, processes that ignore SIGTERM | what happened is recorded, what was stopped is gone, places come back, replies say what they leave out |
| **Path jail** (`path_jail.py`) | none | open, write, replace inside the root | – | only its outcome is modelled: its steps are OS calls |
| **Installer, doctor, configuration, platform probing, wire types** | none shared | – | – | not modelled |

The control daemon (one per computer) starts a child daemon per attached chat.
Both are instances of `ShimDaemon`, in one process and one asyncio loop: code
between two `await`s runs alone, everything else interleaves. Children share
the machine's request slots, the audit writer, the token-refresh lock, the
driver bridge, the screenshot window and the worker threads. `autogpt-shim
auth`, `revoke` and `audit ...` are processes of their own, which share the
keychain and the log files with the daemon.

## Modules

### `Dispatch`: the requests of the child daemons

State: `daemon` (the fields of each child, `NoDaemon` when there is none),
`generation` (`_dispatch_generation`), `req` (each request's asyncio task),
`pool` and `slotsFree` (the machine's slots). A task is "queued" (for its
connection's semaphore), "waiting" (for a machine slot), "running", or at its
"edge" (answered, its capacity STATUS not yet sent).

| Actions | Code |
|---|---|
| `Admit`, `Refuse` | `_on_frame` |
| `Start`, `TakeSlot`, `SlotTimeout` | `_dispatch`, `_handle_in_a_machine_slot` |
| `Finish`, `Drop`, `EdgeStatus` | the ways a handler ends, and the STATUS after it |
| `UnwindUnstarted`, `UnwindWaiting`, `UnwindRunning` | a cancelled task, by where it was |
| `Ticker` | `_status_ticker` |
| `Connect`, `Disconnect`, `FatalClose`, `CloseAudited`, `Revoke`, `RevokedClosed`, `DrainDone` | `_run_session`, `_handle_session_revoked`, `_drain_dispatch_tasks` |
| `StartChild`, `StopBegin`, `StopCancels`, `ReapDecide`, `ReapAbandon` | the child's life as session control drives it |
| `ControlReconnect` | `_handshake` of the control daemon: a new slot pool |

A connection can end with something awaited before its requests are cancelled: the
close of the socket when the child is stopped (`StopBegin`, then `StopCancels` or
whatever closes the connection first), and the audit of a fatal close code
(`FatalClose`, `CloseAudited`). Until then it serves as before (`Serving`): frames
that had arrived are admitted and queued work starts.

Abstractions. Settling the counters, stamping a response and handing it to
`ws.send` have no await between them, so they are one step. A handler that
holds a cancellation (`_run_to_completion`) ends like any other cancelled one:
its send is refused or fails. The revoked path's two drains are one. The idle
clock and "is it recording" are nondeterministic in `ReapDecide`; that a
request is queued, running or owes a frame is not.

### `SessionControl`: attach, activate, restore, detach, reap

State: `op` (each control request's task: what it awaits, and the locals it
will use after), `registry` (`_session_locks`), `stopper` (the holder of
`_children_lock` across an await), `bound` (`_session_bindings`, in order),
`slot` (`_child_sessions`), `child` (each child daemon), `grant`/`given` (the
root grants signed, and those the platform holds), `conn`. Each action is the
code between two awaits: `AttachEnters`, `AttachResolved`, `AttachAudited`, and
so on for each handler; `StopBegin`/`StopEnd` are `_stop_child_session`,
`Undone` the rollback of ACTIVATE and RESTORE, `ChildFinished` the
done-callback, `Drop`/`DrainDone` the loss of the control connection, which
cancels every operation where it is and undoes nothing, and
`ShutdownBegin`/`ShutdownEnd` what the next one does first.

Abstractions. A grant is its chat, root and revision; that it verifies is
nondeterministic (the directory may have changed). A revision sent with
ACTIVATE is right or wrong nondeterministically. Equal bindings are equal
grants (a grant carries its time of issue). A child's own work is Dispatch's:
here it is live, stopping or done. Two modules describe a child's start and
stop from their two sides; a module that composes them is not planned, because
they share only that interface (Dispatch's `StopBegin`, `StopCancels`
and `DrainDone` are what `StopEnd` waits for, and `EndingIsBounded` is what
makes its fairness true).

### `Connection`: the process, its connections, their tokens

State: `sock` (each `run()` loop: where it is, the access token it connects
with, the pair it refreshes and gets, why it will not go on), the token pairs
by what is still good for what (`issued`, `access`, `refresh`, `stored`,
`late`: pairs that threads of cancelled tasks still store), `refresher`
(`_token_refresh_lock`), `process` and how it ended, `cli` (a running
`revoke`), and `world`, what the program does not decide: trouble that passes,
a missing keychain, a barred account, another protocol version, the setting (right,
wrong, a permission not granted, or a failure to start that the code has no class
for), and the service manager.

| Actions | Code |
|---|---|
| `ReadToken`, `Upgrade`, `Handshake`, `Drop`, `CloseForGood`, `Wake` | `run`, `_handshake`, the backoff |
| `TakeLock`, `Recheck`, `Fetch`, `Rotate`, `Refused`, `Answer`, `Store` | `_get_access_token`, `OAuthFlow.refresh_token`, step by step |
| `StartChild`, `ChildEnds`, `Cancel`, `LateStore` | children, and what a cancellation leaves behind |
| `Preflight`, `Exit`, `Stopped`, `Restart`, `UserStarts` | `_cmd_start`, its exit codes, launchd's and systemd's rules |
| `SignIn`, `RevokeReads`, `RevokePosts`, `RevokeFails`, `RevokeClears` | `autogpt-shim auth` and `revoke` |

Pairs are numbered in the order they are issued; the platform takes a refresh
token once. An answer that no rule of the code covers is `Odd`: a redirect of the
upgrade (`daemon.py:242`), and in a refresh another status, a reply that does not
parse or has no token, any exception not named there (`daemon.py:780`). It ends the
daemon as a refusal does, however good its credentials are. `Preflight` can fail
with an error nothing classifies, which may pass or not. `disturbed` is history: a refresh was cut short, or the user signed
in or out, the two things after which a good sign-in can be lost.

### `AuditLog` and `AuditChain`: the audit log

`AuditLog` is what the log promises: one chain that only grows, numbered and
chained, chains put away that never change, pruning. `AuditChain` is how
`audit.py` does it: files as sequences of pieces, each whole, without its
newline, or torn; the writer's memory of the file it left; the lock file; each
write in its thread (`Begin`, `Take`, `Rotate`, `Create`, `Append1`, `Append2`,
`Return`, or `Fail`, `Unrecoverable`), its cancellation (`CancelWrite`: the
asyncio lock is free, the thread goes on), the process killed at any step
(`Killed`), and the commands of other processes (`RotateOpens`, `ForceRotate`,
`ListFiles`, `ReadRotated`, `PruneReads`, `PruneDeletes`, `TailAsks`,
`TailPrints`, `TailMoves`). `ImplementsAuditLog` is the refinement: the legible
records of the current file and of those put away are `AuditLog`'s chains.

### `ComputerUse`: the driver bridge

State: `caller` (each request), `turns` and `queue` (`_turn` and `_lock`, as
the queues of those who wait: `asyncio.Lock` is fair), `proc`, `acting` and
`stop` of each driver process, `client`, `starts` (the starts the budget counts,
as a set of drivers, which are numbered in the order they start: the last one is
what `_starts.pop()` takes off), `recent` (those still in the window), `ours`
(those the bridge stopped for a call: history), `close`, `private` (the clipboard's content). `Overruns` starts the
shielded stop; a request cancelled again leaves it to go on, so a turn can be
free while the old driver is still being stopped.

### `Recording`: consent, capture, stop, review

State: `rec`, `sessions`, `active`, `task`, `consume`, `tap`, `token`,
`op` (each request). `Start` is
everything up to the audit record of the start, `Audited` what follows; a
request cancelled between never takes the second step. A turn of the event loop
may take as long as an audit record, which allows a few more interleavings than
the loop does. A retried review is accepted again while its recording is registered;
one that pruning took is not found (`handlers.py:2612`).

Recording is a disabled preview, and so is the local model: with either enabled in
its configuration the daemon refuses to start (`daemon.py:2059`). The handlers are
built all the same, and the model is of them as enabled. The list of local models that
they get is empty (`daemon.py:1018`), so the route `local_vlm` can be asked for and
is never taken.

### `ThreadPool`, `SideEffects`, `DirectoryBrowser`, `Replies`, `WorkerThreads`

`ThreadPool` is what requests and worker threads have in common: work is taken
by a thread, returned to a request that still waits, or abandoned. `SideEffects`
adds FILE_WRITE, FILE_MOVE and FILE_DELETE (`FileBegin`, `FileStarts`,
`FileWorks`, `FileCancelled`: `_run_to_completion`), EXECUTE_COMMAND with its
process group (`CommandBegin`, `Spawned`, `SpawnCancelled`, `TimesOut`, `CommandCancelled`, `Terminate`,
`TermEnds`, `WaitEnds`, `Drained`, `StopCancelled`) and LOCAL_LLM_COMPLETION.
`DirectoryBrowser` adds the browse requests of the control channel
(`BrowseLooks`, `RootsFound`, `PageListed`, `Resolved`, `Consume`), the lock
that a cancelled request leaves while its thread goes on, and the reset by the
next connection. `Replies` has what is cut to fit a reply, as functions applied
to every small input: the walk of FILE_LIST (a folder's entries, those below it
and which of its folders can be read), the output of a command with its
truncation marker, the result of a computer tool with the window that limits
its images. It also has what the code leaves out without saying so: an entry whose
`lstat` fails, a subfolder whose kind cannot be told, output still in the pipe when
its readers' time is up, and what is no object in a driver's result. `Selection` has what the last two share: the members of a set in
order, and a sequence cut down to some of its places. `WorkerThreads` composes
them: the two kinds of channel share
nothing but the threads, and how long work waits for a thread is left open, so
one behaviour is of one channel, or of replies.

### Proof modules

`DispatchProofs`, `SessionControlProofs`, `ConnectionProofs`,
`AuditChainProofs`, `ComputerUseProofs`, `RecordingProofs`, `RepliesProofs` and
`WorkerThreadsProofs` extend the module they are named after with an inductive
invariant, lemmas and theorems, see Proofs.

## Runs

| Run | Instance | Checks |
|---|---|---|
| `dispatch` | 1 chat, 3 requests, 2 slots, 3 generations, 2 pools | types, exact counters, slots, admission, idle detach, silence and finality of a revocation, capacity told |
| `dispatch_live` | 2 chats, 2 requests, 1 slot, 1 control connection | ended work never starts, three liveness properties |
| `dispatch_reset` | 2 chats, 2 requests, 1 slot, 3 generations | finds the counterexample described under Findings |
| `sessions` | 1 chat, 3 operations, 2 roots, 2 grants, 2 children | locks, no lost child, bound root, audited starts, old children, detach |
| `sessions_shared` | 3 chats with 4 grants of an earlier daemon, 2 operations, 1 active child, 2 bindings | types (the binding limit), children within the limit |
| `sessions_live` | 2 chats, 2 operations | every operation ends |
| `connection` | the control daemon and one child, 3 token pairs, both service managers | types and the lock, signed out for cause (or for an `Odd` answer), refreshes what was refused, no restart loop and connects in the end (where what fails is classified) |
| `audit_chain` | 3 files, 2 threads, 2 commands of 4 kinds and a tail, 2 records, 2 seconds | types and the lock, acknowledged records kept, files read whole (not: a file that two rotations take past `tail`), the refinement of `AuditLog` |
| `computer_use` | 2 requests, 2 drivers, 1 start in the window | types and the locks, acts for someone, the budget, the clipboard |
| `recording` | 2 requests, 2 recordings of which 1 is retained, 2 approvals, 2 routes, 1 step, 2 reviews | the active one can be stopped, consent, reviews |
| `recording_tap` | 1 request, 1 recording | finds the counterexample described under Findings |
| `worker_threads` | 2 requests, 2 threads; 2 names, 1 command place; 2 children of a root, 2 browses, pages of 1, 1 reference, 2 connections; small limits of every reply | side effects accounted for, browses keep their word, replies say what is missing, each with the exceptions noted below |

Bounds, and why they are enough. A generation is a connection of a chat: three
let a request of one connection outlive it and meet a later one, with a drop or
a child's restart between. Three requests with two slots fill the limit and
leave one to refuse; two chats with one slot make one chat's work block the
other's. Three operations on one chat are needed for the lock registry: one
leaving, one waiting, one arriving. Two grants of one chat are needed for a
replacement, two more chats to evict its binding at `MaxBindings` = 2;
`MaxActive` < `MaxBindings` as in the code (8 and 64). `MaxGrants` bounds new
attachments; `Kinds` narrows the operations of the two larger instances (the
shared one only restores, which starts, replaces and rolls back; all kinds run
in `sessions`), and `Earlier` starts them with grants that the platform holds
from an earlier daemon, which is a state the program is in after a restart.

Two connections that are refused at once, one of which refreshes, need two
daemons and a second pair; a third is for a sign-in or a refresh after it.
Behaviours that reach `MaxPairs` are left out of `ConnectsInTheEnd` by its
premise. Two records let one be written after another was torn, rotated away or
written by a cancelled thread; three files are the log, a rotated one and one
moved aside or opened anew. Two drivers are the one being stopped and its
successor, and with a budget of one start every miscounted start shows. Two
recordings of which one is retained make the pruning choose. A browse with
places for fewer references than a root has children, in pages of one, meets
its budget on the first page and on the second. `MaxCancels` = 2 is a
cancellation and another one while the first is served; every later one is like
the second. The limits in `Replies` are below and above what the inputs can
need, and the marker's length is between the smallest and the largest limit;
of two blocks either can be left out for its size, and of two images one for the
rate.

Symmetry is used for safety only. Deadlock is checked except where
the system may really stop: `MCDispatch` (the platform may stop sending),
`MCAuditChain` and `MCWorkerThreads` (the bounds on records, cancellations and
connections end what can happen).

The mutants in `PROJECT.json` name, for each property, a plausible fault (a
stale counter, a lock dropped too early, a rollback left out, an exit code of
the other service manager, a marker that only stdout makes place for) that
makes TLC find it violated; the operators are in the modules, marked "Faulty
variant".

### Fairness

`Dispatch!LoopFairness`: the asyncio loop runs every runnable task, delivers
every cancellation to a task that is not in a thread, and fires every timer.
Handlers and threads need never return: `Finish`, `Drop` and `UnwindRunning`
are not fair, and the liveness properties hold nevertheless.

`SessionControl!Fairness`: threads and audit writes return; `asyncio.Lock`
serves its waiters in turn, hence strong fairness for a waiter; the child being
stopped ends, because its drain is bounded (`Dispatch!EndingIsBounded`); the
loop calls done-callbacks. Nothing is assumed of new requests, of live children
or of the connection.

`Connection!Spec`: every `run()` loop takes its next step, because each thing it
awaits ends (requests have timeouts, the backoff is bounded, the refresh lock is
released by whoever ends); the children of a connection that ends are stopped;
the process starts, exits and is started again by its manager. Nothing is
assumed of the network, the platform, the user or time: the two liveness
properties say what follows once the trouble has passed for good.

`Recording!LiveSpec` (for the finding only): audit writes and turns of the loop
end, a cancelled task ends, and an ended one leaves its source.

The other specifications state no fairness: their properties are about safety.

## Proofs

Every safety property the passing runs check is proved for every value of the
constants, from the assumptions the modules state and nothing else. So are the
refinement of `AuditLog`, `NoRestartLoop`, and what an invariant can say of two liveness properties
and of the driver bridge: that nobody waits for somebody who waits for them, and
that a platform that waits is told with the next frame. The theorems are listed in
`PROJECT.json`; what follows is the argument of each module. Almost none of the
properties is inductive: each module has an invariant (`IInv`, or the one named below) that TLC checks on the
run's instance as well, is proved of the initial states, and is kept by every
action, one lemma per action or per kind of action.

**`Dispatch`** (`DispatchProofs`). `IInv` adds

- `RequestInv`: a request carries a chat, a connection of it so far, and, once
  started, that connection's generation (a request let go is thereby told from
  a current one);
- `CurrentInv`: exactly the requests of the connection that serves are not
  cancelled, and its daemon knows them; this ties the cancellation, which the
  code does in one place, to where requests can be;
- `TaskInv`: a daemon's `_dispatch_tasks` are its own, so cancelling or
  dropping them touches no other chat;
- `CounterInv` (`Tally`): counters equal the cardinalities of the requests they
  count, `semaphore + inFlight` is the limit, and a revoked daemon is ending
  with `_disable_reconnect` set.

Type lemmas come first (no counter goes below zero), then one lemma per kind of
step, then `Invariance`. The state properties follow from `IInv`; the action
properties (`EndedWorkStaysDown`, `RevokedIsSilent`, `RevocationIsFinal`,
`CapacityIsTold`) from `IInv` and one step. Two theorems say what is left of
promises that are not kept, or not proved, as a whole. `EveryPoolIsKept`: in no
control connection's slots does more work run than it has, so that what
`dispatch_reset` finds above the limit is work of earlier connections.
`PausedIsToldNext`, the safety half of `PausedPlatformIsReleased`: while a
platform waits for capacity there is, nothing keeps the periodic STATUS from being
sent, and it tells of some.

**`SessionControl`** (`SessionControlProofs`: all seven state properties and
`DetachLeavesNothing`). Mutual exclusion needs the whole life of the registry
(`LockInv`): the lock object of a working operation is the one registered for its
chat, one object serves one chat, and a registered object has a user, so that one
dropped by its last user and made anew is never beside the old one. `PhaseInv`
says what the locals of each kind of operation are at each await, `ConnInv` who
may be there while the connection drains or is down, `ClearInv` that an operation
about to start a child has left its chat none, `TableInv`, `AuditInv`, `OldInv`
and `LimitInv` carry the child table, the audited starts, the children of an
earlier connection and the count. The rollbacks are the hard part: `AuditInv`
needs the operation that will audit the child or stop it, through every failure.
`NobodyWaitsInVain` is the safety half of `OperationsEnd`: whoever waits for a
chat's lock, or for `_children_lock`, is at most two locks away from an operation
that goes on by itself (`WaitsAreShort`), because the holder of `_children_lock`
waits for no other lock, and the child whose end it awaits was told to stop and is
not started again (`AwaitedInv`).

**`Connection`** (`ConnectionProofs`: types, `RefreshesWhatWasRefused`,
`SignedOutForCause`, `NoRestartLoop`). `RefreshInv` holds until something disturbs a refresh: the
keychain has a pair the platform issued; the loop with the lock has that pair, or
its successor still to store; every other loop has that pair or an older one,
and then the stored one works. So a loop that finds another token than the
refused one has a good one, and one that finds the same spends the right refresh
token; what makes it give up by a rule is then a cause, and `Odd` answers are the
rest. `Sound` adds what types leave out (what a loop stores is a pair it was
given), `DownInv` that no loop outlives the process. `NoRestartLoop` is a liveness
property that needs no fairness: in a calm world a process that has not ended for a
passing cause never ends for one (`Settled`), its exit code keeps either manager from
starting it again, and a restart, should there be one, makes it settled.

**`AuditChain`** (`AuditChainProofs`: types and the file lock, `AckedIsKept`,
`ReadsAreWhole`, `ImplementsAuditLog`). `PlaceInv`: a file is in one place.
`ChainInv`: in each file, numbers and HMACs chain and only the last record can be
torn. `MacInv`: an HMAC names one record in one place. `WriterInv`: whenever the
writer takes the file for the one it left (by identity and length), its number
and HMAC are those of the file's end. `ThreadInv`: what a thread with the file
lock may rely on between its steps. `ReaderInv`: what a reader still owes it has
seen, will see, or was pruned. For the refinement, the abstract chains are the
legible records of the files; `ImplementsChain` shows that each step appends one
record to the current chain, puts it away, prunes, or changes nothing that can
be read, torn appends and crashes included.

**`ComputerUse`** (`ComputerUseProofs`: types with the two locks,
`ActsForSomeone`, `BudgetCountsFailures`, `ClipboardKeptPrivate`). `BudgetInv`:
the driver that is the client, or is being started, is the last on the list of
starts, hence a stop takes its own entry off and no other. `ActingInv`: a process
that has ended does not act. `PrivateInv`: a request that holds private text is in
its look, and the clipboard is private still or has been seen to change.
`LocksAreGivenBack` says that the two locks and the drivers' ends cannot make
requests wait for each other (`LocksMoveOn`): whoever has the bridge's lock goes
on, or waits for a driver that was told to end; whoever has the turn goes on, or
is in the bridge's queue, or waits for the task there that stops its driver, or for
that driver's end. Its invariant, `WaitInv`, says who is in which queue, once; that
a driver being started or called is not to be stopped, since what is to stop one
would have passed before the caller in the bridge's queue; and that whatever is
closed was told to end.

**`Recording`** (`RecordingProofs`: `ConsentPerRecording`, `ActiveCanBeStopped`,
`ReviewsStand`). `IInv` adds that a request past its prompt works on a recording
that exists, and that one that never came to be has spent no approval. Pruning
keeps the active recording because that is the newest (`PruneKeepsActive`).

**`WorkerThreads`** (`WorkerThreadsProofs`: `SideEffectsAreAccounted`,
`BrowsesKeepTheirWord`, `RepliesSayWhatIsMissing`). `EffectsInv`: `Sound` says of each request what it has
done at its step (in particular, that a change without a record is one still on
its way to it, and that a stopped group past its stop is gone), `ThreadsSound`
that a working thread has one request, which runs, `PlacesSound` that places are
counted by those who hold them, `QuietInv` that the other channels have no side
effects. `BrowsesInv` adds, of browsing, `CatalogInv` (a consumed browse is not in
the browser, one told on an earlier connection is neither), `AskedInv` and
`WorkInv` (a browse not yet told is named by nobody but the request, or the
thread, that starts it; a thread has a waiting request only if that request has
the lock, and for an attach past its look the browse is unused) and `ListedInv`
(what a request remembers of a page stays true while the browse grows). A thread
left by a cancelled request is one with no owner: it may still insert, drop or
touch a browse, and cannot use one up. `PageIs` is about one page: it keeps the
budget of references and says when it leaves children out. `RepliesAreHonest`
is the third part's, from the next module's lemmas and invariant.

**`Replies`** (`RepliesProofs`). What a reply holds is computed at one step, so
most of the argument is about functions. The walk of a folder and the size of a
result are recursive functions of how far they have come. What they are is proved
by induction: the library's induction theorems are about predicates, which the
provers cannot instantiate, so the induction is on a set of numbers (`UpTo`, from
`LeastOf`, from the well-founded order of the naturals). From it, a walk that ends
without a mark has listed every entry that is to be listed; one that stops early is
marked; the blocks kept of a result fit. The output of a command is arithmetic. The
image limit is the one part with a memory, and `RepliesInv` its invariant: the
limiter's events are the last of the images sent, and the others are older than its
window, so no window has more than the limiter counted; what an answer says of a
listing, an output or a result is kept beside it.

What the proofs changed in the models. `DetachLeavesNothing` had a conjunct that
no step could violate, found because its proof did not need the invariant; it
now speaks of every child of the chat, after the step. Assumptions that TLC's
instances had always met were stated: `Kinds` has no other kind than the code's
requests, callers and drivers have no name in common, requests, names and
children are finite sets, commands have a natural number for limit. The list of
driver starts is a set of numbered drivers, the records of a file leave out
a torn last piece only, and `Sorted` and `Only` (`Selection`) define what library
operators (of which the provers know nothing) did. `Replies` was rewritten for its
proof: the walk and the size of a result are recursive functions instead of folds
and `RECURSIVE` operators, a tree is what the folder holds and what is found below
it, and its limits and the sizes of things are constants, each with a bound of its
own for TLC.

Only model-checked. Liveness that rests on fairness (`PausedPlatformIsReleased`,
`EndingIsBounded`, `SlotWaitIsBounded`, `OperationsEnd`, `ConnectsInTheEnd`): ENABLED
is out of the prover's reach. The counterexamples of the two findings
are TLC's, too.

## Findings

`dispatch_reset`: `docs/PROTOCOL.md` (Concurrency) says that a machine slot
stays taken until its work ends, including work still running in a thread after
its session ended. That holds while one control connection lasts
(`SlotsConserved`). `_handshake` gives the next control connection a new
semaphore with all slots free (`daemon.py:967`), so work let go before it runs
outside the limit.

`recording_tap`: `docs/WORKFLOW_RECORDING.md` says that the shim "tears the tap
down on STOP". The tap is put into the system before the start is audited
(`handlers.py:2474`, `2488`) and taken out when the task that drains it ends;
when START is cancelled during its audit, that task is never created, and STOP
finalizes the recording with the tap still observing input.

## Noted while modelling

True of the code and, unless it says otherwise, of the models. None of it has a run
of its own; where it disagrees with a comment of the code, that is said.

Dispatch. A request that waits for its turn can start after its child was told to
stop, while `stop` awaits the close of the socket (`daemon.py:515-523`, 1965), and
after the platform closed the connection for good, while that is audited (661-684).
Both are cancelled with the others right after; `EndedWorkNeverStarts` is about work
that starts once that is done.

Sessions. A reaper cancelled during its audit leaves the child refusing requests
until the next control connection stops it. The rollback of ACTIVATE and RESTORE
(`except Exception`) does not run when the operation is cancelled, which the
shutdown of the children by the next connection makes up for
(`OldChildrenStopped`, `NothingServesUnaudited` speak of a connection that is
up). A stop that is cancelled leaves a child that ends by itself and may overlap
its successor (`ChildrenWithinLimit` excludes it). A binding can be evicted while
its child waits to start. After a detach, or a restart, revisions start at 1
again, so an older grant of the chat can be restored.

Connection. A child that is stopped in the middle of a refresh loses the pair the
platform has just issued, and the machine is signed out; so do a crash there, a
keychain that fails to store, and `revoke` racing a refresh, after which a pair
can be stored that nobody revoked. `SignedOutForCause` names these cases by
`disturbed`. A refresh that is answered by no rule (`daemon.py:780-815`), and a
redirect of the upgrade (242-252), end the daemon with credentials that are good,
though the docstring at `daemon.py:209` has it that only a refresh token the platform
refuses ends the session for good; `SignedOutForCause` is not about these (`Odd`). A
failure to start that nothing classifies ends with exit code 78: an allowed root that
cannot be made (`daemon.py:434-439`), an audit log that cannot be opened, or
take its first record, for another reason than an `OSError` (418-421, 535-538), a
driver that fails or answers with an error when asked for permissions (2101-2121).
launchd restarts it for ever, although its template says of a failure no restart can
fix that `start` exits 0 (`templates/launchd.plist.template:30`), and systemd never,
although it may pass. So does a permission that is never granted, under launchd, by
design. `NoRestartLoop` and `ConnectsInTheEnd` speak of a world without these (`Calm`),
and the latter of such an end under systemd as one for good (`GivenUp`).

Audit. A record cut just before its newline reads as a whole one when the writer
recovers the tail; the next record is glued onto its line, where verification
stops, and the next start refuses the log. A record cut earlier makes every later
write fail until the file is moved aside, which the daemon's message says to do.
A torn file can be rotated away by `audit rotate`. Two rotations between two
looks of `audit tail` skip the file in the middle, records and all (`ReadsAreWhole`
says of `tail` only that it finishes the files it opens); a file truncated in place is
read from its start (not modelled). An inode that is used again is told apart by
its length alone; the model never gives the writer's file away.

Computer use. docs/CUA_DRIVER.md says that the driver runs one call at a time:
each process does, but a call that was cancelled twice frees its turn while its
driver is still being stopped, and the next call's driver can act beside it. A
start that is cancelled with its request counts against the restart budget.

Recording. Two concurrent STOPs of which one is slow can clear the slot of a
recording started between them, which then goes on and which no STOP finds any
more (the property `ActiveCanBeStopped` speaks of the recording the slot names,
never of one the slot lost), or answer INTERNAL_ERROR (`DrainFails`). A buffer directory that cannot be made
leaves the tap on without a recording. Nothing stops a
recording when its chat is detached or revoked. RECORDING_FETCH is answered for
an active recording, too.

Handlers and browsing. A command cancelled while asyncio still connects its pipes
(`handlers.py:556-589`) has run: asyncio kills its first process, but neither except
clause applies, so its group is not stopped and nothing is recorded
(`SpawnCancelled`), against the comment at `handlers.py:625` ("the command ran, so it
is recorded"). `StoppedGroupsAreGone` and `CommandsAreRecorded` name the case ("cut
short"). A second cancellation while a command is being stopped
ends the request at once: processes that ignored SIGTERM may live on, and nothing
is recorded, although the comment at `handlers.py:625` says that the stop is.
`StoppedGroupsAreGone` and `CommandsAreRecorded` name this one as well ("let go"). A
timeout, or a cancellation, whose command has exited by itself and left children
leaves these alone, too. Where the system has no rename that refuses to replace, the check and
the rename are two steps (`fsops.py:47`; the model has the atomic one). A thread
left over from an earlier connection can insert a browse nobody was told of after
the reset, one more than the limit. A cancelled attach uses up its browse.
A failed FILE_DELETE of a folder or FILE_WRITE may leave the folder half deleted
(`handlers.py:1296`), or the parents it made (967-970); the model's failure leaves
everything as it was, and no property says otherwise.

Replies. Four things are left out without a word, and excepted from
`RepliesSayWhatIsMissing`: output still unread when the readers are given up two
seconds after the command ended (`handlers.py:714-722`, with `output_truncated`
false); a subfolder that `is_dir` fails on (1171-1172), whose entries are not
listed; an entry that `lstat` fails on, because it is gone or for any other reason
(1205-1208); and what is no object among a driver's blocks, or as its structured
content (1688-1689, 1712-1713), although the docstring promises a note for anything
left out (1676-1678).

## Not modelled

- Wire schemas (`protocol.py`): declarative validation; a message that fails it
  never reaches a handler.
- Installer, doctor, configuration, platform probing: each a straight line of
  file writes, probes and formatting, run by one process, with nothing to
  interleave with.
- Path jail: a walk of OS calls; the handlers meet its outcome.
- FILE_READ, FILE_STAT, RECORDING_FETCH: they change no state.
- The write-back mode of `clipboard_read`, the argument catalogue, argument
  redaction, the recording's encryption: tables and library calls; what they
  refuse is a refusal of the request.
- Creation and storage of the audit key, TLS, the browser part of the sign-in,
  the Windows task scheduler.
- Windows in general: process groups, reparse points and renames are modelled as
  POSIX has them.

## Plan

Done: every component of the table but those under Not modelled; every safety
property of the runs proved, and the refinement of `AuditLog`; `NoRestartLoop`, and
the safety halves of `OperationsEnd` and `PausedPlatformIsReleased`; no circular wait
in the driver bridge.

Left, in order of worth and reach:

1. The safety half of `ConnectsInTheEnd`: while nothing is in the way, each step of a
   loop brings it nearer to a connection, as a variant.
2. A liveness run for the driver bridge: its properties are about safety, and
   `LocksAreGivenBack` says that nothing of the code stands in the way of progress.
3. More action properties that follow from the invariants at hand, where a
   reader would miss them.
