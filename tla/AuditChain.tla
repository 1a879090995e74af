----------------------------- MODULE AuditChain -----------------------------
(***************************************************************************)
(* The audit log on disk and the processes that use it.                    *)
(*                                                                         *)
(* The daemon's AuditWriter runs each write in a worker thread; a cancelled *)
(* write gives up its turn while its thread goes on.  `autogpt-shim audit` *)
(* commands are processes of their own: rotate has a writer too, verify-all *)
(* (and show, which reads as it does), export, prune and tail read.  All   *)
(* but tail, and the slow reads of prune and export, hold the lock file.   *)
(* Writes fail part way, files fail to move or to be created, and the      *)
(* daemon is killed at any step.                                           *)
(***************************************************************************)
EXTENDS Naturals, FiniteSets, Sequences

CONSTANTS
    Inodes,         (* the files that can exist at once                    *)
    Threads,        (* worker threads that can write at once               *)
    Commands,       (* `audit` commands that are run                       *)
    Kinds,          (* which of rotate, verify-all, export, prune they are *)
    MaxWrites,      (* bound on the records begun                          *)
    MaxClock,       (* bound on the seconds that pass between rotations    *)
    MaxCounter,     (* bound on rotations within one of them               *)
    MaxRunning,     (* bound on the commands, tail among them, that run    *)
    NoFile, NoOne

Stamps == 1..MaxClock
Names  == Stamps \X (0..MaxCounter)
Macs   == 1..MaxWrites

ASSUME AuditChainAssumption ==
    /\ MaxWrites \in Nat /\ MaxClock \in Nat \ {0} /\ MaxCounter \in Nat
    /\ NoFile \notin Inodes
    /\ NoOne \notin Threads \cup Commands /\ Threads \cap Commands = {}

VARIABLES
    disk,           (* the contents of every file                          *)
    log,            (* the file at the log's path                          *)
    rotated,        (* the file at each name rotation gives                *)
    aside,          (* files the user moved away, as the error tells them  *)
    clock,          (* the second it is                                    *)
    holder,         (* who holds the lock file                             *)
    daemon,         (* "down", "up", or "refused": the log is damaged      *)
    writer,         (* the fields of the daemon's AuditWriter              *)
    turn,           (* the thread whose write holds the asyncio lock       *)
    thread,         (* where each thread is in _write_sync                 *)
    written,        (* records begun: HMACs are numbered                   *)
    acked,          (* records whose write returned                        *)
    pruned,         (* records the user has deleted                        *)
    cmd,            (* every command                                       *)
    tail            (* the one `audit tail`                                *)

files   == <<disk, log, rotated, aside>>
process == <<daemon, writer, turn, thread>>
history == <<written, acked, pruned>>
vars    == <<files, clock, holder, process, history, cmd, tail>>

(***************************************************************************)
(* A file is what was written to it, piece by piece.  A piece is whole when *)
(* its newline is there, open when only that is missing, else torn.  Two   *)
(* pieces on one line do not parse.                                        *)
(***************************************************************************)
Piece == [seq : Nat \ {0}, prev : Macs \cup {0}, mac : Macs,
          cut : {"whole", "open", "torn"}]

Last(f) == f[Len(f)]

(* verify_records finds nothing: every line a record, numbered and chained. *)
Verified(f) ==
    \A k \in DOMAIN f :
        /\ f[k].cut = "whole" /\ f[k].seq = k
        /\ f[k].prev = IF k = 1 THEN 0 ELSE f[k - 1].mac

(* _load_tail_state reads the last line, with or without its newline ...   *)
TailReadable(f) ==
    f # <<>> => /\ Last(f).cut # "torn"
                /\ Len(f) > 1 => f[Len(f) - 1].cut = "whole"

(* ... and the chain goes on from there.                                   *)
ChainAfter(f) ==
    IF f = <<>> THEN [seq |-> 1, prev |-> 0]
    ELSE [seq |-> Last(f).seq + 1, prev |-> Last(f).mac]

(* What the path holds; a file that is not there reads as an empty one.    *)
Contents(i) == IF i = NoFile THEN <<>> ELSE disk[i]

(* _file_identity: which file, and how long.                               *)
Identity(i) ==
    [file |-> i, pieces |-> Len(Contents(i)),
     cut  |-> IF Contents(i) = <<>> THEN "whole" ELSE Last(Contents(i)).cut]

(* An AuditWriter that goes on where f ends.                               *)
WriterAfter(w, f) == [w EXCEPT !.seq = ChainAfter(f).seq, !.prev = ChainAfter(f).prev]

NoWriter == [seq |-> 1, prev |-> 0, state |-> Identity(NoFile)]

Rotated == {n \in Names : rotated[n] # NoFile}

(* A file that takes the inode of a deleted one is taken for another file: *)
(* by its length, which is not modelled to the byte, so the inode that the *)
(* writer remembers is not taken.                                          *)
InUse   == {log, tail.at, writer.state.file} \cup {rotated[n] : n \in Names}
           \cup aside
Free    == Inodes \ InUse

MacsIn(f) == {f[k].mac : k \in DOMAIN f}

FileIdentity == [file : Inodes \cup {NoFile}, pieces : Nat,
                 cut : {"whole", "open", "torn"}]

Writer == [seq : Nat \ {0}, prev : Macs \cup {0}, state : FileIdentity]

Command == [kind : {"none", "rotate", "verify-all", "export", "prune"},
            phase : {"idle", "force", "create", "read", "delete"},
            todo : [Names -> FileIdentity],
            owed : SUBSET Macs, seen : SUBSET Macs]

Nothing == [n \in Names |-> Identity(NoFile)]

Unused == [kind |-> "none", phase |-> "idle", todo |-> Nothing,
           owed |-> {}, seen |-> {}]

Init ==
    /\ disk = [i \in Inodes |-> <<>>]
    /\ log = NoFile
    /\ rotated = [n \in Names |-> NoFile]
    /\ aside = {}
    /\ clock = 1
    /\ holder = NoOne
    /\ daemon = "down"
    /\ writer = NoWriter
    /\ turn = NoOne
    /\ thread = [t \in Threads |-> "idle"]
    /\ written = 0 /\ acked = {} /\ pruned = {}
    /\ cmd = [c \in Commands |-> Unused]
    /\ tail = [phase |-> "off", at |-> NoFile, pos |-> 0, moved |-> FALSE]

(***************************************************************************)
(* The daemon's start and end.                                             *)
(***************************************************************************)

(* The constructor verifies what is there and loads the chain's end.  A    *)
(* log that does not verify, or not with the key that is loaded (the file  *)
(* fallback's when there is no keychain), is refused; one that is not      *)
(* there is created, or the start fails and is tried again.                *)
Open ==
    /\ daemon = "down" /\ holder = NoOne
    /\ \/ /\ log # NoFile
          /\ Verified(disk[log])
          /\ daemon' = "up"
          /\ writer' = WriterAfter([NoWriter EXCEPT !.state = Identity(log)],
                                  disk[log])
          /\ UNCHANGED files
       \/ /\ Contents(log) # <<>>
          /\ daemon' = "refused"
          /\ UNCHANGED <<writer, files>>
       \/ /\ log = NoFile
          /\ \E i \in Free :
                /\ log' = i
                /\ disk' = [disk EXCEPT ![i] = <<>>]
                /\ writer' = [NoWriter EXCEPT !.state.file = i]
          /\ daemon' = "up"
          /\ UNCHANGED <<rotated, aside>>
    /\ UNCHANGED <<clock, holder, turn, thread, history, cmd, tail>>

(* The process ends at any point; its locks go with it.                    *)
Killed ==
    /\ daemon # "down"
    /\ daemon' = "down"
    /\ writer' = NoWriter
    /\ turn' = NoOne
    /\ thread' = [t \in Threads |-> "idle"]
    /\ holder' = IF holder \in Threads THEN NoOne ELSE holder
    /\ UNCHANGED <<files, clock, history, cmd, tail>>

(* The user moves a damaged log aside, as the daemon's error tells them.   *)
MoveAside ==
    /\ daemon = "refused" /\ holder = NoOne
    /\ ~Verified(Contents(log))
    /\ aside' = aside \cup {log}
    /\ log' = NoFile
    /\ UNCHANGED <<disk, rotated, clock, holder, process, history, cmd, tail>>

(***************************************************************************)
(* One write: AuditWriter.write and, in its thread, _write_sync.           *)
(***************************************************************************)

Begin(t) ==
    /\ daemon = "up" /\ turn = NoOne /\ thread[t] = "idle"
    /\ turn' = t
    /\ thread' = [thread EXCEPT ![t] = "waiting"]
    /\ UNCHANGED <<files, clock, holder, daemon, writer, history, cmd, tail>>

(* The request is cancelled: the asyncio lock is free, the thread goes on. *)
CancelWrite(t) ==
    /\ turn = t
    /\ turn' = NoOne
    /\ UNCHANGED <<files, clock, holder, daemon, writer, thread, history,
                   cmd, tail>>

(* Faulty variant: a file that was appended to passes for the one that was *)
(* left, as long as nobody put another in its place.                       *)
ChainedByFile ==
    IF log = writer.state.file THEN writer
    ELSE WriterAfter(writer, Contents(log))

(* The chain to append to: reloaded when the file is not the one this      *)
(* writer left.                                                            *)
Chained ==
    IF Identity(log) = writer.state THEN writer
    ELSE WriterAfter(writer, Contents(log))

Take(t) ==
    /\ thread[t] = "waiting" /\ holder = NoOne
    /\ Identity(log) = writer.state \/ TailReadable(Contents(log))
    /\ holder' = t
    /\ writer' = Chained
    /\ thread' = [thread EXCEPT ![t] = "taken"]
    /\ UNCHANGED <<files, clock, daemon, turn, history, cmd, tail>>

(* Faulty variant: a failed write leaves the file locked.                  *)
GiveUpHolding(t) ==
    /\ thread' = [thread EXCEPT ![t] = "idle"]
    /\ turn' = IF turn = t THEN NoOne ELSE turn
    /\ UNCHANGED holder

GiveUp(t) ==
    /\ thread' = [thread EXCEPT ![t] = "idle"]
    /\ turn' = IF turn = t THEN NoOne ELSE turn
    /\ holder' = NoOne

(* The last line cannot be read: the write fails, as every later one will. *)
Unrecoverable(t) ==
    /\ thread[t] = "waiting" /\ holder = NoOne
    /\ Identity(log) # writer.state /\ ~TailReadable(Contents(log))
    /\ GiveUp(t)
    /\ UNCHANGED <<files, clock, daemon, writer, history, cmd, tail>>

(* Faulty variant: two rotations of one second take one name.              *)
TargetOfSecond == <<clock, 0>>

(* The name a rotation takes: never one that is in use.                    *)
Target == <<clock, CHOOSE k \in 0..MaxCounter :
                       /\ rotated[<<clock, k>>] = NoFile
                       /\ \A j \in 0..(k - 1) : rotated[<<clock, j>>] # NoFile>>

CanMove == \E k \in 0..MaxCounter : rotated[<<clock, k>>] = NoFile

MoveAway == 
    /\ rotated' = [rotated EXCEPT ![Target] = log]
    /\ log' = NoFile

(* A new chain starts, even if its file cannot be created.                 *)
Restarted == [writer EXCEPT !.seq = 1, !.prev = 0]

(* Size or age asks for a rotation, and the log moves away.  If neither    *)
(* does, or the move fails, the write goes on with the file there is.      *)
Rotate(t) ==
    /\ thread[t] = "taken"
    /\ Contents(log) # <<>> /\ CanMove
    /\ MoveAway
    /\ writer' = Restarted
    /\ thread' = [thread EXCEPT ![t] = "create"]
    /\ UNCHANGED <<disk, aside, clock, holder, daemon, turn, history, cmd, tail>>

Create(t) ==
    /\ thread[t] = "create"
    /\ \/ \E i \in Free :
             /\ log' = i
             /\ disk' = [disk EXCEPT ![i] = <<>>]
             /\ writer' = [writer EXCEPT !.state =
                             [file |-> i, pieces |-> 0, cut |-> "whole"]]
       \/ UNCHANGED <<log, disk, writer>>
    /\ thread' = [thread EXCEPT ![t] = "append"]
    /\ UNCHANGED <<rotated, aside, clock, holder, daemon, turn, history, cmd,
                   tail>>

NextPiece(cut) == [seq |-> writer.seq, prev |-> writer.prev,
                   mac |-> written + 1, cut |-> cut]

(* The record, or part of it, reaches the file, created if it is gone.     *)
Append1(t, cut) ==
    /\ thread[t] \in {"taken", "append"} /\ written < MaxWrites
    /\ \E i \in IF log = NoFile THEN Free ELSE {log} :
          /\ log' = i
          /\ disk' = [disk EXCEPT ![i] = Append(Contents(log), NextPiece(cut))]
    /\ written' = written + 1
    /\ thread' = [thread EXCEPT ![t] = "flush"]
    /\ UNCHANGED <<rotated, aside, clock, holder, daemon, writer, turn, acked,
                   pruned, cmd, tail>>

(* The rest follows.                                                       *)
Append2(t, cut) ==
    /\ thread[t] = "flush"
    /\ <<Last(disk[log]).cut, cut>> \in {<<"torn", "open">>, <<"torn", "whole">>,
                                         <<"open", "whole">>}
    /\ disk' = [disk EXCEPT ![log][Len(disk[log])].cut = cut]
    /\ UNCHANGED <<log, rotated, aside, clock, holder, process, history, cmd,
                   tail>>

(* The write fails with what has reached the file so far: the disk is      *)
(* full.  Nothing in memory has changed.                                   *)
Fail(t) ==
    /\ thread[t] \in {"taken", "append", "flush"}
    /\ GiveUp(t)
    /\ UNCHANGED <<files, clock, daemon, writer, history, cmd, tail>>

(* All of it is there: the chain advances, and the write returns.          *)
Return(t) ==
    /\ thread[t] = "flush" /\ Last(disk[log]).cut = "whole"
    /\ writer' = [writer EXCEPT !.seq = @ + 1, !.prev = Last(disk[log]).mac,
                                !.state = Identity(log)]
    /\ acked' = acked \cup {Last(disk[log]).mac}
    /\ GiveUp(t)
    /\ UNCHANGED <<files, clock, daemon, written, pruned, cmd, tail>>

(***************************************************************************)
(* audit rotate: it opens the log as any writer does, verifying it, lets   *)
(* the lock go, and rotates under it again.                                *)
(***************************************************************************)

Started == Cardinality({c \in Commands : cmd[c].kind # "none"})
           + (IF tail.phase = "off" THEN 0 ELSE 1)

(* A bound: each kind of command runs once.                                *)
Run(c, kind) ==
    /\ cmd[c].kind = "none" /\ kind \in Kinds /\ Started < MaxRunning
    /\ \A d \in Commands : cmd[d].kind # kind

End(c) == cmd' = [cmd EXCEPT ![c] = [Unused EXCEPT !.kind = cmd[c].kind]]

RotateOpens(c) ==
    /\ Run(c, "rotate")
    /\ holder = NoOne /\ log # NoFile
    /\ Verified(disk[log])
    /\ cmd' = [cmd EXCEPT ![c].kind = "rotate", ![c].phase = "force"]
    /\ UNCHANGED <<files, clock, holder, process, history, tail>>

(* force_rotate: a log that is gone, empty or cannot be moved stays.       *)
ForceRotate(c) ==
    /\ cmd[c].phase = "force" /\ holder = NoOne
    /\ \/ /\ Contents(log) # <<>> /\ CanMove
          /\ MoveAway
          /\ holder' = c
          /\ cmd' = [cmd EXCEPT ![c].phase = "create"]
       \/ End(c) /\ UNCHANGED <<log, rotated, holder>>
    /\ UNCHANGED <<disk, aside, clock, process, history, tail>>

ForceCreate(c) ==
    /\ cmd[c].phase = "create"
    /\ \/ \E i \in Free : log' = i /\ disk' = [disk EXCEPT ![i] = <<>>]
       \/ UNCHANGED <<log, disk>>
    /\ holder' = NoOne
    /\ End(c)
    /\ UNCHANGED <<rotated, aside, clock, process, history, tail>>

(***************************************************************************)
(* The readers.  verify-all and export list the files and read the current *)
(* one under one hold of the lock.  verify-all then reads each other file  *)
(* by its name under a hold of its own, and skips what was pruned; export  *)
(* reads them without the lock, and fails if one is not what it listed.    *)
(***************************************************************************)

Listing == [n \in Names |-> Identity(rotated[n])]
Listed(c) == {n \in Names : cmd[c].todo[n].file # NoFile}

(* What was acknowledged before it began and is still kept: owed.  The     *)
(* code has no such field; the properties compare it with what was seen.   *)
ListFiles(c) ==
    \E kind \in {"verify-all", "export"} :
        /\ Run(c, kind)
        /\ holder = NoOne
        /\ cmd' = [cmd EXCEPT ![c] =
             [kind |-> kind, phase |-> "read", todo |-> Listing,
              owed |-> acked \ (pruned \cup UNION {MacsIn(disk[i]) : i \in aside}),
              seen |-> MacsIn(Contents(log))]]
        /\ UNCHANGED <<files, clock, holder, process, history, tail>>

(* Faulty variant: export packs whatever has the name by now.              *)
ReadByName(c, n) ==
    /\ cmd[c].phase = "read" /\ n \in Listed(c)
    /\ cmd[c].kind = "verify-all" => holder = NoOne
    /\ cmd' = [cmd EXCEPT ![c].todo[n] = Identity(NoFile),
                          ![c].seen = @ \cup MacsIn(Contents(rotated[n]))]
    /\ UNCHANGED <<files, clock, holder, process, history, tail>>

ReadRotated(c, n) ==
    /\ cmd[c].phase = "read" /\ n \in Listed(c)
    /\ \/ /\ cmd[c].kind = "verify-all" => holder = NoOne
          /\ cmd[c].kind = "export" => Identity(rotated[n]) = cmd[c].todo[n]
          /\ cmd' = [cmd EXCEPT ![c].todo[n] = Identity(NoFile),
                                ![c].seen = @ \cup MacsIn(Contents(rotated[n]))]
       \/ /\ cmd[c].kind = "export" /\ Identity(rotated[n]) # cmd[c].todo[n]
          /\ End(c)
    /\ UNCHANGED <<files, clock, holder, process, history, tail>>

AllRead(c) == cmd[c].phase = "read" /\ Listed(c) = {}

Reported(c) ==
    /\ AllRead(c)
    /\ End(c)
    /\ UNCHANGED <<files, clock, holder, process, history, tail>>

(* audit prune reads without the lock which files are old, those of an     *)
(* earlier second at least, and deletes them under it.                     *)
PruneReads(c) ==
    /\ Run(c, "prune")
    /\ \E old \in SUBSET {n \in Rotated : n[1] < clock} :
          /\ old # {}
          /\ cmd' = [cmd EXCEPT ![c].kind = "prune", ![c].phase = "delete",
                                ![c].todo = [n \in Names |-> IF n \in old
                                  THEN Listing[n] ELSE Identity(NoFile)]]
    /\ UNCHANGED <<files, clock, holder, process, history, tail>>

PruneDeletes(c) ==
    /\ cmd[c].phase = "delete" /\ holder = NoOne
    /\ LET gone == {n \in Listed(c) : Listing[n] = cmd[c].todo[n]}
           kept == {i \in Inodes : \A n \in gone : rotated[n] # i \/ i = tail.at}
       IN /\ rotated' = [n \in Names |-> IF n \in gone THEN NoFile ELSE rotated[n]]
          /\ disk' = [i \in Inodes |-> IF i \in kept THEN disk[i] ELSE <<>>]
          /\ pruned' = pruned \cup UNION {MacsIn(disk[rotated[n]]) : n \in gone}
    /\ End(c)
    /\ UNCHANGED <<log, aside, clock, holder, process, written, acked, tail>>

(***************************************************************************)
(* audit tail (_follow) takes no lock: it asks whether the path now names  *)
(* another file, then reads a line; only when there is none does the       *)
(* answer count.                                                           *)
(***************************************************************************)

TailOpens ==
    /\ tail.phase = "off" /\ log # NoFile /\ Started < MaxRunning
    /\ tail' = [phase |-> "ask", at |-> log, pos |-> 0, moved |-> FALSE]
    /\ UNCHANGED <<files, clock, holder, process, history, cmd>>

TailAsks ==
    /\ tail.phase = "ask"
    /\ tail' = [tail EXCEPT !.phase = "read",
                            !.moved = log # NoFile /\ log # tail.at]
    /\ UNCHANGED <<files, clock, holder, process, history, cmd>>

(* The ends of the complete lines it has not printed yet.                  *)
Unread == {k \in DOMAIN disk[tail.at] : k > tail.pos /\ disk[tail.at][k].cut = "whole"}

TailPrints ==
    /\ tail.phase = "read" /\ Unread # {}
    /\ tail' = [tail EXCEPT !.phase = "ask",
                            !.pos = CHOOSE k \in Unread : \A j \in Unread : k <= j]
    /\ UNCHANGED <<files, clock, holder, process, history, cmd>>

(* Faulty variant: it leaves a file that has moved without reading on.     *)
TailMovesAtOnce ==
    /\ tail.phase = "read" /\ (tail.moved \/ Unread = {})
    /\ tail' = IF tail.moved /\ log # NoFile
               THEN [phase |-> "ask", at |-> log, pos |-> 0, moved |-> FALSE]
               ELSE [tail EXCEPT !.phase = "ask"]
    /\ UNCHANGED <<files, clock, holder, process, history, cmd>>

TailMoves ==
    /\ tail.phase = "read" /\ Unread = {}
    /\ tail' = IF tail.moved /\ log # NoFile
               THEN [phase |-> "ask", at |-> log, pos |-> 0, moved |-> FALSE]
               ELSE [tail EXCEPT !.phase = "ask"]
    /\ UNCHANGED <<files, clock, holder, process, history, cmd>>

(* Time matters once a name has been given in this second.                 *)
Tick ==
    /\ clock < MaxClock
    /\ \E k \in 0..MaxCounter : rotated[<<clock, k>>] # NoFile
    /\ clock' = clock + 1
    /\ UNCHANGED <<files, holder, process, history, cmd, tail>>

Next ==
    \/ Open \/ Killed \/ MoveAside \/ Tick
    \/ \E t \in Threads :
          \/ Begin(t) \/ CancelWrite(t)
          \/ Take(t) \/ Unrecoverable(t) \/ Rotate(t) \/ Create(t)
          \/ \E cut \in {"whole", "open", "torn"} : Append1(t, cut) \/ Append2(t, cut)
          \/ Fail(t) \/ Return(t)
    \/ \E c \in Commands :
          \/ RotateOpens(c) \/ ForceRotate(c) \/ ForceCreate(c)
          \/ ListFiles(c) \/ Reported(c) \/ \E n \in Names : ReadRotated(c, n)
          \/ PruneReads(c) \/ PruneDeletes(c)
    \/ TailOpens \/ TailAsks \/ TailPrints \/ TailMoves

Spec == Init /\ [][Next]_vars

(***************************************************************************)
(* Properties                                                              *)
(***************************************************************************)

(* Values have their types, and the lock has a holder exactly while one is *)
(* between taking it and letting it go.                                    *)
TypeOK ==
    /\ disk \in [Inodes -> Seq(Piece)]
    /\ log \in Inodes \cup {NoFile}
    /\ rotated \in [Names -> Inodes \cup {NoFile}]
    /\ aside \subseteq Inodes
    /\ clock \in Stamps
    /\ daemon \in {"down", "up", "refused"}
    /\ writer \in Writer
    /\ turn \in Threads \cup {NoOne}
    /\ thread \in [Threads -> {"idle", "waiting", "taken", "create", "append",
                               "flush"}]
    /\ written \in 0..MaxWrites
    /\ acked \subseteq Macs /\ pruned \subseteq Macs
    /\ cmd \in [Commands -> Command]
    /\ tail \in [phase : {"off", "ask", "read"}, at : Inodes \cup {NoFile},
                 pos : Nat, moved : BOOLEAN]
    /\ \A t \in Threads : (holder = t) <=> thread[t] \notin {"idle", "waiting"}
    /\ \A c \in Commands : (holder = c) <=> cmd[c].phase = "create"
    /\ holder \in Threads \cup Commands \cup {NoOne}

(* A record whose write returned stays on disk, wherever rotations and the *)
(* user moved its file, until the user prunes that file.                   *)
AckedIsKept ==
    acked \subseteq pruned \cup UNION {MacsIn(disk[i]) : i \in
        (({log} \cup {rotated[n] : n \in Rotated}) \ {NoFile}) \cup aside}

(* verify-all reports on every record that was acknowledged when it began  *)
(* and was not pruned since; export packs every one of them or fails.      *)
ReadersMissNothing ==
    \A c \in Commands : AllRead(c) =>
        cmd[c].owed \subseteq
            cmd[c].seen \cup IF cmd[c].kind = "export" THEN {} ELSE pruned

(* tail leaves a file only when it has printed every complete line of it.  *)
TailFinishesFiles ==
    [][tail'.at # tail.at /\ tail.at # NoFile =>
          \A k \in DOMAIN disk'[tail.at] :
              disk'[tail.at][k].cut = "whole" => k <= tail.pos]_vars

(* However rotations, appends and prunes fall between its steps,           *)
(* verify-all and export pass over no record that was acknowledged when    *)
(* they began, and tail over no record of a file it has opened             *)
(* (cli.py:742, 575).  A file that tail never opens is not meant: when the *)
(* log is rotated twice between two of its looks, it goes from the first   *)
(* file to the third, and what is in the second is not printed.            *)
ReadsAreWhole == []ReadersMissNothing /\ TailFinishesFiles

(* The log that verifies is AuditLog's: the records that are whole but for *)
(* their newline, of the log and of every file put away.  Only the last of *)
(* a file can be torn.                                                     *)
Records(f) ==
    LET legible == IF f # <<>> /\ Last(f).cut = "torn" THEN Len(f) - 1 ELSE Len(f)
    IN [k \in 1..legible |-> [seq |-> f[k].seq, prev |-> f[k].prev, mac |-> f[k].mac]]

Chain == INSTANCE AuditLog WITH
    current <- Records(Contents(log)),
    closed  <- {Records(disk[i]) : i \in {rotated[n] : n \in Rotated} \cup aside}
               \ {<<>>}

(* Whatever is cancelled, killed, torn or rotated by another process, the  *)
(* records of each file number and chain onto one another.                 *)
ImplementsAuditLog == Chain!Spec

=============================================================================
