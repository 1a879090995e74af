------------------------------- MODULE Replies -------------------------------
(***************************************************************************)
(* What a reply holds when there is more than it may hold: the listing of  *)
(* FILE_LIST, the output of EXECUTE_COMMAND, and the result of a computer  *)
(* tool, whose images are also limited per minute, for all chats together. *)
(* Text is its length; a reply is put together in one step.                *)
(***************************************************************************)
EXTENDS Selection, SequencesExt, FiniteSetsExt

CONSTANTS
    MaxEntries,     (* MAX_FILE_LIST_ENTRIES                               *)
    MaxScanned,     (* MAX_FILE_LIST_SCANNED                               *)
    ReplyBudget,    (* FILE_LIST_REPLY_BUDGET_BYTES                        *)
    FileSize,       (* the bytes of an entry in the reply: one that is a   *)
    FolderSize,     (* file, one that is a folder                          *)
    MaxFolder,      (* bound on the entries of the folder listed           *)
    MaxBelow,       (* bound on those found below it                       *)
    MarkerLength,   (* of the truncation marker of a command's output      *)
    MaxOutput,      (* bound on max_file_size_bytes and on the output      *)
    ResultBudget,   (* MAX_WIRE_BASE64_CONTENT_BYTES                       *)
    TextLimit,      (* MAX_WIRE_TEXT_CONTENT_BYTES                         *)
    MaxBlocks,      (* bound on the blocks of a result                     *)
    BlockSizes,     (* the sizes of blocks, and of the structured part of  *)
    PartSizes,      (* a result: 0 if there is none                        *)
    MaxImages,      (* max_screenshots_per_minute                          *)
    Window,         (* the limiter's minute                                *)
    MaxTime         (* bound on the time that passes                       *)

ASSUME RepliesAssumption ==
    /\ {MaxEntries, MaxScanned, ReplyBudget, FileSize, FolderSize, MaxFolder, MaxBelow,
        MarkerLength, MaxOutput, ResultBudget, MaxBlocks, MaxImages, MaxTime} \subseteq Nat
    /\ BlockSizes \subseteq Nat /\ PartSizes \subseteq Nat
    /\ Window \in Nat \ {0} /\ TextLimit \in 0..ResultBudget

VARIABLES
    now,            (* time.monotonic()                                    *)
    events,         (* _screenshot_rate._events                            *)
    sent,           (* when every image was sent: history                  *)
    answer          (* the reply                                           *)

replies == <<now, events, sent, answer>>

NoAnswer == [to |-> "nothing"]
Collecting == answer.to = "command" /\ ~answer.finished

RepliesInit == now = 0 /\ events = <<>> /\ sent = <<>> /\ answer = NoAnswer

(***************************************************************************)
(* FILE_LIST.  A tree is what the folder asked for holds, what is found    *)
(* below it in the order of the walk, and whether every folder below it    *)
(* could be read.  An entry is one to list, a folder to list and to enter, *)
(* a folder to list but "unsure" for the walk, which passes over it        *)
(* silently when its type cannot be told, a folder only to pass through,   *)
(* one "lost" silently when it cannot be looked at, be it gone or out of   *)
(* reach, or "other": hidden, not matching, or with a name no reply can    *)
(* carry.                                                                  *)
(***************************************************************************)

Entry == {"file", "folder", "unsure", "passed", "lost", "other"}
Entered(entries) == \E i \in DOMAIN entries : entries[i] \in {"folder", "passed"}

(* Nothing is found, and nothing is left unread, where nothing is entered. *)
Trees == {tree \in [base : BoundedSeq(Entry, MaxFolder), below : BoundedSeq(Entry, MaxBelow),
                    readable : BOOLEAN] :
              ~Entered(tree.base) => tree.below = <<>> /\ tree.readable}

(* _candidates: a folder's entries, then those of its subfolders.          *)
Candidates(tree) == tree.base \o tree.below

Size(e) == IF e \in {"folder", "unsure"} THEN FolderSize ELSE FileSize

(* One turn of _walk, that looks at the k-th candidate.                    *)
Look(w, k, e, limit) ==
    LET cut == [w EXCEPT !.over = TRUE]
    IN CASE w.over -> w
         [] ~w.over /\ k > MaxScanned -> cut
         [] ~w.over /\ k <= MaxScanned /\ e \in {"other", "passed"} -> w
         [] OTHER ->
              IF Cardinality(w.listed) >= limit THEN cut
              ELSE IF e = "lost" THEN w
              ELSE IF w.bytes + Size(e) > ReplyBudget THEN cut
              ELSE [w EXCEPT !.bytes = @ + Size(e), !.listed = @ \cup {k}]

(* Faulty variant: a subfolder that cannot be read passes for an empty one.*)
SaysAllRead(tree, w) == w.over

Truncates(tree, w) == w.over \/ ~tree.readable

(* The walk after every candidate.                                         *)
Walked(seen, limit) ==
    LET walk[k \in 0..Len(seen)] ==
            IF k = 0 THEN [listed |-> {}, bytes |-> 0, over |-> FALSE]
            ELSE Look(walk[k - 1], k, seen[k], limit)
    IN walk

Walk(tree, limit) ==
    LET seen == Candidates(tree)
        end  == Walked(seen, limit)[Len(seen)]
    IN [to |-> "list", tree |-> tree, limit |-> limit, listed |-> end.listed,
        bytes |-> end.bytes, truncated |-> Truncates(tree, end)]

List(tree, limit) ==
    /\ answer = NoAnswer
    /\ answer' = Walk(tree, limit)
    /\ UNCHANGED <<now, events, sent>>

(***************************************************************************)
(* EXECUTE_COMMAND: _BoundedCombinedOutput.                                *)
(***************************************************************************)

Collect(limit) ==
    /\ answer = NoAnswer
    /\ answer' = [to |-> "command", limit |-> limit, stdout |-> 0, stderr |-> 0, fed |-> 0, unread |-> 0,
                  truncated |-> FALSE, marker |-> 0, finished |-> FALSE]
    /\ UNCHANGED <<now, events, sent>>

Feed(channel, n) ==
    LET kept == Min({n, answer.limit - answer.stdout - answer.stderr}) IN
    /\ Collecting /\ answer.fed + n <= MaxOutput
    /\ answer' = [answer EXCEPT ![channel] = @ + kept, !.fed = @ + n,
                                !.truncated = @ \/ kept # n]
    /\ UNCHANGED <<now, events, sent>>

(* Faulty variant: only stdout makes place for the marker.                 *)
TrimStdout(a, marker, excess) ==
    [a EXCEPT !.stdout = @ - Min({excess, @}), !.marker = marker]

(* The marker takes its place from stdout first, then from stderr.         *)
Trim(a, marker, excess) ==
    LET fromStdout == Min({excess, a.stdout}) IN
    [a EXCEPT !.stdout = @ - fromStdout,
              !.stderr = @ - Min({excess - fromStdout, @}), !.marker = marker]

(* The output is read to its end, or the readers are stopped two seconds   *)
(* after the command and what they did not read is gone, which no flag     *)
(* tells.                                                                  *)
FinishOutput ==
    LET marker == IF answer.truncated THEN Min({MarkerLength, answer.limit}) ELSE 0
        total  == answer.stdout + answer.stderr + marker
        excess == IF total > answer.limit THEN total - answer.limit ELSE 0
    IN /\ Collecting
       /\ \E unread \in 0..(MaxOutput - answer.fed) :
              answer' = [Trim(answer, marker, excess) EXCEPT !.finished = TRUE,
                                                             !.unread = unread]
       /\ UNCHANGED <<now, events, sent>>

(***************************************************************************)
(* COMPUTER_TOOL_CALL: _result_payload.  A result has blocks and maybe a   *)
(* structured part.  A block of a kind that is not sent is "odd", and one  *)
(* that is no object at all is "junk"; a structured part that is none is   *)
(* "scrap".  Junk and scrap are left out without a note.                   *)
(***************************************************************************)

Block   == [kind : {"text", "image"}, size : BlockSizes] \cup [kind : {"odd", "junk"}, size : {0}]
Results == [blocks : BoundedSeq(Block, MaxBlocks), structured : PartSizes, scrap : BOOLEAN]

Structured(r) == IF r.scrap THEN 0 ELSE r.structured

(* What still counts in the window: the events that are over go from the   *)
(* front (available, allow).                                               *)
Counted ==
    LET over == {i \in DOMAIN events : \A k \in 1..i : events[k] + Window <= now}
    IN SubSeq(events, Cardinality(over) + 1, Len(events))

Room == IF Len(Counted) < MaxImages THEN MaxImages - Len(Counted) ELSE 0

Places(kind, blocks) == {i \in DOMAIN blocks : blocks[i].kind = kind}
Count(kind, blocks) == Cardinality(Places(kind, blocks))
Texts(blocks) == Selected(blocks, Places("text", blocks))
Objects(blocks) == Selected(blocks, DOMAIN blocks \ Places("junk", blocks))

TotalSize(blocks) ==
    LET total[k \in 0..Len(blocks)] == IF k = 0 THEN 0 ELSE total[k - 1] + blocks[k].size
    IN total[Len(blocks)]

(* The blocks within the room there is for images.                         *)
Admitted(blocks) ==
    LET images(k) == Cardinality(Places("image", blocks) \cap 1..k)
    IN Selected(blocks, Places("text", blocks)
                            \cup {k \in Places("image", blocks) : images(k) <= Room})

(* What is left out for size: the images first, then all but a first text. *)
Fitting(blocks, structured) ==
    LET texts == Texts(blocks)
        short == [kind |-> "text", size |-> Min({TextLimit, Head(texts).size})]
    IN IF TotalSize(blocks) + structured <= ResultBudget THEN <<blocks, structured>>
       ELSE IF TotalSize(texts) + structured <= ResultBudget THEN <<texts, structured>>
       ELSE <<IF texts = <<>> THEN <<>> ELSE <<short>>, 0>>

(* The notes that tell of it.                                              *)
Notes(r, admitted, fitting) ==
    {note \in {"left out", "rate", "size", "cut"} :
        CASE note = "left out" -> Count("odd", r.blocks) > 0
          [] note = "rate"     -> Count("image", r.blocks) > Count("image", admitted)
          [] note = "size"     -> Count("image", admitted) > Count("image", fitting[1])
          [] note = "cut"      -> TotalSize(Texts(admitted)) + Structured(r) > ResultBudget}

(* Faulty variant: images count that are then left out for their size.     *)
ChargeAdmitted(admitted, fitting) == Count("image", admitted)

(* The limiter counts the images that are sent.                            *)
Charge(admitted, fitting) == Count("image", fitting[1])

Times(n) == [i \in 1..n |-> now]

(* As many turns of allow, that counts no more than there is room for.     *)
Allowed(n) == Counted \o Times(Min({n, Room}))

ToolResult(r) ==
    LET admitted == Admitted(r.blocks)
        fitting  == Fitting(admitted, Structured(r))
    IN /\ answer = NoAnswer
       /\ answer' = [to |-> "tool", result |-> r, blocks |-> fitting[1],
                     structured |-> fitting[2], notes |-> Notes(r, admitted, fitting)]
       /\ events' = Allowed(Charge(admitted, fitting))
       /\ sent' = sent \o Times(Count("image", fitting[1]))
       /\ UNCHANGED now

ReplySent ==
    /\ answer # NoAnswer /\ ~Collecting
    /\ answer' = NoAnswer
    /\ UNCHANGED <<now, events, sent>>

Tick ==
    /\ now < MaxTime
    /\ now' = now + 1
    /\ UNCHANGED <<events, sent, answer>>

RepliesNext ==
    \/ \E tree \in Trees, limit \in 0..MaxEntries : List(tree, limit)
    \/ \E limit \in 0..MaxOutput : Collect(limit)
    \/ \E channel \in {"stdout", "stderr"}, n \in 1..MaxOutput : Feed(channel, n)
    \/ FinishOutput
    \/ \E r \in Results : ToolResult(r)
    \/ ReplySent \/ Tick

(***************************************************************************)
(* Properties.                                                             *)
(***************************************************************************)

(* A listing that is not marked truncated has every entry to list that     *)
(* could be looked at, of every folder that the walk knew for one, and no  *)
(* folder that it could not read; and it keeps to its limits               *)
(* (handlers.py:1126).  What lstat fails on and what is below a folder     *)
(* whose type cannot be told are left out without a word (1171, 1207).     *)
ListingsSaySo ==
    answer.to = "list" =>
        LET all    == Candidates(answer.tree)
            wanted == {k \in DOMAIN all : all[k] \in {"file", "folder", "unsure"}}
        IN /\ ~answer.truncated => answer.listed = wanted /\ answer.tree.readable
           /\ answer.truncated =>
                 ~answer.tree.readable \/ answer.listed # wanted \/ Len(all) > MaxScanned
                     \/ \E k \in DOMAIN all : all[k] = "lost"
           /\ answer.listed \subseteq wanted
           /\ Cardinality(answer.listed) <= answer.limit
           /\ answer.bytes <= ReplyBudget

(* What was read of a command's output is whole or says that it is not,    *)
(* within its limit, the marker included (handlers.py:185, finish).  Of    *)
(* what was left unread when the readers were stopped it says nothing      *)
(* (handlers.py:719).                                                      *)
OutputsSaySo ==
    answer.to = "command" /\ answer.finished =>
        /\ answer.stdout + answer.stderr + answer.marker <= answer.limit
        /\ (answer.stdout + answer.stderr < answer.fed) <=> answer.truncated
        /\ answer.truncated /\ answer.limit > 0 /\ MarkerLength > 0 => answer.marker > 0

(* A tool's result is whole or has a note, and fits (handlers.py:1673).    *)
(* Only what is no object goes without one: such a block, and such a       *)
(* structured part (1688, 1713).                                           *)
ResultsSaySo ==
    answer.to = "tool" =>
        /\ answer.notes = {} =>
              /\ answer.blocks = Objects(answer.result.blocks)
              /\ ~answer.result.scrap => answer.structured = answer.result.structured
        /\ TotalSize(answer.blocks) + answer.structured <= ResultBudget

(* Within any minute no more images go out than the limit, and only images *)
(* that went out keep others back: one left out for its size spends        *)
(* nothing of another chat's (handlers.py:1682, the comment at room).      *)
ImagesAreCounted ==
    LET lately == {i \in DOMAIN sent : sent[i] + Window > now} IN
    Cardinality(lately) <= MaxImages /\ Room = MaxImages - Cardinality(lately)

(* Every reply says what it leaves out, but for what the four above name,  *)
(* and only what it must is left out.                                      *)
RepliesSayWhatIsMissing ==
    ListingsSaySo /\ OutputsSaySo /\ ResultsSaySo /\ ImagesAreCounted

==============================================================================
