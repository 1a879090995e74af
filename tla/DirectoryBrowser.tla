-------------------------- MODULE DirectoryBrowser ---------------------------
(***************************************************************************)
(* Directories shown to the platform through references that live for one  *)
(* browse of one control connection, and the attach that uses one up.      *)
(* _browser_lock lets one request in at a time, but a cancelled request    *)
(* leaves the lock while its thread goes on with the browser.              *)
(***************************************************************************)
EXTENDS ThreadPool, Selection, FiniteSetsExt

CONSTANTS
    Children,       (* directories below a root, as numbers in name order  *)
    MaxBrowses,     (* MAX_BROWSE_SESSIONS                                 *)
    MaxStarts,      (* bound on the browses started                        *)
    PageSize,       (* MAX_DIRECTORY_ENTRIES                               *)
    MaxRefs,        (* MAX_REFS_PER_BROWSE, without the roots'             *)
    MaxConnections  (* bound on the control connections                    *)

ASSUME DirectoryBrowserAssumption ==
    /\ Children \subseteq Nat /\ IsFiniteSet(Children)
    /\ {MaxBrowses, MaxStarts, PageSize, MaxRefs, MaxConnections} \subseteq Nat \ {0}

VARIABLES
    connection,     (* the control connection's number                     *)
    up,             (* whether it serves requests                          *)
    lock,           (* _browser_lock                                       *)
    live,           (* _sessions, the longest unused first                 *)
    browse          (* every browse: the connection it was told on, its    *)
                    (* references, its cursors, whether it has expired and *)
                    (* how many attaches it served                         *)

browser == <<connection, up, lock, live, browse>>

NewBrowse == [told |-> 0, refs |-> {}, cursors |-> {}, expired |-> FALSE, used |-> 0]
InBrowser(b) == \E i \in DOMAIN live : live[i] = b

(* Those of bs, in the order of the browser.                               *)
Only(bs) == Selected(live, {i \in DOMAIN live : live[i] \in bs})

Without(b) == Only(DOMAIN browse \ {b})

BrowserInit ==
    /\ connection = 1 /\ up = TRUE
    /\ lock = NoRequest
    /\ live = <<>>
    /\ browse = [b \in {} |-> NewBrowse]

NextBrowse == Cardinality(DOMAIN browse) + 1

(* A listing of the roots that opens a browse, a page of a root's children *)
(* from an offset, an attach to a directory the browse has shown.          *)
BrowseJobs ==
    {<<"start", b>> : b \in {NextBrowse} \cap 1..MaxStarts}
        \cup {<<"page", b, o>> : b \in DOMAIN browse, o \in 0..Cardinality(Children)}
        \cup {<<"attach", b>> : b \in DOMAIN browse}

IsBrowse(r) == Op(r) \in {"start", "page", "attach"}

(* The platform asks with what it was told.                                *)
BrowseBegin(r, j) ==
    /\ up /\ req[r].step = "idle"
    /\ j[1] # "start" => browse[j[2]].told # 0
    /\ j[1] = "page" => j[3] \in browse[j[2]].cursors \cup {0}
    /\ req' = [req EXCEPT ![r] = Begun("lock", j)]
    /\ browse' = IF j[1] = "start"
                 THEN [b \in DOMAIN browse \cup {j[2]} |-> IF b = j[2] THEN NewBrowse ELSE browse[b]]
                 ELSE browse
    /\ UNCHANGED <<thread, connection, up, lock, live>>

(* Faulty variant: nobody waits for the lock.                              *)
LockIgnored(r) == lock' = lock

Locks(r) == lock = NoRequest /\ lock' = r

BrowseLocked(r) ==
    /\ req[r].step = "lock"
    /\ Locks(r)
    /\ At(r, "queued")
    /\ UNCHANGED <<thread, connection, up, live, browse>>

BrowseRuns(t, r) ==
    /\ IsBrowse(r) /\ req[r].step = "queued"
    /\ Takes(t, r) /\ At(r, "running")
    /\ UNCHANGED browser

(* The time of a browse is up; the next look at the browser drops it.      *)
Expire(b) ==
    /\ InBrowser(b) /\ ~browse[b].expired
    /\ browse' = [browse EXCEPT ![b].expired = TRUE]
    /\ UNCHANGED <<req, thread, connection, up, lock, live>>

Fresh == Only({b \in DOMAIN browse : ~browse[b].expired})

(* The lock goes with the request that holds it.                           *)
Answers(t, did) ==
    /\ Returns(t, did)
    /\ lock' = IF lock = thread[t].owner THEN NoRequest ELSE lock

Evicted(s) == IF Len(s) < MaxBrowses THEN s ELSE SubSeq(s, Len(s) - MaxBrowses + 2, Len(s))

(* list_directories and resolve begin: expired browses go, then an unknown *)
(* one is refused and the oldest makes place for a new one.                *)
BrowseLooks(t) ==
    LET j == thread[t].job IN
    /\ thread[t].at = "begin"
    /\ \/ /\ j[1] = "start" /\ live' = Evicted(Fresh)
          /\ Reaches(t, "found") /\ UNCHANGED <<req, lock>>
       \/ /\ j[1] \in {"page", "attach"} /\ live' = Fresh
          /\ IF \E i \in DOMAIN Fresh : Fresh[i] = j[2]
             THEN Reaches(t, "found") /\ UNCHANGED <<req, lock>>
             ELSE Answers(t, <<"refused">>)
    /\ UNCHANGED <<connection, up, browse>>

(* The roots are found, and the new browse stands for them.                *)
RootsFound(t) ==
    LET b == thread[t].job[2] IN
    /\ thread[t].job[1] = "start" /\ thread[t].at = "found"
    /\ live' = Append(live, b)
    /\ Answers(t, <<"started", b>>)
    /\ UNCHANGED <<connection, up, browse>>

(* Faulty variant: a page that ends for want of references says nothing.   *)
SaysTooLittle(rest, refused, scanned) == scanned

(* Whether the listing says that it leaves children out.                   *)
Truncated(rest, refused, scanned) == scanned \/ refused

(* A page: the children from the offset on, up to the first one that would *)
(* be a reference too many; "more" is the offset of the next page.         *)
Page(b, seen, offset, scanned) ==
    LET found   == Sorted(seen)
        last    == Min({Len(found), offset + PageSize})
        known   == browse[b].refs
        fits(i) == Cardinality(known \cup {found[k] : k \in offset+1..i}) <= MaxRefs
        upto    == Max({offset} \cup {i \in offset+1..last : fits(i)})
        refused == upto < last
        rest    == last < Len(found)
    IN [entries   |-> {found[i] : i \in offset+1..upto},
        truncated |-> Truncated(rest, refused, scanned),
        more      |-> IF rest /\ ~refused THEN last ELSE 0]

(* The directory is read, whatever is in it by now, "scanned" when it has  *)
(* more entries than are looked at.  A browse that went meanwhile fails    *)
(* the listing after it has taken its references.                          *)
PageListed(t) ==
    LET j == thread[t].job  b == j[2] IN
    /\ j[1] = "page" /\ thread[t].at = "found"
    /\ \E seen \in SUBSET Children, scanned \in BOOLEAN :
           LET page == Page(b, seen, j[3], scanned) IN
           /\ browse' = [browse EXCEPT ![b].refs = @ \cup page.entries,
                                       ![b].cursors = @ \cup ({page.more} \ {0})]
           /\ IF InBrowser(b)
              THEN /\ live' = Append(Without(b), b)
                   /\ Answers(t, <<"listed", b, page, seen, scanned>>)
              ELSE /\ live' = live
                   /\ Answers(t, <<"failed">>)
    /\ UNCHANGED <<connection, up>>

(* The directory is gone, a link, or not for this user.                    *)
DirectoryUnavailable(t) ==
    /\ thread[t].job[1] \in {"page", "attach"} /\ thread[t].at = "found"
    /\ Answers(t, <<"refused">>)
    /\ UNCHANGED <<connection, up, live, browse>>

(* resolve_and_consume: the reference stands for a directory.              *)
Resolved(t) ==
    /\ thread[t].job[1] = "attach" /\ thread[t].at = "found"
    /\ Reaches(t, "resolved")
    /\ UNCHANGED <<req, browser>>

Consume(t) ==
    LET b == thread[t].job[2] IN
    /\ thread[t].at = "resolved"
    /\ live' = Without(b)
    /\ browse' = IF thread[t].owner = NoRequest THEN browse
                 ELSE [browse EXCEPT ![b].used = @ + 1]
    /\ Answers(t, <<"attached", b>>)
    /\ UNCHANGED <<connection, up>>

(* The answer is sent once its record is kept; without one it is an error, *)
(* as it is when the listing failed.                                       *)
BrowseTold(r) ==
    LET did == req[r].did IN
    /\ req[r].step = "emit" /\ IsBrowse(r)
    /\ req' = [req EXCEPT ![r] = Idle]
    /\ \/ browse' = browse
       \/ did[1] = "started" /\ browse' = [browse EXCEPT ![did[2]].told = connection]
    /\ UNCHANGED <<thread, connection, up, lock, live>>

(***************************************************************************)
(* The connection.                                                         *)
(***************************************************************************)

(* Every request is cancelled; what runs in a thread goes on there.        *)
ConnectionLost ==
    /\ up /\ connection < MaxConnections
    /\ up' = FALSE
    /\ req' = [r \in Requests |-> Idle]
    /\ Abandoned(Requests)
    /\ lock' = NoRequest
    /\ UNCHANGED <<connection, live, browse>>

(* Faulty variant: what was shown before can still be asked for.           *)
ResetNothing(s) == s

Reset(s) == <<>>

ConnectedAgain ==
    /\ ~up
    /\ up' = TRUE /\ connection' = connection + 1
    /\ live' = Reset(live)
    /\ UNCHANGED <<req, thread, lock, browse>>

==============================================================================
