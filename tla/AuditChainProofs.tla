-------------------------- MODULE AuditChainProofs --------------------------
(***************************************************************************)
(* What AuditChain promises, for every number of files, threads, commands, *)
(* records and seconds, proved: the types, that acknowledged records are   *)
(* kept, that what a command reads it reads whole, and that every step on  *)
(* the files is a step of AuditLog, or none.                               *)
(*                                                                         *)
(* The inductive invariant says where files are (one file has one place),  *)
(* what is in them (the records number and chain, and only the last can be *)
(* torn), that the writer's memory of the chain's end is right whenever it *)
(* takes the file for the one it left, and what a reader has still to see. *)
(***************************************************************************)
EXTENDS AuditChain, SequenceTheorems, FiniteSetTheorems, NaturalsInduction,
        WellFoundedInduction, TLAPS

Away == {rotated[n] : n \in Rotated} \cup aside
Kept == Away \cup ({log} \ {NoFile})

(* A file is in one place.                                                 *)
PlaceInv ==
    /\ log \notin Away
    /\ \A m, n \in Rotated : rotated[m] = rotated[n] => m = n
    /\ \A n \in Rotated : rotated[n] \notin aside
    /\ \A c \in Commands : cmd[c].phase = "create" => log = NoFile

Chains(f) ==
    \A k \in DOMAIN f :
        /\ f[k].seq = k
        /\ f[k].prev = IF k = 1 THEN 0 ELSE f[k - 1].mac
        /\ k < Len(f) => f[k].cut # "torn"

ChainInv == \A i \in Kept : Chains(disk[i])

(* HMACs are those of records begun, each in one place.                    *)
MacInv ==
    /\ \A i \in Kept : \A k \in DOMAIN disk[i] : disk[i][k].mac <= written
    /\ \A i, j \in Kept : \A k \in DOMAIN disk[i], l \in DOMAIN disk[j] :
          disk[i][k].mac = disk[j][l].mac => i = j /\ k = l

Torn(f) == f # <<>> /\ Last(f).cut = "torn"

(* The writer goes on where f ends.                                        *)
Continues(f) ==
    writer.seq = ChainAfter(f).seq /\ writer.prev = ChainAfter(f).prev

WriterInv ==
    /\ daemon # "up" => writer = NoWriter /\ \A t \in Threads : thread[t] = "idle"
    /\ daemon = "up" => writer.state.file # NoFile
    /\ writer.state.cut = "whole"
    /\ log = writer.state.file /\ log # NoFile =>
          writer.state.pieces <= Len(disk[log])
    /\ Identity(log) = writer.state => Continues(Contents(log))

(* The thread that has the file locked.                                    *)
ThreadInv ==
    \A t \in Threads :
        /\ thread[t] \in {"taken", "append"} =>
              Continues(Contents(log)) /\ ~Torn(Contents(log))
        /\ thread[t] = "create" => log = NoFile /\ Continues(<<>>)
        /\ thread[t] = "flush" =>
              /\ log # NoFile /\ disk[log] # <<>>
              /\ Last(disk[log]).mac = written
              /\ Last(disk[log]).seq = writer.seq
              /\ log = writer.state.file => writer.state.pieces < Len(disk[log])

(* Every record a reader owes it has seen, or will see, or it was pruned;  *)
(* an export that has still to read what was pruned will fail.             *)
Comes(c, m) ==
    \/ m \in cmd[c].seen
    \/ cmd[c].kind = "verify-all" /\ m \in pruned
    \/ \E n \in Listed(c) :
          \/ m \in MacsIn(Contents(rotated[n]))
          \/ cmd[c].kind = "export" /\ rotated[n] = NoFile /\ n[1] < clock

ReaderInv ==
    /\ \A c \in Commands :
          /\ cmd[c].kind = "none" => cmd[c].phase = "idle"
          /\ cmd[c].phase = "read" => cmd[c].kind \in {"verify-all", "export"}
          /\ cmd[c].phase = "read" => \A m \in cmd[c].owed : Comes(c, m)
          /\ cmd[c].phase = "delete" => \A n \in Listed(c) : n[1] < clock
    /\ tail.phase = "off" <=> tail.at = NoFile

IInv ==
    /\ TypeOK /\ PlaceInv /\ ChainInv /\ MacInv /\ WriterInv /\ ThreadInv
    /\ AckedIsKept /\ ReaderInv

-----------------------------------------------------------------------------
(* Numbers, and the names of rotated files                                 *)

(* A non-empty set of numbers has a least one.                             *)
LEMMA Least ==
    ASSUME NEW S \in SUBSET Nat, S # {}
    PROVE  \E m \in S : \A n \in S : m <= n
  <1> DEFINE R == OpToRel(<, Nat)
  <1>1. IsWellFoundedOn(R, Nat)
    BY NatLessThanWellFounded
  <1>2. PICK m \in S : \A n \in S : ~(<<n, m>> \in R)
    <2> HIDE DEF R
    <2> QED
      BY <1>1, WFMin
  <1>3. \A n \in S : ~(n < m)
    BY <1>2 DEF OpToRel
  <1> QED
    BY <1>3

LEMMA NumbersAreInt ==
    /\ MaxWrites \in Nat /\ MaxClock \in Nat \ {0} /\ MaxCounter \in Nat
    /\ Macs \subseteq Nat \ {0} /\ Stamps \subseteq Nat \ {0}
    /\ 0 \notin Macs
  BY AuditChainAssumption DEF Macs, Stamps

(* A rotation finds a name that no file has, if there is one in this       *)
(* second (_rotate).                                                       *)
LEMMA TargetIsFree ==
    ASSUME TypeOK, CanMove
    PROVE  /\ Target \in Names /\ rotated[Target] = NoFile
           /\ Target[1] = clock
  <1> DEFINE S == {k \in 0..MaxCounter : rotated[<<clock, k>>] = NoFile}
             P(k) == /\ rotated[<<clock, k>>] = NoFile
                     /\ \A j \in 0..(k - 1) : rotated[<<clock, j>>] # NoFile
  <1>1. S \in SUBSET Nat /\ S # {}
    BY NumbersAreInt DEF CanMove
  <1>2. PICK k \in S : \A n \in S : k <= n
    BY <1>1, Least
  <1>3. k \in 0..MaxCounter /\ P(k)
    <2>1. k \in 0..MaxCounter /\ k \in Nat /\ rotated[<<clock, k>>] = NoFile
      BY <1>1, <1>2
    <2>2. ASSUME NEW j \in 0..(k - 1)
          PROVE  rotated[<<clock, j>>] # NoFile
      <3>1. j \in 0..MaxCounter /\ ~(k <= j)
        BY <2>1, <2>2, NumbersAreInt
      <3> QED
        BY <1>2, <3>1
    <2> QED
      BY <2>1, <2>2
  <1> DEFINE c == CHOOSE j \in 0..MaxCounter : P(j)
  <1>4. c \in 0..MaxCounter /\ P(c)
    <2> HIDE DEF P
    <2> QED
      BY <1>3
  <1>5. Target = <<clock, c>>
    BY DEF Target
  <1>6. clock \in Stamps
    BY DEF TypeOK
  <1> HIDE DEF c
  <1> QED
    BY <1>4, <1>5, <1>6 DEF Names

-----------------------------------------------------------------------------
(* Records of a file                                                       *)

Record(p) == [seq |-> p.seq, prev |-> p.prev, mac |-> p.mac]

Legible(f) == IF Torn(f) THEN Len(f) - 1 ELSE Len(f)

LEMMA RecordsOf ==
    ASSUME NEW f \in Seq(Piece)
    PROVE  /\ Legible(f) \in 0..Len(f)
           /\ Records(f) = [k \in 1..Legible(f) |-> Record(f[k])]
           /\ DOMAIN Records(f) = 1..Legible(f) /\ Len(Records(f)) = Legible(f)
           /\ Records(f) = <<>> <=> Legible(f) = 0
  <1>1. Legible(f) \in 0..Len(f)
    <2>1. Torn(f) => Len(f) > 0
      BY DEF Torn
    <2> QED
      BY <2>1 DEF Legible
  <1>2. Records(f) = [k \in 1..Legible(f) |-> Record(f[k])]
    BY DEF Records, Legible, Torn, Record
  <1> DEFINE n == Legible(f)
  <1>3. n \in Nat
    BY <1>1
  <1> HIDE DEF n
  <1>4. DOMAIN Records(f) = 1..n
    BY <1>2 DEF n
  <1>5. Len(Records(f)) = n
    BY <1>3, <1>4
  <1>6. Records(f) = <<>> => n = 0
    BY <1>3, <1>5
  <1>7. n = 0 => Records(f) = <<>>
    BY <1>2 DEF n
  <1> QED
    BY <1>1, <1>2, <1>4, <1>5, <1>6, <1>7 DEF n

LEMMA NoRecords == Records(<<>>) = <<>>
  <1>1. ~Torn(<<>>)
    BY DEF Torn
  <1>2. Legible(<<>>) = 0
    BY <1>1 DEF Legible
  <1> DEFINE e == <<>>
  <1>3. e \in Seq(Piece) /\ Legible(e) = 0
    BY <1>2
  <1> HIDE DEF e
  <1>4. Records(e) = <<>>
    BY <1>3, RecordsOf
  <1> QED
    BY <1>4 DEF e

(* Two files with the same legible pieces have the same records.           *)
LEMMA SameRecords ==
    ASSUME NEW f \in Seq(Piece), NEW g \in Seq(Piece), Legible(f) = Legible(g),
           \A k \in 1..Legible(f) : Record(f[k]) = Record(g[k])
    PROVE  Records(f) = Records(g)
  BY RecordsOf

(* One more legible piece is one more record.                              *)
LEMMA OneRecordMore ==
    ASSUME NEW f \in Seq(Piece), NEW g \in Seq(Piece),
           Legible(g) = Legible(f) + 1,
           \A k \in 1..Legible(f) : Record(f[k]) = Record(g[k])
    PROVE  Records(g) = Append(Records(f), Record(g[Legible(g)]))
  <1> DEFINE n == Legible(f)
             a == Append(Records(f), Record(g[Legible(g)]))
  <1>1. n \in Nat /\ Legible(g) = n + 1
    BY RecordsOf
  <1>2. /\ Records(f) = [k \in 1..n |-> Record(f[k])]
        /\ Records(g) = [k \in 1..(n + 1) |-> Record(g[k])]
    BY <1>1, RecordsOf
  <1> DEFINE R == {Record(f[k]) : k \in 1..n}
  <1>3. Records(f) \in Seq(R) /\ Len(Records(f)) = n
    <2>1. Records(f) \in [1..n -> R]
      BY <1>2
    <2> HIDE DEF n, R
    <2> QED
      BY <1>1, <2>1
  <1> HIDE DEF n, R
  <1>4. Len(a) = n + 1 /\ \A k \in 1..(n + 1) :
            a[k] = IF k = n + 1 THEN Record(g[n + 1]) ELSE Records(f)[k]
    BY <1>1, <1>3
  <1>5. a = [k \in 1..(n + 1) |-> a[k]]
    BY <1>1, <1>3
  <1>6. \A k \in 1..(n + 1) : a[k] = Record(g[k])
    BY <1>1, <1>2, <1>4 DEF n
  <1> QED
    BY <1>2, <1>5, <1>6

-----------------------------------------------------------------------------
(* How steps change the files                                              *)

(* No file changes or moves.                                               *)
Still == UNCHANGED <<files, history>>

(* A new, empty file is the log.                                           *)
NewLog ==
    \E i \in Free :
        /\ log = NoFile /\ log' = i
        /\ disk' = [disk EXCEPT ![i] = <<>>]
        /\ UNCHANGED <<rotated, aside, history>>

(* The log is put away.                                                    *)
PutAway ==
    /\ log # NoFile /\ log' = NoFile
    /\ \/ \E n \in Names : /\ rotated[n] = NoFile
                           /\ rotated' = [rotated EXCEPT ![n] = log]
                           /\ aside' = aside
       \/ rotated' = rotated /\ aside' = aside \cup {log}
    /\ UNCHANGED <<disk, history>>

(* A piece is appended to the log, or to a new one.                        *)
Appends(cut) ==
    /\ written < MaxWrites /\ written' = written + 1
    /\ \E i \in IF log = NoFile THEN Free ELSE {log} :
          /\ log' = i
          /\ disk' = [disk EXCEPT ![i] = Append(Contents(log), NextPiece(cut))]
    /\ Continues(Contents(log)) /\ ~Torn(Contents(log))
    /\ UNCHANGED <<rotated, aside, acked, pruned>>

(* More of the last piece of the log, the latest of all, arrives.          *)
Completes(cut) ==
    /\ log # NoFile /\ disk[log] # <<>> /\ Last(disk[log]).mac = written
    /\ <<Last(disk[log]).cut, cut>> \in {<<"torn", "open">>, <<"torn", "whole">>,
                                         <<"open", "whole">>}
    /\ disk' = [disk EXCEPT ![log][Len(disk[log])].cut = cut]
    /\ UNCHANGED <<log, rotated, aside, history>>

(* Rotated files are deleted.                                              *)
Deletes(gone) ==
    /\ gone \subseteq Rotated
    /\ rotated' = [n \in Names |-> IF n \in gone THEN NoFile ELSE rotated[n]]
    /\ disk' = [i \in Inodes |->
                  IF \A n \in gone : rotated[n] # i \/ i = tail.at
                  THEN disk[i] ELSE <<>>]
    /\ pruned' = pruned \cup UNION {MacsIn(disk[rotated[n]]) : n \in gone}
    /\ UNCHANGED <<log, aside, written, acked>>

Places ==
    /\ log \notin Away
    /\ \A m, n \in Rotated : rotated[m] = rotated[n] => m = n
    /\ \A n \in Rotated : rotated[n] \notin aside

FilesInv == Places /\ ChainInv /\ MacInv /\ AckedIsKept

FileTypes ==
    /\ disk \in [Inodes -> Seq(Piece)]
    /\ log \in Inodes \cup {NoFile}
    /\ rotated \in [Names -> Inodes \cup {NoFile}]
    /\ aside \subseteq Inodes
    /\ written \in 0..MaxWrites
    /\ writer \in Writer

LEMMA WhereFilesAre ==
    ASSUME FileTypes
    PROVE  /\ NoFile \notin Inodes
           /\ Away \subseteq Inodes /\ Kept \subseteq Inodes
           /\ \A i \in Kept : disk[i] \in Seq(Piece)
           /\ Contents(log) \in Seq(Piece)
           /\ log # NoFile => Contents(log) = disk[log] /\ log \in Kept
           /\ log = NoFile => Contents(log) = <<>>
           /\ \A i \in Free : i \in Inodes /\ i \notin Kept
                                /\ i # writer.state.file /\ i # tail.at
  <1>1. NoFile \notin Inodes
    BY AuditChainAssumption
  <1>2. Away \subseteq Inodes /\ Kept \subseteq Inodes
    BY DEF Away, Kept, Rotated, FileTypes
  <1>3. \A i \in Free : i \in Inodes /\ i \notin Kept
                          /\ i # writer.state.file /\ i # tail.at
    BY DEF Free, InUse, Kept, Away, Rotated
  <1> QED
    BY <1>1, <1>2, <1>3 DEF FileTypes, Contents, Kept

(* The acknowledged records, by the places of files.                       *)
LEMMA AckedInKept ==
    ASSUME FileTypes
    PROVE  AckedIsKept <=> acked \subseteq pruned \cup UNION {MacsIn(disk[i]) : i \in Kept}
  <1>1. (({log} \cup {rotated[n] : n \in Rotated}) \ {NoFile}) \cup aside = Kept
    BY DEF Kept, Away, Rotated
  <1> QED
    BY <1>1 DEF AckedIsKept

LEMMA StillKeeps ==
    ASSUME FileTypes, FilesInv, UNCHANGED <<files, written, pruned>>,
           \A m \in acked' \ acked : \E i \in Kept : m \in MacsIn(disk[i])
    PROVE  FilesInv'
  <1>1. /\ UNCHANGED <<disk, log, rotated, aside, written, pruned>>
        /\ UNCHANGED <<Away, Kept>>
    BY DEF files, Away, Kept, Rotated
  <1>2. Places' /\ ChainInv' /\ MacInv'
    BY <1>1 DEF FilesInv, Places, ChainInv, Chains, MacInv, Rotated
  <1>3. AckedIsKept'
    BY <1>1 DEF FilesInv, AckedIsKept, Rotated, MacsIn, Kept, Away
  <1> QED
    BY <1>2, <1>3 DEF FilesInv

(* The files that are kept are the same ones, with the same contents.      *)
LEMMA KeptStays ==
    ASSUME FileTypes, FilesInv, Places', Kept' = Kept, log' = NoFile,
           Away' = Away \cup {log},
           UNCHANGED <<disk, written, acked, pruned>>
    PROVE  FilesInv'
  <1>1. ChainInv' /\ MacInv'
    BY DEF FilesInv, ChainInv, Chains, MacInv
  <1>2. acked' \subseteq pruned' \cup UNION {MacsIn(disk'[i]) : i \in Kept'}
    BY AckedInKept DEF FilesInv, MacsIn
  <1>3. (({log} \cup {rotated[n] : n \in Rotated}) \ {NoFile})' \cup aside' = Kept'
    BY DEF Kept, Away, Rotated
  <1>4. AckedIsKept'
    BY <1>2, <1>3 DEF AckedIsKept
  <1> QED
    BY <1>1, <1>4 DEF FilesInv

-----------------------------------------------------------------------------
(* What the steps on files keep                                            *)

(* The files that were in a place have not changed, and one that was in    *)
(* none is empty.                                                          *)
LEMMA NewLogKeeps ==
    ASSUME FileTypes, FilesInv, NewLog
    PROVE  /\ FilesInv' /\ Away' = Away
           /\ Contents(log)' = <<>> /\ Contents(log) = <<>>
           /\ \A j \in Kept : disk'[j] = disk[j]
           /\ log' \in Free
  <1>1. PICK i \in Free :
          /\ log = NoFile /\ log' = i
          /\ disk' = [disk EXCEPT ![i] = <<>>]
          /\ UNCHANGED <<rotated, aside, history>>
    BY DEF NewLog
  <1>2. i \in Inodes /\ i \notin Kept /\ i # NoFile
    BY WhereFilesAre
  <1>3. Away' = Away /\ Kept' = Kept \cup {i} /\ Rotated' = Rotated
    BY <1>1, <1>2 DEF Away, Kept, Rotated
  <1>4. /\ disk'[i] = <<>>
        /\ \A j \in Kept : disk'[j] = disk[j]
    BY <1>1, <1>2, WhereFilesAre DEF FileTypes
  <1>5. Places'
    <2>1. i \notin Away
      BY <1>2 DEF Kept
    <2> QED
      BY <1>1, <1>3, <2>1 DEF FilesInv, Places
  <1>6. ChainInv'
    BY <1>3, <1>4 DEF FilesInv, ChainInv, Chains
  <1>7. MacInv'
    BY <1>1, <1>3, <1>4 DEF FilesInv, MacInv, history
  <1>8. acked' \subseteq pruned' \cup UNION {MacsIn(disk'[j]) : j \in Kept'}
    <2>1. ASSUME NEW m \in acked, m \notin pruned
          PROVE  \E j \in Kept' : m \in MacsIn(disk'[j])
      <3>1. PICK j \in Kept : m \in MacsIn(disk[j])
        BY <2>1, AckedInKept DEF FilesInv
      <3> QED
        BY <1>3, <1>4, <3>1
    <2> QED
      BY <1>1, <2>1 DEF history
  <1>9. AckedIsKept'
    <2>1. (({log} \cup {rotated[n] : n \in Rotated}) \ {NoFile})' \cup aside' = Kept'
      BY <1>1, <1>2 DEF Kept, Away, Rotated
    <2> QED
      BY <1>8, <2>1 DEF AckedIsKept
  <1>10. Contents(log)' = <<>> /\ Contents(log) = <<>>
    BY <1>1, <1>2, <1>4 DEF Contents
  <1> QED
    BY <1>1, <1>3, <1>4, <1>5, <1>6, <1>7, <1>9, <1>10 DEF FilesInv

(* The log goes to a place of its own.                                     *)
LEMMA PutAwayKeeps ==
    ASSUME FileTypes, FilesInv, PutAway
    PROVE  /\ FilesInv' /\ Away' = Away \cup {log} /\ disk' = disk
           /\ Contents(log)' = <<>>
           /\ \A n \in Names : rotated[n] # NoFile => rotated'[n] = rotated[n]
  <1>1. /\ log \in Inodes /\ log' = NoFile /\ log # NoFile
        /\ UNCHANGED <<disk, written, acked, pruned>>
    BY DEF PutAway, FileTypes, history
  <1>2. NoFile \notin Inodes /\ log \notin Away /\ Contents(log)' = <<>>
    BY <1>1, WhereFilesAre DEF FilesInv, Places, Contents
  <1>3. CASE rotated' = rotated /\ aside' = aside \cup {log}
    <2>1. Away' = Away \cup {log} /\ Rotated' = Rotated
      BY <1>3 DEF Away, Rotated
    <2>2. Kept' = Kept
      BY <1>1, <2>1 DEF Kept
    <2>3. Places'
      <3>1. \A n \in Rotated : rotated[n] # log
        BY <1>2 DEF Away
      <3>2. log' \notin Away'
        BY <1>1, <1>2, <2>1, WhereFilesAre
      <3> QED
        BY <1>3, <2>1, <3>1, <3>2 DEF FilesInv, Places
    <2> QED
      BY <1>1, <1>2, <1>3, <2>1, <2>2, <2>3, KeptStays
  <1>4. ASSUME NEW n \in Names, rotated[n] = NoFile,
               rotated' = [rotated EXCEPT ![n] = log], aside' = aside
        PROVE  /\ FilesInv' /\ Away' = Away \cup {log} /\ Contents(log)' = <<>>
               /\ \A m \in Names : rotated[m] # NoFile => rotated'[m] = rotated[m]
    <2>1. /\ rotated'[n] = log
          /\ \A m \in Names \ {n} : rotated'[m] = rotated[m]
      BY <1>4 DEF FileTypes
    <2>2. Rotated' = Rotated \cup {n} /\ n \notin Rotated
      BY <1>1, <1>4, <2>1 DEF Rotated
    <2>3. Away' = Away \cup {log}
      BY <1>4, <2>1, <2>2 DEF Away, Rotated
    <2>4. Kept' = Kept
      BY <1>1, <2>3 DEF Kept
    <2>5. Places'
      <3>1. \A m \in Rotated : rotated[m] # log
        BY <1>2 DEF Away
      <3>2. log \notin aside
        BY <1>2 DEF Away
      <3>3. log' \notin Away'
        BY <1>1, <1>2, <2>3, WhereFilesAre
      <3> QED
        BY <1>4, <2>1, <2>2, <3>1, <3>2, <3>3 DEF FilesInv, Places, Rotated
    <2> QED
      BY <1>1, <1>2, <1>4, <2>1, <2>3, <2>4, <2>5, KeptStays
  <1> QED
    BY <1>1, <1>3, <1>4 DEF PutAway

(* A file with one more piece, which continues it.                         *)
LEMMA AppendedChains ==
    ASSUME FileTypes, NEW f \in Seq(Piece), Chains(f), Continues(f), ~Torn(f),
           NEW cut \in {"whole", "open", "torn"}, written < MaxWrites
    PROVE  LET g == Append(f, NextPiece(cut))
           IN  /\ NextPiece(cut) \in Piece /\ g \in Seq(Piece)
               /\ Chains(g) /\ Len(g) = Len(f) + 1
               /\ \A k \in 1..Len(f) : g[k] = f[k]
               /\ Last(g) = NextPiece(cut) /\ g[Len(g)] = NextPiece(cut)
  <1> DEFINE p == NextPiece(cut)
             g == Append(f, p)
             n == Len(f)
  <1>1. /\ p \in Piece /\ p.seq = writer.seq /\ p.prev = writer.prev
        /\ p.mac = written + 1 /\ p.cut = cut
    <2>1. writer.seq \in Nat \ {0} /\ writer.prev \in Macs \cup {0}
      BY DEF FileTypes, Writer
    <2>2. written + 1 \in Macs
      BY NumbersAreInt DEF FileTypes, Macs
    <2> QED
      BY <2>1, <2>2 DEF NextPiece, Piece
  <1> HIDE DEF p
  <1>2. /\ g \in Seq(Piece) /\ n \in Nat /\ Len(g) = n + 1
        /\ \A k \in 1..n : g[k] = f[k]
        /\ g[n + 1] = p
    BY <1>1
  <1>3. Last(g) = p
    BY <1>2 DEF Last
  <1>4. n = 0 => p.seq = 1 /\ p.prev = 0
    BY <1>1 DEF Continues, ChainAfter
  <1>5. n # 0 => p.seq = n + 1 /\ p.prev = f[n].mac /\ f[n].cut # "torn"
    <2>1. SUFFICES ASSUME n # 0
                   PROVE  p.seq = n + 1 /\ p.prev = f[n].mac /\ f[n].cut # "torn"
      OBVIOUS
    <2>2. n \in DOMAIN f /\ f # <<>> /\ f[n] \in Piece
      BY <1>2, <2>1
    <2>3. ChainAfter(f).seq = f[n].seq + 1 /\ ChainAfter(f).prev = f[n].mac
      BY <2>2 DEF ChainAfter, Last
    <2>4. f[n].seq = n
      BY <2>2 DEF Chains
    <2> QED
      BY <1>1, <2>2, <2>3, <2>4 DEF Continues, Torn, Last
  <1> HIDE DEF g, n
  <1>6. Chains(g)
    <2>1. SUFFICES ASSUME NEW k \in 1..(n + 1)
                   PROVE  /\ g[k].seq = k
                          /\ g[k].prev = IF k = 1 THEN 0 ELSE g[k - 1].mac
                          /\ k < n + 1 => g[k].cut # "torn"
      BY <1>2 DEF Chains
    <2>2. CASE k = n + 1
      <3>1. k # 1 => n \in 1..n /\ g[k - 1] = f[n]
        BY <1>2, <2>2
      <3> QED
        BY <1>2, <1>4, <1>5, <2>2, <3>1
    <2>3. CASE k \in 1..n
      <3>1. /\ f[k].seq = k /\ f[k].prev = IF k = 1 THEN 0 ELSE f[k - 1].mac
            /\ k < n => f[k].cut # "torn"
        BY <2>3 DEF Chains, n
      <3>2. k # 1 => k - 1 \in 1..n
        BY <1>2, <2>3
      <3>3. k = n => f[k].cut # "torn"
        BY <1>2, <1>5, <2>3
      <3>4. k = n \/ k < n
        BY <1>2, <2>3
      <3> QED
        BY <1>2, <2>3, <3>1, <3>2, <3>3, <3>4
    <2> QED
      BY <1>2, <2>1, <2>2, <2>3
  <1> QED
    BY <1>1, <1>2, <1>3, <1>6 DEF g, n, p

LEMMA AppendsKeeps ==
    ASSUME FileTypes, FilesInv, NEW cut \in {"whole", "open", "torn"}, Appends(cut)
    PROVE  /\ FilesInv' /\ Away' = Away /\ log' # NoFile
           /\ \A j \in Away : disk'[j] = disk[j]
           /\ log' = log \/ (log = NoFile /\ log' \in Free)
           /\ disk'[log'] = Append(Contents(log), NextPiece(cut))
           /\ disk' \in [Inodes -> Seq(Piece)]
  <1>1. PICK i \in IF log = NoFile THEN Free ELSE {log} :
          /\ log' = i
          /\ disk' = [disk EXCEPT ![i] = Append(Contents(log), NextPiece(cut))]
    BY DEF Appends
  <1> DEFINE f == Contents(log)
             g == Append(f, NextPiece(cut))
             n == Len(f)
  <1>2. /\ UNCHANGED <<rotated, aside, acked, pruned>>
        /\ written < MaxWrites /\ written' = written + 1
        /\ Continues(f) /\ ~Torn(f)
    BY DEF Appends
  <1>3. i \in Inodes /\ i \notin Away /\ i # NoFile
    BY WhereFilesAre DEF FilesInv, Places, FileTypes, Kept
  <1>4. f \in Seq(Piece) /\ n \in Nat
    BY WhereFilesAre
  <1>5. Chains(f)
    <2>1. Chains(<<>>)
      BY DEF Chains
    <2> QED
      BY <2>1, WhereFilesAre DEF FilesInv, ChainInv
  <1>6. /\ NextPiece(cut) \in Piece /\ NextPiece(cut).mac = written + 1
        /\ g \in Seq(Piece) /\ Chains(g) /\ Len(g) = n + 1
        /\ \A k \in 1..n : g[k] = f[k]
        /\ g[n + 1] = NextPiece(cut)
    <2>1. NextPiece(cut).mac = written + 1
      BY DEF NextPiece
    <2> QED
      BY <1>2, <1>4, <1>5, <2>1, AppendedChains
  <1>7. disk' = [disk EXCEPT ![i] = g]
    BY <1>1
  <1> HIDE DEF g
  <1>8. /\ disk' \in [Inodes -> Seq(Piece)] /\ disk'[i] = g
        /\ \A j \in Inodes \ {i} : disk'[j] = disk[j]
    BY <1>3, <1>6, <1>7 DEF FileTypes
  <1>9. /\ Away' = Away /\ Rotated' = Rotated /\ Kept' = Away \cup {i}
        /\ Kept \subseteq Kept'
    BY <1>1, <1>2, <1>3 DEF Away, Rotated, Kept
  <1>10. Places'
    BY <1>1, <1>2, <1>3, <1>9 DEF FilesInv, Places
  <1>11. \A j \in Away : j \in Inodes /\ j # i /\ disk'[j] = disk[j] /\ j \in Kept
    BY <1>3, <1>8, WhereFilesAre DEF Kept
  <1>12. ChainInv'
    <2>1. \A j \in Kept' : Chains(disk'[j])
      BY <1>6, <1>8, <1>9, <1>11 DEF FilesInv, ChainInv
    <2> QED
      BY <2>1 DEF ChainInv, Chains
  <1>13. \A k \in 1..n : i \in Kept /\ f = disk[i] /\ k \in DOMAIN disk[i]
    <2>1. SUFFICES ASSUME NEW k \in 1..n
                   PROVE  i \in Kept /\ f = disk[i] /\ k \in DOMAIN disk[i]
      OBVIOUS
    <2>2. log # NoFile
      BY <1>4, <2>1, WhereFilesAre
    <2>3. log = i
      BY <1>1, <2>2
    <2> QED
      BY <1>4, <2>1, <2>2, <2>3, WhereFilesAre
  <1>14. ASSUME NEW j \in Kept', NEW k \in DOMAIN disk'[j]
         PROVE  \/ j \in Kept /\ k \in DOMAIN disk[j] /\ disk'[j][k] = disk[j][k]
                \/ j = i /\ k = n + 1 /\ disk'[j][k].mac = written + 1
    <2>1. CASE j \in Away
      BY <1>11, <1>14, <2>1
    <2>2. CASE j = i
      <3>1. k \in 1..(n + 1)
        BY <1>4, <1>6, <1>8, <1>14, <2>2
      <3>2. CASE k = n + 1
        BY <1>6, <1>8, <2>2, <3>2
      <3>3. CASE k \in 1..n
        BY <1>6, <1>8, <1>13, <2>2, <3>3
      <3> QED
        BY <1>4, <3>1, <3>2, <3>3
    <2> QED
      BY <1>9, <1>14, <2>1, <2>2
  <1>15. MacInv'
    <2>1. written \in Nat
      BY DEF FileTypes
    <2>2. \A j \in Kept : \A k \in DOMAIN disk[j] :
             disk[j][k].mac \in Nat /\ disk[j][k].mac <= written
      <3>1. \A j \in Kept : disk[j] \in Seq(Piece)
        BY WhereFilesAre
      <3>2. \A p \in Piece : p.mac \in Nat
        BY NumbersAreInt DEF Piece
      <3>3. \A j \in Kept : \A k \in DOMAIN disk[j] : disk[j][k] \in Piece
        BY <3>1
      <3> QED
        BY <3>2, <3>3 DEF FilesInv, MacInv
    <2>3. \A j \in Kept' : \A k \in DOMAIN disk'[j] : disk'[j][k].mac <= written'
      BY <1>2, <1>14, <2>1, <2>2
    <2>4. ASSUME NEW j \in Kept', NEW l \in Kept',
                 NEW k \in DOMAIN disk'[j], NEW m \in DOMAIN disk'[l],
                 disk'[j][k].mac = disk'[l][m].mac
          PROVE  j = l /\ k = m
      <3>1. CASE /\ j \in Kept /\ k \in DOMAIN disk[j] /\ disk'[j][k] = disk[j][k]
                 /\ l \in Kept /\ m \in DOMAIN disk[l] /\ disk'[l][m] = disk[l][m]
        BY <2>4, <3>1 DEF FilesInv, MacInv
      <3>2. \A x \in Nat : x <= written => x # written + 1
        BY <2>1
      <3> QED
        BY <1>14, <2>2, <2>4, <3>1, <3>2
    <2> QED
      BY <2>3, <2>4 DEF MacInv
  <1>16. AckedIsKept'
    <2>1. ASSUME NEW m \in acked, m \notin pruned
          PROVE  \E j \in Kept' : m \in MacsIn(disk'[j])
      <3>1. PICK j \in Kept : m \in MacsIn(disk[j])
        BY <2>1, AckedInKept DEF FilesInv
      <3>2. PICK k \in DOMAIN disk[j] : m = disk[j][k].mac
        BY <3>1 DEF MacsIn
      <3>3. CASE j \in Away
        BY <1>9, <1>11, <3>2, <3>3 DEF MacsIn
      <3>4. CASE j = i
        <4>1. f = disk[i] /\ k \in 1..n
          <5>1. log # NoFile
            BY <1>3, <3>4, WhereFilesAre, <1>1
          <5>2. log = i
            BY <1>1, <5>1
          <5> QED
            BY <1>4, <3>2, <3>4, <5>1, <5>2, WhereFilesAre
        <4>2. k \in DOMAIN disk'[i] /\ disk'[i][k] = disk[i][k]
          BY <1>4, <1>6, <1>8, <4>1
        <4> QED
          BY <1>9, <3>2, <3>4, <4>2 DEF MacsIn
      <3>5. j \in Away \/ (j = log /\ log # NoFile)
        BY <3>1 DEF Kept
      <3> QED
        BY <1>1, <3>3, <3>4, <3>5
    <2>2. (({log} \cup {rotated[n_] : n_ \in Rotated}) \ {NoFile})' \cup aside' = Kept'
      BY <1>1, <1>3 DEF Kept, Away, Rotated
    <2> QED
      BY <1>2, <2>1, <2>2 DEF AckedIsKept
  <1> QED
    BY <1>1, <1>2, <1>3, <1>8, <1>9, <1>10, <1>11, <1>12, <1>15, <1>16
       DEF FilesInv, g

Completed(f, cut) == [f EXCEPT ![Len(f)].cut = cut]

(* More of the last piece changes neither its number nor its HMAC.         *)
LEMMA CompletedPiece ==
    ASSUME NEW cut \in {"open", "whole"}, NEW f \in Seq(Piece), f # <<>>,
           NEW g, g = Completed(f, cut)
    PROVE  /\ g \in Seq(Piece) /\ Len(g) = Len(f) /\ Len(f) \in Nat \ {0}
           /\ \A k \in 1..(Len(f) - 1) : g[k] = f[k]
           /\ \A k \in 1..Len(f) : Record(g[k]) = Record(f[k])
           /\ g[Len(f)].cut = cut
           /\ Chains(f) => Chains(g)
  <1> DEFINE n == Len(f)
             p == [f[n] EXCEPT !.cut = cut]
  <1>1. n \in Nat \ {0} /\ n \in DOMAIN f
    OBVIOUS
  <1>2. f[n] \in Piece
    BY <1>1
  <1>3. /\ p \in Piece /\ p.seq = f[n].seq /\ p.prev = f[n].prev
        /\ p.mac = f[n].mac /\ p.cut = cut
    BY <1>2 DEF Piece
  <1>4. g = [f EXCEPT ![n] = p]
    BY DEF Completed
  <1> HIDE DEF n, p
  <1>5. /\ g \in Seq(Piece) /\ Len(g) = n /\ g[n] = p
        /\ \A k \in 1..n : k # n => g[k] = f[k]
    BY <1>1, <1>3, <1>4 DEF n
  <1>6. \A k \in 1..n : /\ g[k].seq = f[k].seq /\ g[k].prev = f[k].prev
                        /\ g[k].mac = f[k].mac
    BY <1>3, <1>5
  <1>7. \A k \in 1..n : Record(g[k]) = Record(f[k])
    BY <1>6 DEF Record
  <1>8. Chains(f) => Chains(g)
    <2>1. SUFFICES ASSUME Chains(f), NEW k \in 1..n
                   PROVE  /\ g[k].seq = k
                          /\ g[k].prev = IF k = 1 THEN 0 ELSE g[k - 1].mac
                          /\ k < n => g[k].cut # "torn"
      BY <1>5 DEF Chains
    <2>2. /\ f[k].seq = k
          /\ f[k].prev = IF k = 1 THEN 0 ELSE f[k - 1].mac
          /\ k < n => f[k].cut # "torn"
      BY <1>1, <2>1 DEF Chains, n
    <2>3. k # 1 => k - 1 \in 1..n
      BY <1>1
    <2>4. k < n => g[k] = f[k]
      BY <1>1, <1>5
    <2> QED
      BY <1>6, <2>2, <2>3, <2>4
  <1>9. \A k \in 1..(n - 1) : g[k] = f[k]
    BY <1>1, <1>5
  <1> QED
    BY <1>1, <1>3, <1>5, <1>7, <1>8, <1>9 DEF n

LEMMA CompletesKeeps ==
    ASSUME FileTypes, FilesInv, NEW cut \in {"whole", "open", "torn"}, Completes(cut)
    PROVE  /\ FilesInv' /\ Away' = Away
           /\ \A j \in Away : disk'[j] = disk[j]
           /\ disk' \in [Inodes -> Seq(Piece)]
           /\ cut \in {"open", "whole"}
           /\ disk'[log] = Completed(disk[log], cut)
  <1> DEFINE f == disk[log]
             n == Len(f)
             g == Completed(f, cut)
  <1>1. /\ log # NoFile /\ f # <<>> /\ cut \in {"open", "whole"}
        /\ disk' = [disk EXCEPT ![log] = g]
        /\ UNCHANGED <<log, rotated, aside, written, acked, pruned>>
    BY DEF Completes, history, Completed
  <1>2. f \in Seq(Piece) /\ log \in Inodes /\ log \in Kept /\ log \notin Away
    BY <1>1, WhereFilesAre DEF FilesInv, Places, FileTypes
  <1>3. /\ g \in Seq(Piece) /\ Len(g) = n /\ n \in Nat \ {0}
        /\ \A k \in 1..n : Record(g[k]) = Record(f[k])
        /\ Chains(f) => Chains(g)
    <2>1. g = Completed(f, cut) /\ n = Len(f)
      OBVIOUS
    <2> HIDE DEF f, g, n
    <2> QED
      BY <1>1, <1>2, <2>1, CompletedPiece
  <1> HIDE DEF g
  <1>4. /\ disk' \in [Inodes -> Seq(Piece)] /\ disk'[log] = g
        /\ \A j \in Inodes \ {log} : disk'[j] = disk[j]
    BY <1>1, <1>2, <1>3 DEF FileTypes
  <1>5. Away' = Away /\ Rotated' = Rotated /\ Kept' = Kept
    BY <1>1 DEF Away, Rotated, Kept
  <1>6. Places'
    BY <1>1, <1>5 DEF FilesInv, Places
  <1>7. \A j \in Kept \ {log} : j \in Inodes /\ disk'[j] = disk[j]
    BY <1>4, WhereFilesAre
  <1>8. \A j \in Away : disk'[j] = disk[j]
    BY <1>2, <1>7 DEF Kept
  <1>9. ChainInv'
    <2>1. \A j \in Kept' : Chains(disk'[j])
      BY <1>3, <1>4, <1>5, <1>7 DEF FilesInv, ChainInv
    <2> QED
      BY <2>1 DEF ChainInv, Chains
  <1>10. \A j \in Kept : /\ DOMAIN disk'[j] = DOMAIN disk[j]
                         /\ \A k \in DOMAIN disk[j] : disk'[j][k].mac = disk[j][k].mac
    <2>1. /\ DOMAIN g = DOMAIN f
          /\ \A k \in DOMAIN f : g[k].mac = f[k].mac
      <3>1. DOMAIN g = 1..n /\ DOMAIN f = 1..n
        BY <1>2, <1>3
      <3>2. \A k \in 1..n : Record(g[k]).mac = g[k].mac /\ Record(f[k]).mac = f[k].mac
        BY DEF Record
      <3> HIDE DEF f, n
      <3> QED
        BY <1>3, <3>1, <3>2
    <2> QED
      BY <1>4, <1>7, <2>1
  <1>11. MacInv'
    BY <1>1, <1>5, <1>10 DEF FilesInv, MacInv
  <1>12. AckedIsKept'
    <2>1. \A j \in Kept : MacsIn(disk'[j]) = MacsIn(disk[j])
      BY <1>10 DEF MacsIn
    <2>2. acked \subseteq pruned \cup UNION {MacsIn(disk[j]) : j \in Kept}
      BY AckedInKept DEF FilesInv
    <2>3. acked' \subseteq pruned' \cup UNION {MacsIn(disk'[j]) : j \in Kept'}
      BY <1>1, <1>5, <2>1, <2>2
    <2>4. (({log} \cup {rotated[n_] : n_ \in Rotated}) \ {NoFile})' \cup aside' = Kept'
      BY DEF Kept, Away, Rotated
    <2> QED
      BY <2>3, <2>4 DEF AckedIsKept, MacsIn
  <1> QED
    BY <1>1, <1>4, <1>5, <1>6, <1>8, <1>9, <1>11, <1>12 DEF FilesInv, g

(* The files that are deleted have no other place, and those that are kept *)
(* keep their contents.                                                    *)
LEMMA DeletesKeeps ==
    ASSUME FileTypes, FilesInv, NEW gone, Deletes(gone)
    PROVE  /\ FilesInv' /\ Away' \subseteq Away /\ Kept' \subseteq Kept
           /\ \A j \in Kept' : disk'[j] = disk[j]
           /\ log # NoFile => log \in Kept'
           /\ disk' \in [Inodes -> Seq(Piece)]
           /\ \A n \in Rotated \ gone : rotated'[n] = rotated[n] /\ n \in Rotated'
  <1>1. /\ gone \subseteq Rotated /\ Rotated \subseteq Names
        /\ rotated' = [n \in Names |-> IF n \in gone THEN NoFile ELSE rotated[n]]
        /\ disk' = [i \in Inodes |->
                  IF \A n \in gone : rotated[n] # i \/ i = tail.at
                  THEN disk[i] ELSE <<>>]
        /\ pruned' = pruned \cup UNION {MacsIn(disk[rotated[n]]) : n \in gone}
        /\ UNCHANGED <<log, aside, written, acked>>
    BY DEF Deletes, Rotated
  <1>2. /\ Rotated' = Rotated \ gone
        /\ \A n \in Rotated' : rotated'[n] = rotated[n]
    BY <1>1 DEF Rotated
  <1>3. Away' \subseteq Away /\ Kept' \subseteq Kept /\ (log # NoFile => log \in Kept')
    BY <1>1, <1>2 DEF Away, Kept
  <1>4. \A j \in Kept' : j \in Inodes /\ \A n \in gone : rotated[n] # j
    <2>1. SUFFICES ASSUME NEW j \in Kept', NEW n \in gone
                   PROVE  j \in Inodes /\ rotated[n] # j
      BY <1>3, WhereFilesAre
    <2>2. j \in Inodes /\ n \in Rotated /\ rotated[n] \in Away
      BY <1>1, <1>3, <2>1, WhereFilesAre DEF Away
    <2>3. CASE j \in aside
      BY <2>2, <2>3 DEF FilesInv, Places
    <2>4. CASE j = log
      BY <2>2, <2>4 DEF FilesInv, Places
    <2>5. ASSUME NEW m \in Rotated', j = rotated'[m]
          PROVE  rotated[n] # j
      BY <1>2, <2>1, <2>2, <2>5 DEF FilesInv, Places
    <2> QED
      BY <1>1, <2>1, <2>2, <2>3, <2>4, <2>5 DEF Kept, Away
  <1>5. \A j \in Kept' : disk'[j] = disk[j]
    BY <1>1, <1>4
  <1>6. disk' \in [Inodes -> Seq(Piece)]
    <2>1. <<>> \in Seq(Piece)
      OBVIOUS
    <2> QED
      BY <1>1, <2>1 DEF FileTypes
  <1>7. Places'
    BY <1>1, <1>2, <1>3 DEF FilesInv, Places
  <1>8. ChainInv'
    BY <1>3, <1>5 DEF FilesInv, ChainInv, Chains
  <1>9. MacInv'
    BY <1>1, <1>3, <1>5 DEF FilesInv, MacInv
  <1>10. AckedIsKept'
    <2>1. ASSUME NEW m \in acked, m \notin pruned'
          PROVE  \E j \in Kept' : m \in MacsIn(disk'[j])
      <3>1. PICK j \in Kept : m \in MacsIn(disk[j])
        BY <1>1, <2>1, AckedInKept DEF FilesInv
      <3>2. \A n \in gone : rotated[n] # j
        BY <1>1, <2>1, <3>1
      <3>3. j \in Kept'
        BY <1>1, <1>2, <3>1, <3>2 DEF Kept, Away
      <3> QED
        BY <1>5, <3>1, <3>3
    <2>2. (({log} \cup {rotated[n] : n \in Rotated}) \ {NoFile})' \cup aside' = Kept'
      <3>1. NoFile \notin aside
        BY WhereFilesAre DEF FileTypes
      <3> QED
        BY <1>1, <3>1 DEF Kept, Away, Rotated
    <2>3. acked' = acked
      BY <1>1
    <2> QED
      BY <2>1, <2>2, <2>3 DEF AckedIsKept
  <1> QED
    BY <1>2, <1>3, <1>5, <1>6, <1>7, <1>8, <1>9, <1>10 DEF FilesInv

-----------------------------------------------------------------------------
(* What the steps on files are to AuditLog                                 *)

Current == Records(Contents(log))
Closed == {Records(disk[i]) : i \in Away} \ {<<>>}

Stutters == UNCHANGED <<Current, Closed>>

Writes(m) ==
    /\ m \notin UNION {Chain!MacsOf(chain) : chain \in Closed \cup {Current}}
    /\ Current' = Append(Current,
          [seq |-> Len(Current) + 1, mac |-> m,
           prev |-> IF Current = <<>> THEN 0 ELSE Current[Len(Current)].mac])
    /\ Closed' = Closed

Closes == Current # <<>> /\ Closed' = Closed \cup {Current} /\ Current' = <<>>

LEMMA ChainSteps ==
    /\ \A m : Writes(m) <=> Chain!Write(m)
    /\ Closes <=> Chain!Close
    /\ Closed' \subseteq Closed /\ Current' = Current => Chain!Prune
    /\ Stutters <=>
         UNCHANGED <<Records(Contents(log)),
             {Records(disk[i]) : i \in {rotated[n] : n \in Rotated} \cup aside}
               \ {<<>>}>>
  <1>1. \A m : Writes(m) <=> Chain!Write(m)
    BY DEF Writes, Chain!Write, Current, Closed, Away
  <1>2. Closes <=> Chain!Close
    BY DEF Closes, Chain!Close, Current, Closed, Away
  <1>3. Closed' \subseteq Closed /\ Current' = Current => Chain!Prune
    BY DEF Chain!Prune, Current, Closed, Away
  <1>4. Stutters <=>
         UNCHANGED <<Records(Contents(log)),
             {Records(disk[i]) : i \in {rotated[n] : n \in Rotated} \cup aside}
               \ {<<>>}>>
    BY DEF Stutters, Current, Closed, Away
  <1> QED
    BY <1>1, <1>2, <1>3, <1>4

ChainStep == (\E m \in Macs : Writes(m)) \/ Closes
             \/ (Closed' \subseteq Closed /\ Current' = Current) \/ Stutters

(* Files that are put away and do not change are chains that do not.       *)
LEMMA ClosedStays ==
    ASSUME Away' = Away, \A j \in Away : disk'[j] = disk[j]
    PROVE  Closed' = Closed
  BY DEF Closed

LEMMA ARecordIsWritten ==
    ASSUME FileTypes, NEW f \in Seq(Piece), NEW g \in Seq(Piece), NEW m,
           Contents(log) = f, Contents(log)' = g, Closed' = Closed,
           Chains(g), Legible(g) = Legible(f) + 1,
           \A k \in 1..Legible(f) : Record(g[k]) = Record(f[k]),
           g[Legible(g)].mac = m,
           \A k \in 1..Legible(f) : f[k].mac # m,
           \A j \in Away : \A k \in DOMAIN disk[j] : disk[j][k].mac # m
    PROVE  Writes(m)
  <1> DEFINE n == Legible(f)
             p == g[n + 1]
             r == [seq |-> n + 1, mac |-> m,
                   prev |-> IF Records(f) = <<>> THEN 0 ELSE Records(f)[n].mac]
  <1>1. /\ n \in Nat /\ n + 1 \in 1..Len(g) /\ Len(Records(f)) = n
        /\ Records(f) = <<>> <=> n = 0
        /\ \A k \in 1..n : Records(f)[k] = Record(f[k])
    BY RecordsOf
  <1>2. Records(g) = Append(Records(f), Record(p))
    BY OneRecordMore
  <1>3. Record(p) = r
    <2>1. n + 1 \in DOMAIN g
      BY <1>1
    <2>2. p.seq = n + 1 /\ p.prev = IF n = 0 THEN 0 ELSE g[n].mac
      <3> HIDE DEF n
      <3>1. n + 1 - 1 = n /\ (n + 1 = 1 <=> n = 0) /\ n \in Nat
        BY <1>1
      <3> QED
        BY <2>1, <3>1 DEF Chains
    <2>3. n # 0 => g[n].mac = Records(f)[n].mac
      <3>1. SUFFICES ASSUME n # 0
                     PROVE  g[n].mac = Records(f)[n].mac
        OBVIOUS
      <3>2. n \in 1..n
        BY <1>1, <3>1
      <3>3. Record(g[n]) = Record(f[n]) /\ Records(f)[n] = Record(f[n])
        BY <1>1, <3>2
      <3>4. Record(g[n]).mac = g[n].mac
        BY DEF Record
      <3> QED
        BY <3>3, <3>4
    <2>4. p.mac = m
      OBVIOUS
    <2>5. p.prev = IF Records(f) = <<>> THEN 0 ELSE Records(f)[n].mac
      BY <1>1, <2>2, <2>3
    <2> HIDE DEF p, n
    <2> QED
      BY <2>2, <2>4, <2>5 DEF Record
  <1>4. m \notin Chain!MacsOf(Records(f))
    <2>1. SUFFICES ASSUME NEW k \in DOMAIN Records(f)
                   PROVE  Records(f)[k].mac # m
      BY DEF Chain!MacsOf
    <2>2. k \in 1..n /\ Records(f)[k] = Record(f[k])
      BY RecordsOf, <1>1
    <2> QED
      BY <2>2 DEF Record
  <1>5. \A chain \in Closed : m \notin Chain!MacsOf(chain)
    <2>1. SUFFICES ASSUME NEW j \in Away, NEW k \in DOMAIN Records(disk[j])
                   PROVE  Records(disk[j])[k].mac # m
      BY DEF Closed, Chain!MacsOf
    <2> DEFINE h == disk[j]
    <2>2. h \in Seq(Piece)
      BY WhereFilesAre DEF FileTypes
    <2>3. k \in DOMAIN h /\ Records(h)[k] = Record(h[k])
      <3> HIDE DEF h
      <3>1. /\ Legible(h) \in 0..Len(h) /\ DOMAIN Records(h) = 1..Legible(h)
            /\ Records(h) = [l \in 1..Legible(h) |-> Record(h[l])]
        BY <2>2, RecordsOf
      <3>2. k \in 1..Legible(h) /\ k \in 1..Len(h)
        BY <3>1 DEF h
      <3> QED
        BY <2>2, <3>1, <3>2
    <2> QED
      BY <2>3 DEF Record
  <1>6. Current = Records(f) /\ Current' = Records(g)
    BY DEF Current
  <1> HIDE DEF n, p
  <1> QED
    BY <1>1, <1>2, <1>3, <1>4, <1>5, <1>6 DEF Writes

LEMMA StillSteps ==
    ASSUME UNCHANGED files
    PROVE  Stutters
  BY DEF files, Stutters, Current, Closed, Contents, Away, Rotated

LEMMA NewLogSteps ==
    ASSUME FileTypes, FilesInv, NewLog
    PROVE  Stutters
  <1>1. Current' = Current
    BY NewLogKeeps DEF Current
  <1>2. Closed' = Closed
    BY NewLogKeeps, ClosedStays DEF Kept
  <1> QED
    BY <1>1, <1>2 DEF Stutters

LEMMA PutAwaySteps ==
    ASSUME FileTypes, FilesInv, PutAway
    PROVE  Closes \/ Stutters
  <1>1. log # NoFile /\ Current = Records(disk[log])
    BY WhereFilesAre DEF PutAway, Current
  <1>2. Current' = <<>>
    BY PutAwayKeeps, NoRecords DEF Current
  <1>3. Away' = Away \cup {log} /\ disk' = disk
    BY PutAwayKeeps
  <1>4. Closed' = (Closed \cup {Current}) \ {<<>>}
    BY <1>1, <1>3 DEF Closed
  <1>5. <<>> \notin Closed
    BY DEF Closed
  <1> QED
    BY <1>2, <1>4, <1>5 DEF Closes, Stutters

LEMMA AppendsSteps ==
    ASSUME FileTypes, FilesInv, NEW cut \in {"whole", "open", "torn"}, Appends(cut)
    PROVE  (\E m \in Macs : Writes(m)) \/ Stutters
  <1> DEFINE f == Contents(log)
             g == Append(f, NextPiece(cut))
             m == written + 1
  <1>1. Closed' = Closed
    BY AppendsKeeps, ClosedStays
  <1>2. Contents(log)' = g
    BY AppendsKeeps DEF Contents
  <1>3. f \in Seq(Piece) /\ Chains(f)
    <2>1. Chains(<<>>)
      BY DEF Chains
    <2> QED
      BY <2>1, WhereFilesAre DEF FilesInv, ChainInv
  <1>4. /\ g \in Seq(Piece) /\ Chains(g) /\ Len(g) = Len(f) + 1
        /\ \A k \in 1..Len(f) : g[k] = f[k]
        /\ Last(g) = NextPiece(cut) /\ g[Len(g)] = NextPiece(cut)
    BY <1>3, AppendedChains DEF Appends
  <1>5. Legible(f) = Len(f) /\ Len(f) \in Nat
    BY <1>3 DEF Appends, Legible
  <1>6. NextPiece(cut).mac = m /\ NextPiece(cut).cut = cut /\ m \in Macs /\ g # <<>>
    <2>1. NextPiece(cut).mac = m /\ NextPiece(cut).cut = cut
      BY DEF NextPiece
    <2>2. m \in Macs
      BY NumbersAreInt DEF Appends, FileTypes, Macs
    <2>3. Len(g) # 0
      BY <1>4, <1>5
    <2>4. g # <<>>
      <3> HIDE DEF g
      <3> QED
        BY <2>3
    <2> QED
      BY <2>1, <2>2, <2>4
  <1>7. \A j \in Kept : \A k \in DOMAIN disk[j] : disk[j][k].mac # m
    <2>1. \A p \in Piece : p.mac \in Nat
      BY NumbersAreInt DEF Piece
    <2>2. \A j \in Kept : \A k \in DOMAIN disk[j] : disk[j][k] \in Piece
      BY WhereFilesAre
    <2>3. written \in Nat
      BY DEF FileTypes
    <2>4. \A x \in Nat : x <= written => x # written + 1
      BY <2>3
    <2> QED
      BY <2>1, <2>2, <2>4 DEF FilesInv, MacInv
  <1>8. \A k \in 1..Len(f) : f[k].mac # m
    <2>1. log # NoFile => f = disk[log] /\ log \in Kept
      BY WhereFilesAre
    <2>2. log = NoFile => Len(f) = 0
      BY WhereFilesAre
    <2> QED
      BY <1>3, <1>5, <1>7, <2>1, <2>2
  <1>9. Torn(g) <=> cut = "torn"
    BY <1>4, <1>6 DEF Torn
  <1>10. CASE cut = "torn"
    <2>1. Legible(g) = Legible(f)
      BY <1>4, <1>5, <1>9, <1>10 DEF Legible
    <2>2. Records(g) = Records(f)
      <3> HIDE DEF f, g
      <3> QED
        BY <1>3, <1>4, <1>5, <2>1, SameRecords
    <2> QED
      BY <1>1, <1>2, <2>2 DEF Stutters, Current
  <1>11. CASE cut # "torn"
    <2>1. Legible(g) = Legible(f) + 1 /\ Legible(g) = Len(g)
      BY <1>4, <1>5, <1>9, <1>11 DEF Legible
    <2>2. g[Legible(g)].mac = m
      BY <1>4, <1>6, <2>1
    <2>3. \A k \in 1..Legible(f) : Record(g[k]) = Record(f[k]) /\ f[k].mac # m
      BY <1>4, <1>5, <1>8
    <2>4. \A j \in Away : \A k \in DOMAIN disk[j] : disk[j][k].mac # m
      BY <1>7 DEF Kept
    <2>5. Contents(log) = f
      OBVIOUS
    <2> HIDE DEF f, g, m
    <2> QED
      BY <1>1, <1>2, <1>3, <1>4, <1>6, <2>1, <2>2, <2>3, <2>4, <2>5, ARecordIsWritten
  <1> QED
    BY <1>10, <1>11

LEMMA CompletesSteps ==
    ASSUME FileTypes, FilesInv, NEW cut \in {"whole", "open", "torn"}, Completes(cut)
    PROVE  (\E m \in Macs : Writes(m)) \/ Stutters
  <1> DEFINE f == disk[log]
             n == Len(f)
             g == Completed(f, cut)
  <1>1. /\ log # NoFile /\ f # <<>> /\ Last(f).mac = written
        /\ <<Last(f).cut, cut>> \in {<<"torn", "open">>, <<"torn", "whole">>,
                                     <<"open", "whole">>}
        /\ log' = log
    BY DEF Completes
  <1>2. /\ f \in Seq(Piece) /\ log \in Inodes /\ log \in Kept /\ log \notin Away
        /\ Contents(log) = f
    BY <1>1, WhereFilesAre DEF FilesInv, Places, FileTypes
  <1>3. Closed' = Closed
    BY CompletesKeeps, ClosedStays
  <1>4. Contents(log)' = g
    BY <1>1, CompletesKeeps DEF Contents
  <1>5. /\ g \in Seq(Piece) /\ Len(g) = n /\ n \in Nat \ {0}
        /\ \A k \in 1..n : Record(g[k]) = Record(f[k])
        /\ g[n].cut = cut /\ Chains(g)
    <2>1. Chains(f)
      BY <1>2 DEF FilesInv, ChainInv
    <2>2. g = Completed(f, cut) /\ n = Len(f) /\ cut \in {"open", "whole"}
      BY <1>1
    <2> HIDE DEF f, g, n
    <2> QED
      BY <1>1, <1>2, <2>1, <2>2, CompletedPiece
  <1> HIDE DEF g
  <1>6. ~Torn(g) /\ Legible(g) = n
    BY <1>1, <1>5 DEF Torn, Last, Legible
  <1>7. CASE Last(f).cut = "open"
    <2>1. Legible(f) = n
      BY <1>7 DEF Legible, Torn
    <2>2. Records(g) = Records(f)
      <3> HIDE DEF f, n
      <3> QED
        BY <1>2, <1>5, <1>6, <2>1, SameRecords
    <2> QED
      BY <1>2, <1>3, <1>4, <2>2 DEF Stutters, Current
  <1>8. CASE Last(f).cut = "torn"
    <2>1. Legible(g) = Legible(f) + 1 /\ 1..Legible(f) \subseteq 1..n
      BY <1>1, <1>5, <1>6, <1>8 DEF Legible, Torn
    <2>2. f[n].mac = written /\ n \in DOMAIN f /\ f[n] \in Piece
      BY <1>1, <1>2, <1>5 DEF Last
    <2>3. g[Legible(g)].mac = written
      <3>1. Record(g[n]).mac = g[n].mac /\ Record(f[n]).mac = f[n].mac
        BY DEF Record
      <3>2. n \in 1..n
        BY <1>5
      <3> HIDE DEF n
      <3> QED
        BY <1>5, <1>6, <2>2, <3>1, <3>2
    <2>4. ASSUME NEW k \in 1..Legible(f)
          PROVE  f[k].mac # written
      <3>1. k \in DOMAIN f /\ k # n
        <4> HIDE DEF f, n
        <4>1. Legible(f) \in Nat
          BY <1>2, RecordsOf
        <4>2. k \in 1..n /\ k # n
          BY <1>5, <1>6, <2>1, <2>4, <4>1
        <4> QED
          BY <1>2, <4>2 DEF n
      <3> QED
        BY <1>2, <2>2, <3>1 DEF FilesInv, MacInv
    <2>5. ASSUME NEW j \in Away, NEW k \in DOMAIN disk[j]
          PROVE  disk[j][k].mac # written
      BY <1>2, <2>2, <2>5 DEF FilesInv, MacInv, Kept
    <2>6. written \in Macs
      BY <2>2 DEF Piece
    <2> HIDE DEF f, n
    <2> QED
      BY <1>2, <1>3, <1>4, <1>5, <2>1, <2>3, <2>4, <2>5, <2>6, ARecordIsWritten
  <1> QED
    BY <1>1, <1>7, <1>8

LEMMA DeletesSteps ==
    ASSUME FileTypes, FilesInv, NEW gone, Deletes(gone)
    PROVE  Closed' \subseteq Closed /\ Current' = Current
  <1>1. /\ Away' \subseteq Away /\ Kept' \subseteq Kept /\ log' = log
        /\ \A j \in Kept' : disk'[j] = disk[j]
        /\ log # NoFile => log \in Kept'
    BY DeletesKeeps DEF Deletes
  <1>2. Closed' \subseteq Closed
    BY <1>1 DEF Closed, Kept
  <1>3. Contents(log)' = Contents(log)
    BY <1>1 DEF Contents
  <1> QED
    BY <1>2, <1>3 DEF Current

-----------------------------------------------------------------------------
(* Every action is one of those steps on the files                         *)

FileStep ==
    \/ /\ UNCHANGED <<files, written, pruned>>
       /\ \A m \in acked' \ acked : \E i \in Kept : m \in MacsIn(disk[i])
    \/ NewLog
    \/ PutAway
    \/ \E cut \in {"whole", "open", "torn"} : Appends(cut) \/ Completes(cut)
    \/ \E gone : Deletes(gone)

LEMMA FileStepKeeps ==
    ASSUME FileTypes, FilesInv, FileStep
    PROVE  FilesInv' /\ ChainStep
  <1>1. CASE /\ UNCHANGED <<files, written, pruned>>
             /\ \A m \in acked' \ acked : \E i \in Kept : m \in MacsIn(disk[i])
    BY <1>1, StillKeeps, StillSteps DEF ChainStep
  <1>2. CASE NewLog
    BY <1>2, NewLogKeeps, NewLogSteps DEF ChainStep
  <1>3. CASE PutAway
    BY <1>3, PutAwayKeeps, PutAwaySteps DEF ChainStep
  <1>4. ASSUME NEW cut \in {"whole", "open", "torn"}, Appends(cut)
        PROVE  FilesInv' /\ ChainStep
    BY <1>4, AppendsKeeps, AppendsSteps DEF ChainStep
  <1>5. ASSUME NEW cut \in {"whole", "open", "torn"}, Completes(cut)
        PROVE  FilesInv' /\ ChainStep
    BY <1>5, CompletesKeeps, CompletesSteps DEF ChainStep
  <1>6. ASSUME NEW gone, Deletes(gone)
        PROVE  FilesInv' /\ ChainStep
    BY <1>6, DeletesKeeps, DeletesSteps DEF ChainStep
  <1> QED
    BY <1>1, <1>2, <1>3, <1>4, <1>5, <1>6 DEF FileStep

LEMMA FilesOf ==
    ASSUME IInv
    PROVE  FileTypes /\ FilesInv
  BY DEF IInv, FileTypes, TypeOK, FilesInv, Places, PlaceInv

LEMMA OpenIsFileStep ==
    ASSUME IInv, Open
    PROVE  FileStep
  BY DEF Open, FileStep, NewLog, files, history

LEMMA MovesAreFileSteps ==
    ASSUME IInv, CanMove, MoveAway, Contents(log) # <<>>,
           UNCHANGED <<disk, aside, history>>
    PROVE  PutAway
  <1>1. Target \in Names /\ rotated[Target] = NoFile
    BY TargetIsFree DEF IInv
  <1>2. log # NoFile
    BY DEF Contents
  <1> QED
    BY <1>1, <1>2 DEF MoveAway, PutAway

LEMMA MoveAsideIsFileStep ==
    ASSUME IInv, MoveAside
    PROVE  PutAway
  <1>1. log # NoFile
    BY DEF MoveAside, Verified, Contents
  <1> QED
    BY <1>1 DEF MoveAside, PutAway

LEMMA ThreadStepsOnFiles ==
    ASSUME IInv, NEW t \in Threads,
           \/ Rotate(t) \/ Create(t) \/ Fail(t) \/ Return(t)
           \/ \E cut \in {"whole", "open", "torn"} : Append1(t, cut) \/ Append2(t, cut)
    PROVE  FileStep
  <1>1. CASE Rotate(t)
    BY <1>1, MovesAreFileSteps DEF Rotate, FileStep
  <1>2. CASE Create(t)
    <2>1. log = NoFile
      BY <1>2 DEF IInv, ThreadInv, Create
    <2> QED
      BY <1>2, <2>1 DEF Create, FileStep, NewLog, files, history
  <1>3. CASE Fail(t)
    BY <1>3 DEF Fail, FileStep, files, history
  <1>4. CASE Return(t)
    <2>1. log # NoFile /\ disk[log] # <<>>
      BY <1>4 DEF Return, IInv, ThreadInv
    <2>2. log \in Kept /\ disk[log] \in Seq(Piece)
      BY <2>1, FilesOf, WhereFilesAre
    <2>3. Len(disk[log]) \in DOMAIN disk[log]
      BY <2>1, <2>2
    <2>4. Last(disk[log]).mac \in MacsIn(disk[log])
      BY <2>3 DEF Last, MacsIn
    <2> QED
      BY <1>4, <2>2, <2>4 DEF Return, FileStep, files
  <1>5. ASSUME NEW cut \in {"whole", "open", "torn"}, Append1(t, cut)
        PROVE  Appends(cut)
    <2>1. Continues(Contents(log)) /\ ~Torn(Contents(log))
      BY <1>5 DEF Append1, IInv, ThreadInv
    <2> QED
      BY <1>5, <2>1 DEF Append1, Appends
  <1>6. ASSUME NEW cut \in {"whole", "open", "torn"}, Append2(t, cut)
        PROVE  Completes(cut)
    <2>1. log # NoFile /\ disk[log] # <<>> /\ Last(disk[log]).mac = written
      BY <1>6 DEF Append2, IInv, ThreadInv
    <2> QED
      BY <1>6, <2>1 DEF Append2, Completes
  <1> QED
    BY <1>1, <1>2, <1>3, <1>4, <1>5, <1>6 DEF FileStep

LEMMA CommandStepsOnFiles ==
    ASSUME IInv, NEW c \in Commands, ForceRotate(c) \/ ForceCreate(c) \/ PruneDeletes(c)
    PROVE  FileStep
  <1>1. CASE ForceRotate(c)
    <2>1. CASE Contents(log) # <<>> /\ CanMove /\ MoveAway
      BY <1>1, <2>1, MovesAreFileSteps DEF ForceRotate, FileStep
    <2>2. CASE UNCHANGED <<log, rotated>>
      BY <1>1, <2>2 DEF ForceRotate, FileStep, files, history
    <2> QED
      BY <1>1, <2>1, <2>2 DEF ForceRotate
  <1>2. CASE ForceCreate(c)
    <2>1. log = NoFile
      BY <1>2 DEF IInv, PlaceInv, ForceCreate
    <2> QED
      BY <1>2, <2>1 DEF ForceCreate, FileStep, NewLog, files, history
  <1>3. CASE PruneDeletes(c)
    <2> DEFINE gone == {n \in Listed(c) : Listing[n] = cmd[c].todo[n]}
    <2>1. gone \subseteq Rotated
      <3>1. SUFFICES ASSUME NEW n \in gone
                     PROVE  n \in Rotated
        OBVIOUS
      <3>2. n \in Names /\ cmd[c].todo[n].file # NoFile /\ Listing[n] = cmd[c].todo[n]
        BY DEF Listed
      <3>3. Listing[n].file = rotated[n]
        BY <3>2 DEF Listing, Identity
      <3> QED
        BY <3>2, <3>3 DEF Rotated
    <2>2. /\ rotated' = [n \in Names |-> IF n \in gone THEN NoFile ELSE rotated[n]]
          /\ disk' = [i \in Inodes |->
                IF i \in {j \in Inodes : \A n \in gone : rotated[n] # j \/ j = tail.at}
                THEN disk[i] ELSE <<>>]
          /\ pruned' = pruned \cup UNION {MacsIn(disk[rotated[n]]) : n \in gone}
          /\ UNCHANGED <<log, aside, written, acked>>
      BY <1>3 DEF PruneDeletes
    <2> HIDE DEF gone
    <2>3. disk' = [i \in Inodes |->
                     IF \A n \in gone : rotated[n] # i \/ i = tail.at
                     THEN disk[i] ELSE <<>>]
      BY <2>2
    <2>4. Deletes(gone)
      BY <2>1, <2>2, <2>3 DEF Deletes
    <2> QED
      BY <2>4 DEF FileStep
  <1> QED
    BY <1>1, <1>2, <1>3

(* No action but these touches a file.                                     *)
LEMMA StepsOnFiles ==
    ASSUME IInv, [Next]_vars
    PROVE  FileStep
  <1>1. CASE UNCHANGED <<files, history>>
    BY <1>1 DEF FileStep, history
  <1>2. CASE Open \/ Killed \/ MoveAside \/ Tick
    BY <1>1, <1>2, OpenIsFileStep, MoveAsideIsFileStep DEF Killed, Tick, FileStep
  <1>3. ASSUME NEW t \in Threads,
               \/ Begin(t) \/ CancelWrite(t)
               \/ Take(t) \/ Unrecoverable(t) \/ Rotate(t) \/ Create(t)
               \/ \E cut \in {"whole", "open", "torn"} : Append1(t, cut) \/ Append2(t, cut)
               \/ Fail(t) \/ Return(t)
        PROVE  FileStep
    BY <1>1, <1>3, ThreadStepsOnFiles
       DEF Begin, CancelWrite, Take, Unrecoverable
  <1>4. ASSUME NEW c \in Commands,
               \/ RotateOpens(c) \/ ForceRotate(c) \/ ForceCreate(c)
               \/ ListFiles(c) \/ Reported(c) \/ \E n \in Names : ReadRotated(c, n)
               \/ PruneReads(c) \/ PruneDeletes(c)
        PROVE  FileStep
    BY <1>1, <1>4, CommandStepsOnFiles
       DEF RotateOpens, ListFiles, Reported, ReadRotated, PruneReads
  <1>5. CASE TailOpens \/ TailAsks \/ TailPrints \/ TailMoves
    BY <1>1, <1>5 DEF TailOpens, TailAsks, TailPrints, TailMoves
  <1>6. CASE UNCHANGED vars
    BY <1>1, <1>6 DEF vars
  <1> QED
    BY <1>2, <1>3, <1>4, <1>5, <1>6 DEF Next

-----------------------------------------------------------------------------
(* Types                                                                   *)

LEMMA Identities ==
    ASSUME TypeOK, NEW i \in Inodes \cup {NoFile}
    PROVE  /\ Identity(i) \in FileIdentity /\ Contents(i) \in Seq(Piece)
           /\ Identity(i).file = i /\ Identity(i).pieces = Len(Contents(i))
           /\ Identity(i).cut = IF Contents(i) = <<>> THEN "whole"
                                ELSE Last(Contents(i)).cut
  <1>1. Contents(i) \in Seq(Piece)
    BY DEF TypeOK, Contents
  <1>2. Contents(i) # <<>> => Last(Contents(i)).cut \in {"whole", "open", "torn"}
    <2>1. Contents(i) # <<>> => Len(Contents(i)) \in DOMAIN Contents(i)
      BY <1>1
    <2>2. Contents(i) # <<>> => Last(Contents(i)) \in Piece
      BY <1>1, <2>1 DEF Last
    <2> QED
      BY <2>2 DEF Piece
  <1> QED
    BY <1>1, <1>2 DEF Identity, FileIdentity

(* The chain after a file.                                                 *)
LEMMA ChainAfterTyped ==
    ASSUME NEW f \in Seq(Piece)
    PROVE  ChainAfter(f).seq \in Nat \ {0} /\ ChainAfter(f).prev \in Macs \cup {0}
  <1>1. CASE f = <<>>
    BY <1>1 DEF ChainAfter
  <1>2. CASE f # <<>>
    <2>1. Last(f) \in Piece
      BY <1>2 DEF Last
    <2>2. Last(f).seq \in Nat \ {0} /\ Last(f).mac \in Macs
      BY <2>1 DEF Piece
    <2> QED
      BY <1>2, <2>2 DEF ChainAfter
  <1> QED
    BY <1>1, <1>2

LEMMA WriterAfterIs ==
    ASSUME NEW w \in Writer, NEW f \in Seq(Piece)
    PROVE  /\ WriterAfter(w, f) \in Writer
           /\ WriterAfter(w, f).state = w.state
           /\ WriterAfter(w, f).seq = ChainAfter(f).seq
           /\ WriterAfter(w, f).prev = ChainAfter(f).prev
  <1>1. ChainAfter(f).seq \in Nat \ {0} /\ ChainAfter(f).prev \in Macs \cup {0}
    BY ChainAfterTyped
  <1> DEFINE a == ChainAfter(f).seq
             b == ChainAfter(f).prev
  <1>2. WriterAfter(w, f) = [w EXCEPT !.seq = a, !.prev = b]
    BY DEF WriterAfter
  <1> HIDE DEF a, b
  <1>3. a \in Nat \ {0} /\ b \in Macs \cup {0}
    BY <1>1 DEF a, b
  <1> QED
    BY <1>2, <1>3 DEF Writer, a, b

LEMMA NoWriterIs ==
    ASSUME TypeOK
    PROVE  /\ NoWriter \in Writer /\ NoWriter.seq = 1 /\ NoWriter.prev = 0
           /\ NoWriter.state = Identity(NoFile)
           /\ NoWriter.state.file = NoFile /\ NoWriter.state.cut = "whole"
           /\ NoWriter.state.pieces = 0
  <1>1. Identity(NoFile) \in FileIdentity
    BY Identities
  <1>2. Contents(NoFile) = <<>>
    BY DEF Contents
  <1>3. Identity(NoFile) = [file |-> NoFile, pieces |-> 0, cut |-> "whole"]
    BY <1>2 DEF Identity
  <1> QED
    BY <1>1, <1>3 DEF NoWriter, Writer

LEMMA ChainedIs ==
    ASSUME TypeOK, WriterInv
    PROVE  /\ Chained \in Writer /\ Chained.state = writer.state
           /\ Chained.seq = ChainAfter(Contents(log)).seq
           /\ Chained.prev = ChainAfter(Contents(log)).prev
  <1>1. Contents(log) \in Seq(Piece) /\ writer \in Writer
    BY Identities DEF TypeOK
  <1> QED
    BY <1>1, WriterAfterIs DEF Chained, WriterInv, Continues

LEMMA RestartedIs ==
    ASSUME TypeOK
    PROVE  /\ Restarted \in Writer /\ Restarted.seq = 1 /\ Restarted.prev = 0
           /\ Restarted.state = writer.state
  <1> DEFINE w == writer
             r == [w EXCEPT !.seq = 1, !.prev = 0]
  <1>1. w \in Writer /\ Restarted = r
    BY DEF TypeOK, Restarted
  <1>2. 1 \in Nat \ {0}
    OBVIOUS
  <1> HIDE DEF w
  <1>3. r \in Writer /\ r.seq = 1 /\ r.prev = 0 /\ r.state = w.state
    BY <1>1, <1>2 DEF Writer
  <1> QED
    BY <1>1, <1>3 DEF w

(* The fields of a command, and of one that has ended.                     *)
LEMMA UnusedIs ==
    ASSUME TypeOK
    PROVE  /\ Unused \in Command /\ Nothing \in [Names -> FileIdentity]
           /\ \A n \in Names : Nothing[n].file = NoFile
           /\ Unused.phase = "idle" /\ Unused.todo = Nothing /\ Unused.kind = "none"
           /\ Unused.owed = {} /\ Unused.seen = {}
  <1>1. Identity(NoFile) \in FileIdentity /\ Identity(NoFile).file = NoFile
    BY Identities
  <1>2. Nothing \in [Names -> FileIdentity]
    BY <1>1 DEF Nothing
  <1> QED
    BY <1>1, <1>2 DEF Unused, Command, Nothing

LEMMA EndIs ==
    ASSUME TypeOK, NEW c \in Commands, End(c)
    PROVE  /\ cmd' \in [Commands -> Command]
           /\ \A d \in Commands \ {c} : cmd'[d] = cmd[d]
           /\ cmd'[c].phase = "idle" /\ cmd'[c].kind = cmd[c].kind
           /\ cmd'[c].todo = Nothing
  <1> DEFINE r == [Unused EXCEPT !.kind = cmd[c].kind]
  <1>1. cmd[c].kind \in {"none", "rotate", "verify-all", "export", "prune"}
    BY DEF TypeOK, Command
  <1>2. /\ r \in Command /\ r.phase = "idle" /\ r.kind = cmd[c].kind
        /\ r.todo = Nothing
    BY <1>1, UnusedIs DEF Command
  <1>3. cmd' = [cmd EXCEPT ![c] = r]
    BY DEF End
  <1> HIDE DEF r
  <1> QED
    BY <1>2, <1>3 DEF TypeOK

LEMMA ListingIs ==
    ASSUME TypeOK
    PROVE  /\ Listing \in [Names -> FileIdentity]
           /\ \A n \in Names : Listing[n] = Identity(rotated[n])
           /\ \A n \in Names : Listing[n].file = rotated[n]
  <1>1. \A n \in Names : rotated[n] \in Inodes \cup {NoFile}
    BY DEF TypeOK
  <1> QED
    BY <1>1, Identities DEF Listing

LEMMA MacsTyped ==
    ASSUME NEW f \in Seq(Piece)
    PROVE  MacsIn(f) \subseteq Macs
  <1>1. \A p \in Piece : p.mac \in Macs
    BY DEF Piece
  <1>2. \A k \in DOMAIN f : f[k] \in Piece
    OBVIOUS
  <1> QED
    BY <1>1, <1>2 DEF MacsIn

LEMMA FileStepTypes ==
    ASSUME TypeOK, FileTypes, FilesInv, FileStep
    PROVE  /\ disk' \in [Inodes -> Seq(Piece)]
           /\ log' \in Inodes \cup {NoFile}
           /\ rotated' \in [Names -> Inodes \cup {NoFile}]
           /\ aside' \subseteq Inodes
           /\ written' \in 0..MaxWrites
           /\ acked' \subseteq Macs /\ pruned' \subseteq Macs
  <1> DEFINE Goal == /\ disk' \in [Inodes -> Seq(Piece)]
                     /\ log' \in Inodes \cup {NoFile}
                     /\ rotated' \in [Names -> Inodes \cup {NoFile}]
                     /\ aside' \subseteq Inodes
                     /\ written' \in 0..MaxWrites
                     /\ acked' \subseteq Macs /\ pruned' \subseteq Macs
  <1>1. CASE /\ UNCHANGED <<files, written, pruned>>
             /\ \A m \in acked' \ acked : \E i \in Kept : m \in MacsIn(disk[i])
    <2>1. \A i \in Kept : MacsIn(disk[i]) \subseteq Macs
      BY WhereFilesAre, MacsTyped
    <2> QED
      BY <1>1, <2>1 DEF files, TypeOK
  <1>2. CASE NewLog
    <2>1. <<>> \in Seq(Piece)
      OBVIOUS
    <2> QED
      BY <1>2, <2>1, WhereFilesAre DEF NewLog, history, TypeOK
  <1>3. CASE PutAway
    BY SMTT(20), <1>3 DEF PutAway, history, TypeOK
  <1>4. ASSUME NEW cut \in {"whole", "open", "torn"}, Appends(cut)
        PROVE  Goal
    <2>1. disk' \in [Inodes -> Seq(Piece)] /\ (log' = log \/ log' \in Free)
      BY <1>4, AppendsKeeps
    <2>2. log' \in Inodes \cup {NoFile}
      BY <2>1, WhereFilesAre DEF TypeOK
    <2>3. written' \in 0..MaxWrites
      BY <1>4, NumbersAreInt DEF Appends, TypeOK
    <2> QED
      BY <1>4, <2>1, <2>2, <2>3 DEF Appends, TypeOK
  <1>5. ASSUME NEW cut \in {"whole", "open", "torn"}, Completes(cut)
        PROVE  Goal
    BY <1>5, CompletesKeeps DEF Completes, history, TypeOK
  <1>6. ASSUME NEW gone, Deletes(gone)
        PROVE  Goal
    <2>1. disk' \in [Inodes -> Seq(Piece)]
      BY <1>6, DeletesKeeps
    <2>2. \A n \in gone : MacsIn(disk[rotated[n]]) \subseteq Macs
      <3>1. \A n \in gone : rotated[n] \in Inodes
        BY <1>6 DEF Deletes, Rotated, TypeOK
      <3> QED
        BY <3>1, MacsTyped DEF TypeOK
    <2>3. pruned' \subseteq Macs
      BY <1>6, <2>2 DEF Deletes, TypeOK
    <2> QED
      BY <1>6, <2>1, <2>3 DEF Deletes, TypeOK
  <1> QED
    BY <1>1, <1>2, <1>3, <1>4, <1>5, <1>6 DEF FileStep

-----------------------------------------------------------------------------
(* The processes                                                           *)

ProcessTypes ==
    /\ clock \in Stamps
    /\ daemon \in {"down", "up", "refused"}
    /\ writer \in Writer
    /\ turn \in Threads \cup {NoOne}
    /\ thread \in [Threads -> {"idle", "waiting", "taken", "create", "append",
                               "flush"}]

CommandTypes ==
    /\ cmd \in [Commands -> Command]
    /\ tail \in [phase : {"off", "ask", "read"}, at : Inodes \cup {NoFile},
                 pos : Nat, moved : BOOLEAN]

(* The lock has one holder, which is between taking it and letting it go.  *)
Locks ==
    /\ \A t \in Threads : (holder = t) <=> thread[t] \notin {"idle", "waiting"}
    /\ \A c \in Commands : (holder = c) <=> cmd[c].phase = "create"
    /\ holder \in Threads \cup Commands \cup {NoOne}

Creating == \A c \in Commands : cmd[c].phase = "create" => log = NoFile

LEMMA TypesTogether ==
    ASSUME TypeOK, FileTypes, FilesInv, FileStep, ProcessTypes', CommandTypes', Locks'
    PROVE  TypeOK'
  BY FileStepTypes DEF TypeOK, ProcessTypes, CommandTypes, Locks

LogStays == log' = log /\ Contents(log)' = Contents(log) /\ written' = written

(* What the writer remembers is untouched by what others do to the files.  *)
LEMMA WriterUndisturbed ==
    ASSUME TypeOK, WriterInv, UNCHANGED process,
           LogStays \/ log' = NoFile \/ log' \in Free
    PROVE  WriterInv'
  <1>1. UNCHANGED <<daemon, writer, turn, thread>>
    BY DEF process
  <1>2. \A f : Continues(f)' <=> Continues(f)
    BY <1>1 DEF Continues
  <1>3. CASE LogStays
    <2>1. Identity(log)' = Identity(log) /\ log' = log
      BY <1>3 DEF LogStays, Identity
    <2>2. log # NoFile => disk'[log] = disk[log]
      BY <1>3 DEF LogStays, Contents
    <2>3. Continues(Contents(log))' <=> Continues(Contents(log))
      BY <1>1, <1>3 DEF LogStays, Continues
    <2>4. NoWriter' = NoWriter
      BY DEF NoWriter, Identity, Contents
    <2> QED
      BY <1>1, <2>1, <2>2, <2>3, <2>4 DEF WriterInv
  <1>4. NoWriter' = NoWriter
    BY DEF NoWriter, Identity, Contents
  <1>5. Identity(log)'.file = log'
    BY DEF Identity
  <1>6. CASE log' = NoFile
    <2>1. Contents(log)' = <<>>
      BY <1>6 DEF Contents
    <2>2. ASSUME Identity(log)' = writer.state
          PROVE  Continues(Contents(log))'
      <3>1. writer = NoWriter
        BY <1>5, <1>6, <2>2 DEF WriterInv
      <3>2. writer.seq = 1 /\ writer.prev = 0
        BY <3>1, NoWriterIs
      <3> QED
        BY <1>1, <2>1, <3>2 DEF Continues, ChainAfter
    <2> QED
      BY <1>1, <1>4, <1>6, <2>2 DEF WriterInv
  <1>7. CASE log' \in Free
    <2>1. log' # writer.state.file
      BY <1>7 DEF Free, InUse
    <2> QED
      BY <1>1, <1>4, <1>5, <2>1 DEF WriterInv
  <1> QED
    BY <1>3, <1>6, <1>7

(* No thread is at work while another process, or none, has the lock.      *)
LEMMA NoThreadAtWork ==
    ASSUME TypeOK, holder \notin Threads, UNCHANGED thread
    PROVE  ThreadInv'
  <1>1. \A t \in Threads : thread[t] \in {"idle", "waiting"}
    BY DEF TypeOK
  <1> QED
    BY <1>1 DEF ThreadInv

LEMMA ThreadsUndisturbed ==
    ASSUME ThreadInv, LogStays, UNCHANGED <<writer, thread>>
    PROVE  ThreadInv'
  <1>1. log' = log /\ Contents(log)' = Contents(log) /\ written' = written
    BY DEF LogStays
  <1>2. log # NoFile => disk'[log] = disk[log]
    BY <1>1 DEF Contents
  <1>3. /\ Continues(Contents(log))' <=> Continues(Contents(log))
        /\ Torn(Contents(log))' <=> Torn(Contents(log))
        /\ Continues(<<>>)' <=> Continues(<<>>)
    BY <1>1 DEF Continues, Torn
  <1> QED
    BY <1>1, <1>2, <1>3 DEF ThreadInv

ProcessInv ==
    /\ ProcessTypes /\ Locks
    /\ Creating /\ WriterInv /\ ThreadInv

LEMMA ProcessOf ==
    ASSUME IInv
    PROVE  TypeOK /\ ProcessInv /\ CommandTypes
  BY DEF IInv, TypeOK, ProcessInv, ProcessTypes, CommandTypes, Locks, Creating, PlaceInv

LEMMA CreatingUndisturbed ==
    ASSUME Locks, Creating, UNCHANGED cmd, log' = log \/ holder \notin Commands
    PROVE  Creating'
  BY DEF Locks, Creating

Phases == {"idle", "waiting", "taken", "create", "append", "flush"}

(* What a step of one thread does to the lock.                             *)
LEMMA ThreadMoves ==
    ASSUME TypeOK, NEW t \in Threads, NEW x \in Phases,
           thread' = [thread EXCEPT ![t] = x], UNCHANGED cmd,
           \/ /\ holder' = holder
              /\ x \in {"idle", "waiting"} <=> thread[t] \in {"idle", "waiting"}
           \/ holder = NoOne /\ holder' = t /\ x \notin {"idle", "waiting"}
           \/ holder \in {t, NoOne} /\ holder' = NoOne /\ x \in {"idle", "waiting"}
    PROVE  /\ thread' \in [Threads -> Phases] /\ Locks'
           /\ thread'[t] = x /\ \A u \in Threads \ {t} : thread'[u] = thread[u]
           /\ holder \in {t, NoOne} =>
                 \A u \in Threads \ {t} : thread'[u] \in {"idle", "waiting"}
  <1>1. thread \in [Threads -> Phases] /\ Locks
    BY DEF TypeOK, Phases, Locks
  <1>2. /\ thread' \in [Threads -> Phases] /\ thread'[t] = x
        /\ \A u \in Threads \ {t} : thread'[u] = thread[u]
    BY <1>1
  <1>3. /\ NoOne \notin Threads \cup Commands /\ t \notin Commands
        /\ \A c \in Commands : c \notin Threads
    BY AuditChainAssumption
  <1>4. \A u \in Threads : (holder' = u) <=> thread'[u] \notin {"idle", "waiting"}
    BY <1>1, <1>2, <1>3 DEF Locks
  <1>5. \A c \in Commands : (holder' = c) <=> cmd'[c].phase = "create"
    BY <1>1, <1>3 DEF Locks
  <1>6. holder' \in Threads \cup Commands \cup {NoOne}
    BY <1>1 DEF Locks
  <1>7. holder \in {t, NoOne} =>
            \A u \in Threads \ {t} : thread'[u] \in {"idle", "waiting"}
    BY <1>1, <1>2, <1>3 DEF Locks
  <1> QED
    BY <1>2, <1>4, <1>5, <1>6, <1>7 DEF Locks

(* The lock's holder is the thread at work, and no command is.             *)
LEMMA AtWork ==
    ASSUME IInv, NEW t \in Threads, thread[t] \notin {"idle", "waiting"}
    PROVE  holder = t /\ holder \notin Commands /\ daemon = "up"
  BY AuditChainAssumption DEF IInv, TypeOK, WriterInv

LEMMA OpenProcess ==
    ASSUME IInv, Open
    PROVE  ProcessInv'
  <1>1. TypeOK /\ ProcessInv /\ daemon = "down" /\ holder = NoOne
    BY ProcessOf DEF Open
  <1>2. UNCHANGED <<clock, holder, turn, thread, written, cmd>>
    BY DEF Open, history
  <1>3. Locks'
    BY <1>1, <1>2 DEF ProcessInv, Locks
  <1>4. holder \notin Commands /\ holder \notin Threads
    BY <1>1, AuditChainAssumption
  <1>5. Creating'
    BY <1>1, <1>2, <1>4, CreatingUndisturbed DEF ProcessInv
  <1>6. ThreadInv'
    BY <1>1, <1>2, <1>4, NoThreadAtWork
  <1>7. /\ writer = NoWriter /\ \A t \in Threads : thread[t] = "idle"
    BY <1>1 DEF ProcessInv, WriterInv
  <1>8. NoWriter' = NoWriter
    BY DEF NoWriter, Identity, Contents
  <1>9. daemon' \in {"down", "up", "refused"} /\ writer' \in Writer /\ WriterInv'
    <2>1. CASE /\ log # NoFile /\ Verified(disk[log]) /\ daemon' = "up"
               /\ writer' = WriterAfter([NoWriter EXCEPT !.state = Identity(log)],
                                        disk[log])
               /\ UNCHANGED files
      <3> DEFINE w == NoWriter
                 r == [w EXCEPT !.state = Identity(log)]
      <3>1. /\ Identity(log) \in FileIdentity /\ Contents(log) \in Seq(Piece)
            /\ Contents(log) = disk[log] /\ Identity(log).file = log
            /\ Identity(log).pieces = Len(disk[log])
            /\ Identity(log).cut = IF disk[log] = <<>> THEN "whole"
                                   ELSE Last(disk[log]).cut
        BY <1>1, <2>1, Identities DEF TypeOK, Contents
      <3>2. r \in Writer /\ r.state = Identity(log)
        <4>1. w \in Writer
          BY <1>1, NoWriterIs
        <4> HIDE DEF w
        <4> QED
          BY <3>1, <4>1 DEF Writer
      <3>3. /\ writer' \in Writer /\ writer'.state = Identity(log)
            /\ writer'.seq = ChainAfter(disk[log]).seq
            /\ writer'.prev = ChainAfter(disk[log]).prev
        <4> HIDE DEF r
        <4>1. writer' = WriterAfter(r, disk[log]) /\ disk[log] \in Seq(Piece)
          BY <2>1, <3>1 DEF r
        <4> QED
          BY <3>2, <4>1, WriterAfterIs
      <3>4. Identity(log).cut = "whole"
        <4>1. disk[log] # <<>> => Last(disk[log]).cut = "whole"
          <5>1. disk[log] # <<>> => Len(disk[log]) \in DOMAIN disk[log]
            BY <3>1
          <5> QED
            BY <2>1, <5>1 DEF Verified, Last
        <4> QED
          BY <3>1, <4>1
      <3>5. UNCHANGED <<log, disk>>
        BY <2>1 DEF files
      <3>6. Contents(log)' = disk[log]
        BY <3>1, <3>5 DEF Contents
      <3> QED
        BY <1>1, <2>1, <3>1, <3>3, <3>4, <3>5, <3>6 DEF WriterInv, Continues, TypeOK
    <2>2. CASE daemon' = "refused" /\ UNCHANGED <<writer, files>>
      <3>1. UNCHANGED <<log, disk, writer>>
        BY <2>2 DEF files
      <3>2. Contents(log)' = Contents(log) /\ Identity(log)' = Identity(log)
        BY <3>1 DEF Contents, Identity
      <3>3. writer \in Writer
        BY <1>1 DEF TypeOK
      <3> QED
        BY <1>1, <1>2, <1>7, <1>8, <2>2, <3>1, <3>2, <3>3
           DEF ProcessInv, WriterInv, Continues
    <2>3. CASE /\ log = NoFile /\ daemon' = "up"
               /\ \E i \in Free :
                     /\ log' = i
                     /\ disk' = [disk EXCEPT ![i] = <<>>]
                     /\ writer' = [NoWriter EXCEPT !.state.file = i]
      <3>1. PICK i \in Free : /\ log' = i
                              /\ disk' = [disk EXCEPT ![i] = <<>>]
                              /\ writer' = [NoWriter EXCEPT !.state.file = i]
        BY <2>3
      <3>2. i \in Inodes /\ i # NoFile
        BY AuditChainAssumption DEF Free
      <3>3. disk'[i] = <<>> /\ Contents(log)' = <<>>
        BY <1>1, <3>1, <3>2 DEF Contents, TypeOK
      <3> DEFINE w == NoWriter
                 s == w.state
                 q == [s EXCEPT !.file = i]
                 r == [w EXCEPT !.state = q]
      <3>4. /\ w \in Writer /\ s \in FileIdentity /\ w.seq = 1 /\ w.prev = 0
            /\ s.cut = "whole" /\ s.pieces = 0
        BY <1>1, NoWriterIs DEF Writer
      <3>5. writer' = r
        BY <3>1
      <3> HIDE DEF w, s
      <3>6. q \in FileIdentity /\ q.file = i /\ q.cut = "whole" /\ q.pieces = 0
        BY <3>2, <3>4 DEF FileIdentity
      <3> HIDE DEF q
      <3>7. r \in Writer /\ r.state = q /\ r.seq = 1 /\ r.prev = 0
        BY <3>4, <3>6 DEF Writer
      <3> HIDE DEF r
      <3>8. Continues(Contents(log))'
        BY <3>3, <3>5, <3>7 DEF Continues, ChainAfter
      <3>9. Len(disk'[log']) = 0
        BY <3>1, <3>3
      <3>10. /\ writer'.state.file = i /\ writer'.state.cut = "whole"
             /\ writer'.state.pieces <= Len(disk'[log'])
        BY <3>5, <3>6, <3>7, <3>9
      <3>11. WriterInv'
        BY <2>3, <3>2, <3>8, <3>10 DEF WriterInv
      <3> QED
        BY <2>3, <3>5, <3>7, <3>11
    <2> QED
      BY <2>1, <2>2, <2>3 DEF Open
  <1>10. ProcessTypes'
    BY <1>1, <1>2, <1>9 DEF ProcessTypes, TypeOK
  <1> QED
    BY <1>3, <1>5, <1>6, <1>9, <1>10 DEF ProcessInv

LEMMA KilledProcess ==
    ASSUME IInv, Killed
    PROVE  ProcessInv'
  <1>1. TypeOK /\ ProcessInv
    BY ProcessOf
  <1>2. /\ daemon' = "down" /\ writer' = NoWriter /\ turn' = NoOne
        /\ thread' = [t \in Threads |-> "idle"]
        /\ holder' = IF holder \in Threads THEN NoOne ELSE holder
        /\ UNCHANGED <<disk, log, clock, written, cmd>>
    BY DEF Killed, files, history
  <1>3. \A t \in Threads : thread'[t] = "idle"
    BY <1>2
  <1>4. ProcessTypes'
    BY <1>1, <1>2, NoWriterIs DEF ProcessTypes, TypeOK
  <1>5. Locks'
    <2>1. /\ NoOne \notin Threads \cup Commands
          /\ \A c \in Commands : c \notin Threads
      BY AuditChainAssumption
    <2>2. holder' \notin Threads /\ holder' \in Commands \cup {NoOne}
      BY <1>1, <1>2, <2>1 DEF ProcessInv, Locks
    <2>3. \A c \in Commands : holder' = c <=> holder = c
      BY <1>2, <2>1
    <2> QED
      BY <1>1, <1>2, <1>3, <2>2, <2>3 DEF ProcessInv, Locks
  <1>6. Creating'
    BY <1>1, <1>2, CreatingUndisturbed DEF ProcessInv
  <1>7. ThreadInv'
    BY <1>3 DEF ThreadInv
  <1>8. NoWriter' = NoWriter
    BY DEF NoWriter, Identity, Contents
  <1>9. WriterInv'
    <2>1. /\ writer'.seq = 1 /\ writer'.prev = 0 /\ writer'.state.file = NoFile
          /\ writer'.state.cut = "whole"
      BY <1>1, <1>2, NoWriterIs
    <2>2. Identity(log)'.file = log'
      BY DEF Identity
    <2>3. log' = NoFile => Contents(log)' = <<>>
      BY DEF Contents
    <2> QED
      BY <1>2, <1>3, <1>8, <2>1, <2>2, <2>3 DEF WriterInv, Continues, ChainAfter
  <1> QED
    BY <1>4, <1>5, <1>6, <1>7, <1>9 DEF ProcessInv

(* A thread waits, or gives its turn or its write up.                      *)
LEMMA WaitProcess ==
    ASSUME IInv, NEW t \in Threads,
           Begin(t) \/ CancelWrite(t) \/ Unrecoverable(t) \/ Fail(t)
    PROVE  ProcessInv'
  <1>1. TypeOK /\ ProcessInv
    BY ProcessOf
  <1>2. /\ UNCHANGED <<disk, log, clock, daemon, writer, written, cmd>>
        /\ turn' \in Threads \cup {NoOne}
    BY <1>1 DEF Begin, CancelWrite, Unrecoverable, Fail, GiveUp, files, history, TypeOK
  <1>3. Contents(log)' = Contents(log) /\ Identity(log)' = Identity(log)
    BY <1>2 DEF Contents, Identity
  <1>4. /\ Continues(Contents(log))' <=> Continues(Contents(log))
        /\ Continues(<<>>)' <=> Continues(<<>>)
        /\ NoWriter' = NoWriter
    BY <1>2, <1>3 DEF Continues, NoWriter, Identity, Contents
  <1>5. Creating'
    BY <1>1, <1>2, CreatingUndisturbed DEF ProcessInv
  <1>6. /\ thread' \in [Threads -> Phases] /\ Locks'
        /\ \A u \in Threads : thread'[u] = thread[u] \/ thread'[u] \in {"idle", "waiting"}
        /\ daemon # "up" => \A u \in Threads : thread'[u] = "idle"
    <2>1. CASE Begin(t)
      <3>1. /\ thread' = [thread EXCEPT ![t] = "waiting"] /\ thread[t] = "idle"
            /\ holder' = holder /\ UNCHANGED cmd /\ daemon = "up"
        BY <2>1 DEF Begin
      <3>2. "waiting" \in Phases
        BY DEF Phases
      <3>3. /\ thread' \in [Threads -> Phases] /\ Locks' /\ thread'[t] = "waiting"
            /\ \A u \in Threads \ {t} : thread'[u] = thread[u]
        BY <1>1, <3>1, <3>2, ThreadMoves
      <3> QED
        BY <3>1, <3>3
    <2>2. CASE CancelWrite(t)
      <3>1. UNCHANGED <<thread, holder, cmd>>
        BY <2>2 DEF CancelWrite
      <3> QED
        BY <1>1, <3>1 DEF ProcessInv, Locks, TypeOK, Phases, WriterInv
    <2>3. CASE Unrecoverable(t) \/ Fail(t)
      <3>1. /\ thread' = [thread EXCEPT ![t] = "idle"] /\ holder' = NoOne
            /\ UNCHANGED cmd /\ thread[t] # "idle"
            /\ (holder = NoOne \/ thread[t] \notin {"idle", "waiting"})
        BY <2>3 DEF Unrecoverable, Fail, GiveUp
      <3>2. holder \in {t, NoOne} /\ daemon = "up"
        BY <1>1, <3>1, AtWork DEF ProcessInv, WriterInv
      <3>3. "idle" \in Phases
        BY DEF Phases
      <3>4. /\ thread' \in [Threads -> Phases] /\ Locks' /\ thread'[t] = "idle"
            /\ \A u \in Threads \ {t} : thread'[u] = thread[u]
        BY <1>1, <3>1, <3>2, <3>3, ThreadMoves
      <3> QED
        BY <3>2, <3>4
    <2> QED
      BY <2>1, <2>2, <2>3
  <1>7. WriterInv'
    BY <1>1, <1>2, <1>3, <1>4, <1>6 DEF ProcessInv, WriterInv
  <1>8. ThreadInv'
    <2>1. Torn(Contents(log))' <=> Torn(Contents(log))
      BY <1>3 DEF Torn
    <2>2. \A u \in Threads : thread'[u] \notin {"idle", "waiting"} => thread'[u] = thread[u]
      BY <1>6
    <2> QED
      BY <1>1, <1>2, <1>4, <2>1, <2>2 DEF ProcessInv, ThreadInv
  <1>9. ProcessTypes'
    BY <1>1, <1>2, <1>6 DEF ProcessTypes, TypeOK, Phases
  <1> QED
    BY <1>5, <1>6, <1>7, <1>8, <1>9 DEF ProcessInv

(* What a step under the lock leaves to show.                              *)
LEMMA StepUnderLock ==
    ASSUME IInv, NEW t \in Threads, NEW x \in Phases,
           thread' = [thread EXCEPT ![t] = x],
           \/ /\ thread[t] \notin {"idle", "waiting"}
              /\ x \notin {"idle", "waiting"} /\ holder' = holder
           \/ thread[t] \notin {"idle", "waiting"} /\ x = "idle" /\ holder' = NoOne
           \/ /\ thread[t] = "waiting" /\ holder = NoOne
              /\ x \notin {"idle", "waiting"} /\ holder' = t,
           UNCHANGED <<clock, daemon, cmd>>, turn' \in Threads \cup {NoOne},
           writer' \in Writer, WriterInv',
           /\ x \in {"taken", "append"} =>
                 Continues(Contents(log))' /\ ~Torn(Contents(log))'
           /\ x = "create" => log' = NoFile /\ Continues(<<>>)'
           /\ x = "flush" =>
                 /\ log' # NoFile /\ disk'[log'] # <<>>
                 /\ Last(disk'[log']).mac = written'
                 /\ Last(disk'[log']).seq = writer'.seq
                 /\ log' = writer'.state.file => writer'.state.pieces < Len(disk'[log'])
    PROVE  ProcessInv'
  <1>1. TypeOK /\ ProcessInv
    BY ProcessOf
  <1>2. holder \in {t, NoOne} /\ holder \notin Commands
    BY AtWork, AuditChainAssumption
  <1>3. /\ thread' \in [Threads -> Phases] /\ Locks' /\ thread'[t] = x
        /\ \A u \in Threads \ {t} : thread'[u] \in {"idle", "waiting"}
    BY <1>1, <1>2, ThreadMoves
  <1>4. Creating'
    BY <1>1, <1>2, CreatingUndisturbed DEF ProcessInv
  <1>5. ThreadInv'
    <2>1. SUFFICES ASSUME NEW u \in Threads
                   PROVE  (/\ thread[u] \in {"taken", "append"} =>
                                 Continues(Contents(log)) /\ ~Torn(Contents(log))
                           /\ thread[u] = "create" => log = NoFile /\ Continues(<<>>)
                           /\ thread[u] = "flush" =>
                                 /\ log # NoFile /\ disk[log] # <<>>
                                 /\ Last(disk[log]).mac = written
                                 /\ Last(disk[log]).seq = writer.seq
                                 /\ log = writer.state.file =>
                                        writer.state.pieces < Len(disk[log]))'
      BY DEF ThreadInv
    <2>2. CASE u = t
      BY <1>3, <2>2 DEF Last
    <2>3. CASE u # t
      <3>1. thread'[u] \in {"idle", "waiting"}
        BY <1>3, <2>3
      <3> QED
        BY <3>1
    <2> QED
      BY <2>2, <2>3
  <1>6. ProcessTypes'
    BY <1>1, <1>3 DEF ProcessTypes, TypeOK, Phases
  <1> QED
    BY <1>3, <1>4, <1>5, <1>6 DEF ProcessInv

LEMMA TakeProcess ==
    ASSUME IInv, NEW t \in Threads, Take(t)
    PROVE  ProcessInv'
  <1>1. TypeOK /\ ProcessInv
    BY ProcessOf
  <1>2. /\ thread[t] = "waiting" /\ holder = NoOne /\ holder' = t
        /\ thread' = [thread EXCEPT ![t] = "taken"]
        /\ writer' = Chained
        /\ UNCHANGED <<disk, log, clock, daemon, turn, cmd>>
        /\ Identity(log) = writer.state \/ TailReadable(Contents(log))
    BY DEF Take, files
  <1>3. Contents(log)' = Contents(log) /\ Identity(log)' = Identity(log)
    BY <1>2 DEF Contents, Identity
  <1>4. /\ Chained \in Writer /\ Chained.state = writer.state
        /\ Chained.seq = ChainAfter(Contents(log)).seq
        /\ Chained.prev = ChainAfter(Contents(log)).prev
    BY <1>1, ChainedIs DEF ProcessInv
  <1>5. Continues(Contents(log))'
    BY <1>2, <1>3, <1>4 DEF Continues
  <1>6. ~Torn(Contents(log))
    <2>1. Identity(log) = writer.state => Identity(log).cut = "whole"
      BY <1>1 DEF ProcessInv, WriterInv
    <2>2. Identity(log).cut = IF Contents(log) = <<>> THEN "whole"
                              ELSE Last(Contents(log)).cut
      BY DEF Identity
    <2> QED
      BY <1>2, <2>1, <2>2 DEF Torn, TailReadable
  <1>7. daemon = "up"
    BY <1>1, <1>2 DEF ProcessInv, WriterInv
  <1>8. WriterInv'
    BY <1>1, <1>2, <1>3, <1>4, <1>5, <1>7 DEF ProcessInv, WriterInv
  <1>9. ~Torn(Contents(log))' /\ "taken" \in Phases /\ turn' \in Threads \cup {NoOne}
    BY <1>1, <1>2, <1>3, <1>6 DEF Torn, Phases, TypeOK
  <1> QED
    BY <1>2, <1>4, <1>5, <1>8, <1>9, StepUnderLock

LEMMA RotateProcess ==
    ASSUME IInv, NEW t \in Threads, Rotate(t)
    PROVE  ProcessInv'
  <1>1. TypeOK /\ ProcessInv
    BY ProcessOf
  <1>2. /\ thread[t] = "taken" /\ thread' = [thread EXCEPT ![t] = "create"]
        /\ writer' = Restarted /\ log' = NoFile
        /\ UNCHANGED <<disk, clock, holder, daemon, turn, cmd>>
    BY DEF Rotate, MoveAway
  <1>3. daemon = "up"
    BY <1>2, AtWork
  <1>4. /\ Restarted \in Writer /\ Restarted.seq = 1 /\ Restarted.prev = 0
        /\ Restarted.state = writer.state
    BY <1>1, RestartedIs
  <1>5. Continues(<<>>)'
    BY <1>2, <1>4 DEF Continues, ChainAfter
  <1>6. WriterInv'
    <2>1. Identity(log)'.file = NoFile
      BY <1>2 DEF Identity
    <2> QED
      BY <1>1, <1>2, <1>3, <1>4, <2>1 DEF ProcessInv, WriterInv
  <1>7. "create" \in Phases /\ turn' \in Threads \cup {NoOne}
    BY <1>1, <1>2 DEF Phases, TypeOK
  <1> QED
    BY <1>2, <1>4, <1>5, <1>6, <1>7, StepUnderLock

LEMMA CreateProcess ==
    ASSUME IInv, NEW t \in Threads, Create(t)
    PROVE  ProcessInv'
  <1>1. TypeOK /\ ProcessInv
    BY ProcessOf
  <1>2. /\ thread[t] = "create" /\ thread' = [thread EXCEPT ![t] = "append"]
        /\ UNCHANGED <<clock, holder, daemon, turn, cmd>>
    BY DEF Create
  <1>3. daemon = "up" /\ log = NoFile /\ Continues(<<>>)
    BY <1>1, <1>2, AtWork DEF ProcessInv, ThreadInv
  <1>4. /\ writer' \in Writer /\ WriterInv' /\ Contents(log)' = <<>>
        /\ writer'.seq = writer.seq /\ writer'.prev = writer.prev
    <2>1. CASE UNCHANGED <<log, disk, writer>>
      <3>1. Contents(log)' = <<>> /\ Identity(log)'.file = NoFile
        BY <1>3, <2>1 DEF Contents, Identity
      <3> QED
        BY <1>1, <1>2, <1>3, <2>1, <3>1 DEF ProcessInv, WriterInv, TypeOK
    <2>2. ASSUME NEW i \in Free, log' = i, disk' = [disk EXCEPT ![i] = <<>>],
                 writer' = [writer EXCEPT !.state =
                               [file |-> i, pieces |-> 0, cut |-> "whole"]]
          PROVE  /\ writer' \in Writer /\ WriterInv' /\ Contents(log)' = <<>>
                 /\ writer'.seq = writer.seq /\ writer'.prev = writer.prev
      <3>1. i \in Inodes /\ i # NoFile
        BY AuditChainAssumption DEF Free
      <3>2. disk'[i] = <<>> /\ Contents(log)' = <<>>
        BY <1>1, <2>2, <3>1 DEF Contents, TypeOK
      <3> DEFINE w == writer
                 q == [file |-> i, pieces |-> 0, cut |-> "whole"]
                 r == [w EXCEPT !.state = q]
      <3>3. /\ q \in FileIdentity /\ q.file = i /\ q.pieces = 0 /\ q.cut = "whole"
            /\ w \in Writer /\ writer' = r
        BY <1>1, <2>2, <3>1 DEF FileIdentity, TypeOK
      <3> HIDE DEF w, q
      <3>4. r \in Writer /\ r.state = q /\ r.seq = w.seq /\ r.prev = w.prev
        BY <3>3 DEF Writer
      <3> HIDE DEF r
      <3>5. writer'.seq = writer.seq /\ writer'.prev = writer.prev
        BY <3>3, <3>4 DEF w
      <3>6. Continues(Contents(log))'
        BY <1>3, <3>2, <3>5 DEF Continues
      <3>7. /\ writer'.state.file = i /\ writer'.state.cut = "whole"
            /\ writer'.state.pieces <= Len(disk'[log'])
        BY <2>2, <3>2, <3>3, <3>4
      <3>8. WriterInv'
        BY <1>2, <1>3, <3>1, <3>6, <3>7 DEF WriterInv
      <3> QED
        BY <3>2, <3>3, <3>4, <3>5, <3>8
    <2> QED
      BY <2>1, <2>2 DEF Create
  <1>5. Continues(Contents(log))' /\ ~Torn(Contents(log))'
    BY <1>3, <1>4 DEF Continues, Torn
  <1>6. "append" \in Phases /\ turn' \in Threads \cup {NoOne}
    BY <1>1, <1>2 DEF Phases, TypeOK
  <1> QED
    BY <1>2, <1>4, <1>5, <1>6, StepUnderLock

LEMMA Append1Process ==
    ASSUME IInv, NEW t \in Threads, NEW cut \in {"whole", "open", "torn"},
           Append1(t, cut)
    PROVE  ProcessInv'
  <1>1. TypeOK /\ ProcessInv /\ FileTypes /\ FilesInv
    BY ProcessOf, FilesOf
  <1>2. /\ thread[t] \in {"taken", "append"}
        /\ thread' = [thread EXCEPT ![t] = "flush"]
        /\ UNCHANGED <<clock, holder, daemon, writer, turn, cmd>>
        /\ written' = written + 1
    BY DEF Append1
  <1>3. daemon = "up" /\ Continues(Contents(log)) /\ ~Torn(Contents(log))
    BY <1>1, <1>2, AtWork DEF ProcessInv, ThreadInv
  <1>4. Appends(cut)
    BY <1>3 DEF Append1, Appends
  <1> DEFINE f == Contents(log)
             g == Append(f, NextPiece(cut))
  <1>5. /\ log' # NoFile /\ (log' = log \/ (log = NoFile /\ log' \in Free))
        /\ disk'[log'] = g
    BY <1>1, <1>4, AppendsKeeps
  <1>6. f \in Seq(Piece)
    BY <1>1, Identities DEF TypeOK
  <1>7. /\ Len(g) = Len(f) + 1 /\ Len(f) \in Nat /\ g # <<>>
        /\ Last(g).mac = written + 1 /\ Last(g).seq = writer.seq
    <2>1. Len(g) = Len(f) + 1 /\ Len(f) \in Nat /\ g[Len(f) + 1] = NextPiece(cut)
      BY <1>6
    <2>2. g # <<>>
      <3> HIDE DEF g, f
      <3> QED
        BY <2>1
    <2>3. Last(g) = NextPiece(cut)
      BY <2>1 DEF Last
    <2> QED
      BY <2>1, <2>2, <2>3 DEF NextPiece
  <1> HIDE DEF g, f
  <1>8. log' = writer.state.file => writer.state.pieces < Len(g)
    <2>1. SUFFICES ASSUME log' = writer.state.file
                   PROVE  writer.state.pieces < Len(g)
      OBVIOUS
    <2>2. log = writer.state.file /\ log # NoFile
      BY <1>5, <2>1 DEF Free, InUse
    <2>3. f = disk[log]
      BY <2>2 DEF f, Contents
    <2>4. writer.state.pieces <= Len(f) /\ writer.state.pieces \in Nat
      BY <1>1, <2>2, <2>3 DEF ProcessInv, WriterInv, TypeOK, Writer, FileIdentity
    <2> QED
      BY <1>7, <2>4
  <1>9. WriterInv'
    <2>1. Identity(log)'.file = log' /\ Identity(log)'.pieces = Len(g)
      BY <1>5 DEF Identity, Contents
    <2>2. writer.state.pieces \in Nat
      BY <1>1 DEF TypeOK, Writer, FileIdentity
    <2>3. Identity(log)' # writer.state
      BY <1>7, <1>8, <2>1, <2>2
    <2>4. log' = writer.state.file => writer.state.pieces <= Len(g)
      BY <1>7, <1>8, <2>2
    <2> QED
      BY <1>1, <1>2, <1>3, <1>5, <2>3, <2>4 DEF ProcessInv, WriterInv
  <1>10. "flush" \in Phases /\ turn' \in Threads \cup {NoOne} /\ writer' \in Writer
    BY <1>1, <1>2 DEF Phases, TypeOK
  <1> QED
    BY <1>2, <1>5, <1>7, <1>8, <1>9, <1>10, StepUnderLock

LEMMA Append2Process ==
    ASSUME IInv, NEW t \in Threads, NEW cut \in {"whole", "open", "torn"},
           Append2(t, cut)
    PROVE  ProcessInv'
  <1>1. TypeOK /\ ProcessInv /\ FileTypes /\ FilesInv
    BY ProcessOf, FilesOf
  <1>2. /\ thread[t] = "flush" /\ UNCHANGED <<clock, holder, cmd, log, written>>
        /\ UNCHANGED <<daemon, writer, turn, thread>>
    BY DEF Append2, process, history
  <1>3. /\ daemon = "up" /\ log # NoFile /\ disk[log] # <<>>
        /\ Last(disk[log]).mac = written /\ Last(disk[log]).seq = writer.seq
        /\ log = writer.state.file => writer.state.pieces < Len(disk[log])
    BY <1>1, <1>2, AtWork DEF ProcessInv, ThreadInv
  <1>4. Completes(cut)
    BY <1>3 DEF Append2, Completes
  <1> DEFINE f == disk[log]
             g == Completed(f, cut)
             n == Len(f)
  <1>5. disk'[log] = g /\ cut \in {"open", "whole"}
    BY <1>1, <1>4, CompletesKeeps
  <1>6. f \in Seq(Piece) /\ f # <<>>
    BY <1>1, <1>3 DEF TypeOK
  <1>7. /\ Len(g) = n /\ n \in Nat \ {0} /\ Record(g[n]) = Record(f[n])
    <2>1. n = Len(f) /\ g = Completed(f, cut)
      OBVIOUS
    <2> HIDE DEF f, g, n
    <2>2. /\ Len(g) = n /\ n \in Nat \ {0}
          /\ \A k \in 1..n : Record(g[k]) = Record(f[k])
      BY <1>5, <1>6, <2>1, CompletedPiece
    <2> QED
      BY <2>2
  <1> HIDE DEF g
  <1>8. Last(g).mac = written /\ Last(g).seq = writer.seq /\ g # <<>>
    <2>1. /\ Record(g[n]).mac = g[n].mac /\ Record(f[n]).mac = f[n].mac
          /\ Record(g[n]).seq = g[n].seq /\ Record(f[n]).seq = f[n].seq
      BY DEF Record
    <2>2. g[n].mac = f[n].mac /\ g[n].seq = f[n].seq
      BY <1>7, <2>1
    <2>3. f[n].mac = written /\ f[n].seq = writer.seq
      BY <1>3 DEF Last
    <2>4. g # <<>>
      <3> HIDE DEF n
      <3> QED
        BY <1>7
    <2> QED
      BY <1>7, <2>2, <2>3, <2>4 DEF Last
  <1>9. log = writer.state.file => writer.state.pieces < Len(g)
    BY <1>3, <1>7
  <1> HIDE DEF f, n
  <1>10. WriterInv'
    <2>1. Identity(log)'.file = log /\ Identity(log)'.pieces = Len(g)
      BY <1>2, <1>3, <1>5 DEF Identity, Contents
    <2>2. writer.state.pieces \in Nat
      BY <1>1 DEF TypeOK, Writer, FileIdentity
    <2>3. Identity(log)' # writer.state
      BY <1>7, <1>9, <2>1, <2>2
    <2>4. log = writer.state.file => writer.state.pieces <= Len(g)
      BY <1>7, <1>9, <2>2
    <2> QED
      BY <1>1, <1>2, <1>3, <1>5, <2>3, <2>4 DEF ProcessInv, WriterInv
  <1>11. /\ "flush" \in Phases /\ turn' \in Threads \cup {NoOne} /\ writer' \in Writer
         /\ thread' = [thread EXCEPT ![t] = "flush"]
    BY <1>1, <1>2 DEF Phases, TypeOK
  <1> QED
    BY <1>2, <1>3, <1>5, <1>8, <1>9, <1>10, <1>11, StepUnderLock

LEMMA ReturnProcess ==
    ASSUME IInv, NEW t \in Threads, Return(t)
    PROVE  ProcessInv'
  <1>1. TypeOK /\ ProcessInv
    BY ProcessOf
  <1>2. /\ thread[t] = "flush" /\ Last(disk[log]).cut = "whole"
        /\ thread' = [thread EXCEPT ![t] = "idle"] /\ holder' = NoOne
        /\ turn' = IF turn = t THEN NoOne ELSE turn
        /\ UNCHANGED <<disk, log, clock, daemon, cmd>>
    BY DEF Return, GiveUp, files
  <1>3. /\ daemon = "up" /\ log # NoFile /\ disk[log] # <<>>
        /\ Last(disk[log]).seq = writer.seq
    BY <1>1, <1>2, AtWork DEF ProcessInv, ThreadInv
  <1>4. Contents(log) = disk[log] /\ disk[log] \in Seq(Piece) /\ log \in Inodes
    BY <1>1, <1>3 DEF Contents, TypeOK
  <1>5. Last(disk[log]) \in Piece
    BY <1>3, <1>4 DEF Last
  <1>6. Last(disk[log]).mac \in Macs
    BY <1>5 DEF Piece
  <1>7. /\ Identity(log) \in FileIdentity /\ Identity(log).file = log
        /\ Identity(log).cut = "whole" /\ Identity(log).pieces = Len(disk[log])
    <2>1. log \in Inodes \cup {NoFile}
      BY <1>4
    <2> QED
      BY <1>1, <1>2, <1>3, <1>4, <2>1, Identities
  <1> DEFINE w == writer
             a == w.seq + 1
             m == Last(disk[log]).mac
             s == Identity(log)
             r == [w EXCEPT !.seq = a, !.prev = m, !.state = s]
  <1>8. writer' = r /\ w \in Writer
    BY <1>1 DEF Return, TypeOK
  <1>9. w.seq \in Nat \ {0}
    BY <1>8 DEF Writer
  <1> HIDE DEF w
  <1>10. a \in Nat \ {0} /\ m \in Macs \cup {0} /\ s \in FileIdentity
    BY <1>6, <1>7, <1>9
  <1> HIDE DEF a, m, s
  <1>11. r \in Writer /\ r.seq = a /\ r.prev = m /\ r.state = s
    BY <1>8, <1>10 DEF Writer
  <1> HIDE DEF r
  <1>12. Contents(log)' = disk[log] /\ Identity(log)' = s
    BY <1>2, <1>4 DEF Contents, Identity, s
  <1>13. Continues(Contents(log))'
    <2>1. ChainAfter(disk[log]).seq = Last(disk[log]).seq + 1
      BY <1>3 DEF ChainAfter
    <2>2. ChainAfter(disk[log]).prev = Last(disk[log]).mac
      BY <1>3 DEF ChainAfter
    <2> QED
      BY <1>3, <1>8, <1>11, <1>12, <2>1, <2>2 DEF Continues, a, m, w
  <1>14. WriterInv'
    <2>1. writer'.state = s
      BY <1>8, <1>11
    <2>2. s.file = log /\ s.cut = "whole" /\ s.pieces = Len(disk[log])
      BY <1>7 DEF s
    <2>3. Len(disk[log]) <= Len(disk[log])
      BY <1>4
    <2> QED
      BY <1>2, <1>3, <1>13, <2>1, <2>2, <2>3 DEF WriterInv
  <1>15. "idle" \in Phases /\ turn' \in Threads \cup {NoOne} /\ writer' \in Writer
    BY <1>1, <1>2, <1>8, <1>11 DEF Phases, TypeOK
  <1> QED
    BY <1>2, <1>14, <1>15, StepUnderLock

-----------------------------------------------------------------------------
(* The commands                                                            *)

OthersStay(c) ==
    /\ cmd' \in [Commands -> Command]
    /\ \A d \in Commands \ {c} : cmd'[d] = cmd[d]

LEMMA CommandBecomes ==
    ASSUME TypeOK, NEW c \in Commands, NEW r \in Command, cmd' = [cmd EXCEPT ![c] = r]
    PROVE  OthersStay(c) /\ cmd'[c] = r
  BY DEF TypeOK, OthersStay

LEMMA RotateOpensIs ==
    ASSUME TypeOK, NEW c \in Commands, RotateOpens(c)
    PROVE  /\ OthersStay(c) /\ cmd'[c].phase = "force" /\ cmd'[c].kind = "rotate"
           /\ cmd[c].kind = "none"
  <1> DEFINE k == cmd[c]
             r == [k EXCEPT !.kind = "rotate", !.phase = "force"]
  <1>1. k \in Command /\ cmd' = [cmd EXCEPT ![c] = r]
    BY DEF RotateOpens, TypeOK
  <1> HIDE DEF k
  <1>2. r \in Command /\ r.phase = "force" /\ r.kind = "rotate"
    BY <1>1 DEF Command
  <1> HIDE DEF r
  <1> QED
    BY <1>1, <1>2, CommandBecomes DEF RotateOpens, Run

LEMMA ForceRotateIs ==
    ASSUME TypeOK, NEW c \in Commands, ForceRotate(c)
    PROVE  /\ OthersStay(c) /\ cmd'[c].kind = cmd[c].kind
           /\ \/ /\ cmd'[c].phase = "create" /\ holder' = c
                 /\ Contents(log) # <<>> /\ CanMove /\ MoveAway
              \/ /\ cmd'[c].phase = "idle"
                 /\ UNCHANGED <<log, rotated, holder>>
  <1>1. CASE /\ Contents(log) # <<>> /\ CanMove /\ MoveAway /\ holder' = c
             /\ cmd' = [cmd EXCEPT ![c].phase = "create"]
    <2> DEFINE k == cmd[c]
               r == [k EXCEPT !.phase = "create"]
    <2>1. k \in Command /\ cmd' = [cmd EXCEPT ![c] = r]
      BY <1>1 DEF TypeOK
    <2> HIDE DEF k
    <2>2. r \in Command /\ r.phase = "create" /\ r.kind = k.kind
      BY <2>1 DEF Command
    <2> HIDE DEF r
    <2> QED
      BY <1>1, <2>1, <2>2, CommandBecomes DEF k
  <1>2. CASE End(c) /\ UNCHANGED <<log, rotated, holder>>
    BY <1>2, EndIs DEF OthersStay
  <1> QED
    BY <1>1, <1>2 DEF ForceRotate

LEMMA ListFilesIs ==
    ASSUME TypeOK, NEW c \in Commands, ListFiles(c)
    PROVE  /\ OthersStay(c) /\ cmd[c].kind = "none"
           /\ cmd'[c].phase = "read" /\ cmd'[c].kind \in {"verify-all", "export"}
           /\ cmd'[c].todo = Listing /\ cmd'[c].seen = MacsIn(Contents(log))
           /\ cmd'[c].owed =
                 acked \ (pruned \cup UNION {MacsIn(disk[i]) : i \in aside})
  <1> DEFINE o == acked \ (pruned \cup UNION {MacsIn(disk[i]) : i \in aside})
             s == MacsIn(Contents(log))
             td == Listing
             r(kind) == [kind |-> kind, phase |-> "read", todo |-> td,
                         owed |-> o, seen |-> s]
  <1>1. PICK kind \in {"verify-all", "export"} :
             cmd' = [cmd EXCEPT ![c] = r(kind)] /\ cmd[c].kind = "none"
    BY DEF ListFiles, Run
  <1>2. o \in SUBSET Macs /\ s \in SUBSET Macs /\ td \in [Names -> FileIdentity]
    <2>1. Contents(log) \in Seq(Piece)
      BY Identities DEF TypeOK
    <2>2. s \in SUBSET Macs
      BY <2>1, MacsTyped
    <2>3. o \in SUBSET Macs
      BY DEF TypeOK
    <2> QED
      BY <2>2, <2>3, ListingIs
  <1> HIDE DEF o, s, td
  <1>3. /\ r(kind) \in Command /\ r(kind).phase = "read" /\ r(kind).kind = kind
        /\ r(kind).todo = td /\ r(kind).owed = o /\ r(kind).seen = s
    BY <1>2 DEF Command
  <1> HIDE DEF r
  <1>4. OthersStay(c) /\ cmd'[c] = r(kind)
    BY <1>1, <1>3, CommandBecomes
  <1> QED
    BY <1>1, <1>3, <1>4 DEF o, s, td

(* One file less to read, and its records are seen; or export has failed.  *)
LEMMA ReadRotatedIs ==
    ASSUME TypeOK, NEW c \in Commands, NEW n \in Names, ReadRotated(c, n)
    PROVE  /\ OthersStay(c) /\ cmd[c].phase = "read" /\ n \in Listed(c)
           /\ cmd'[c].kind = cmd[c].kind
           /\ \/ /\ cmd'[c].phase = "read"
                 /\ cmd'[c].owed = cmd[c].owed
                 /\ cmd'[c].seen = cmd[c].seen \cup MacsIn(Contents(rotated[n]))
                 /\ \A m \in Names : m # n => cmd'[c].todo[m] = cmd[c].todo[m]
                 /\ cmd[c].kind = "export" => rotated[n] # NoFile
              \/ cmd'[c].phase = "idle"
  <1>1. CASE /\ cmd[c].kind = "export" => Identity(rotated[n]) = cmd[c].todo[n]
             /\ cmd' = [cmd EXCEPT ![c].todo[n] = Identity(NoFile),
                                   ![c].seen = @ \cup MacsIn(Contents(rotated[n]))]
    <2> DEFINE k == cmd[c]
               e == Identity(NoFile)
               td == [k.todo EXCEPT ![n] = e]
               s == k.seen \cup MacsIn(Contents(rotated[n]))
               r == [k EXCEPT !.todo = td, !.seen = s]
    <2>1. k \in Command /\ cmd' = [cmd EXCEPT ![c] = r]
      BY <1>1 DEF TypeOK
    <2>2. /\ e \in FileIdentity /\ MacsIn(Contents(rotated[n])) \subseteq Macs
          /\ Identity(rotated[n]).file = rotated[n]
      <3>1. rotated[n] \in Inodes \cup {NoFile}
        BY DEF TypeOK
      <3> QED
        BY <3>1, Identities, MacsTyped
    <2> HIDE DEF k, e
    <2>3. /\ td \in [Names -> FileIdentity] /\ s \in SUBSET Macs
          /\ \A m \in Names : m # n => td[m] = k.todo[m]
      BY <2>1, <2>2 DEF Command
    <2>4. s = k.seen \cup MacsIn(Contents(rotated[n]))
      OBVIOUS
    <2> HIDE DEF td, s
    <2>5. /\ r \in Command /\ r.phase = k.phase /\ r.kind = k.kind
          /\ r.owed = k.owed /\ r.todo = td /\ r.seen = s
      BY <2>1, <2>3 DEF Command
    <2> HIDE DEF r
    <2>6. OthersStay(c) /\ cmd'[c] = r
      BY <2>1, <2>5, CommandBecomes
    <2>7. cmd[c].phase = "read" /\ n \in Listed(c)
      BY DEF ReadRotated
    <2>8. cmd[c].kind = "export" => rotated[n] # NoFile
      BY <1>1, <2>2, <2>7 DEF Listed
    <2> QED
      BY <2>3, <2>4, <2>5, <2>6, <2>7, <2>8 DEF k
  <1>2. CASE End(c)
    BY <1>2, EndIs DEF OthersStay, ReadRotated
  <1> QED
    BY <1>1, <1>2 DEF ReadRotated

LEMMA PruneReadsIs ==
    ASSUME TypeOK, NEW c \in Commands, PruneReads(c)
    PROVE  /\ OthersStay(c) /\ cmd[c].kind = "none" /\ cmd'[c].phase = "delete"
           /\ cmd'[c].kind = "prune"
           /\ \A n \in Names : cmd'[c].todo[n].file # NoFile => n[1] < clock
  <1>1. PICK old \in SUBSET {n \in Rotated : n[1] < clock} :
          cmd' = [cmd EXCEPT ![c].kind = "prune", ![c].phase = "delete",
                             ![c].todo = [n \in Names |-> IF n \in old
                               THEN Listing[n] ELSE Identity(NoFile)]]
    BY DEF PruneReads
  <1> DEFINE k == cmd[c]
             e == Identity(NoFile)
             td == [n \in Names |-> IF n \in old THEN Listing[n] ELSE e]
             r == [k EXCEPT !.kind = "prune", !.phase = "delete", !.todo = td]
  <1>2. k \in Command /\ cmd' = [cmd EXCEPT ![c] = r]
    BY <1>1 DEF TypeOK
  <1>3. e \in FileIdentity /\ e.file = NoFile /\ Listing \in [Names -> FileIdentity]
    BY Identities, ListingIs
  <1> HIDE DEF k, e
  <1>4. /\ td \in [Names -> FileIdentity]
        /\ \A n \in Names : td[n].file # NoFile => n[1] < clock
    BY <1>1, <1>3
  <1> HIDE DEF td
  <1>5. r \in Command /\ r.phase = "delete" /\ r.todo = td /\ r.kind = "prune"
    BY <1>2, <1>4 DEF Command
  <1> HIDE DEF r
  <1>6. OthersStay(c) /\ cmd'[c] = r
    BY <1>2, <1>5, CommandBecomes
  <1> QED
    BY <1>4, <1>5, <1>6 DEF PruneReads, Run

(* What a step of one command does to the lock.                            *)
LEMMA CommandMoves ==
    ASSUME TypeOK, NEW c \in Commands, UNCHANGED thread, OthersStay(c),
           \/ /\ holder' = holder
              /\ cmd'[c].phase = "create" <=> cmd[c].phase = "create"
           \/ holder = NoOne /\ holder' = c /\ cmd'[c].phase = "create"
           \/ holder = c /\ holder' = NoOne /\ cmd'[c].phase # "create"
    PROVE  Locks'
  <1>1. Locks /\ NoOne \notin Threads \cup Commands /\ c \notin Threads
    BY AuditChainAssumption DEF TypeOK, Locks
  <1>2. \A t \in Threads : (holder' = t) <=> thread'[t] \notin {"idle", "waiting"}
    BY <1>1 DEF Locks
  <1>3. \A d \in Commands : (holder' = d) <=> cmd'[d].phase = "create"
    BY <1>1 DEF Locks, OthersStay
  <1> QED
    BY <1>1, <1>2, <1>3 DEF Locks

(* A step that leaves the writer, the threads and the log alone.           *)
LEMMA ProcessUndisturbed ==
    ASSUME IInv, UNCHANGED process, clock' \in Stamps, LogStays, Locks',
           \A c \in Commands : cmd'[c].phase = "create" => cmd[c].phase = "create"
    PROVE  ProcessInv'
  <1>1. TypeOK /\ ProcessInv /\ UNCHANGED <<daemon, writer, turn, thread>>
    BY ProcessOf DEF process
  <1>2. ProcessTypes'
    BY <1>1 DEF ProcessTypes, TypeOK
  <1>3. Creating'
    BY <1>1 DEF ProcessInv, Creating, LogStays
  <1>4. WriterInv' /\ ThreadInv'
    BY <1>1, WriterUndisturbed, ThreadsUndisturbed DEF ProcessInv
  <1> QED
    BY <1>2, <1>3, <1>4 DEF ProcessInv

LEMMA NamesStayStill ==
    ASSUME UNCHANGED <<disk, log, written>>
    PROVE  LogStays
  BY DEF LogStays, Contents

LEMMA MoveAsideProcess ==
    ASSUME IInv, MoveAside
    PROVE  ProcessInv' /\ CommandTypes'
  <1>1. TypeOK /\ ProcessInv /\ CommandTypes
    BY ProcessOf
  <1>2. /\ log' = NoFile /\ holder = NoOne
        /\ UNCHANGED <<clock, holder, process, cmd, tail>>
    BY DEF MoveAside
  <1>3. UNCHANGED <<daemon, writer, turn, thread>>
    BY <1>2 DEF process
  <1>4. WriterInv'
    BY <1>1, <1>2, WriterUndisturbed DEF ProcessInv
  <1>5. holder \notin Threads
    BY <1>2, AuditChainAssumption
  <1>6. ThreadInv'
    BY <1>1, <1>3, <1>5, NoThreadAtWork
  <1> QED
    BY <1>1, <1>2, <1>3, <1>4, <1>6
       DEF ProcessInv, ProcessTypes, CommandTypes, Locks, Creating

LEMMA TickProcess ==
    ASSUME IInv, Tick
    PROVE  ProcessInv' /\ CommandTypes'
  <1>1. TypeOK /\ ProcessInv /\ CommandTypes
    BY ProcessOf
  <1>2. clock' \in Stamps
    BY <1>1, NumbersAreInt DEF Tick, TypeOK, Stamps
  <1>3. UNCHANGED <<disk, log, written, thread, holder, cmd, tail, process>>
    BY DEF Tick, files, history, process
  <1>4. Locks' /\ CommandTypes'
    BY <1>1, <1>3 DEF ProcessInv, Locks, CommandTypes
  <1> QED
    BY <1>2, <1>3, <1>4, NamesStayStill, ProcessUndisturbed

(* A command that neither takes nor has the lock, and moves no file.       *)
LEMMA ReadingProcess ==
    ASSUME IInv, NEW c \in Commands,
           \/ RotateOpens(c) \/ ListFiles(c) \/ Reported(c)
           \/ \E n \in Names : ReadRotated(c, n)
           \/ PruneReads(c)
    PROVE  ProcessInv' /\ CommandTypes'
  <1>1. TypeOK /\ ProcessInv
    BY ProcessOf
  <1>2. UNCHANGED <<disk, log, clock, holder, written, thread, tail, process>>
    BY DEF RotateOpens, ListFiles, Reported, ReadRotated, PruneReads, files, process,
           history
  <1>3. /\ OthersStay(c) /\ cmd'[c].phase # "create"
        /\ cmd[c].kind = "none" \/ cmd[c].phase = "read"
    <2>1. CASE RotateOpens(c)
      BY <1>1, <2>1, RotateOpensIs
    <2>2. CASE ListFiles(c)
      BY <1>1, <2>2, ListFilesIs
    <2>3. CASE Reported(c)
      BY <1>1, <2>3, EndIs DEF Reported, AllRead, OthersStay
    <2>4. ASSUME NEW n \in Names, ReadRotated(c, n)
          PROVE  /\ OthersStay(c) /\ cmd'[c].phase # "create"
                 /\ cmd[c].kind = "none" \/ cmd[c].phase = "read"
      BY <1>1, <2>4, ReadRotatedIs
    <2>5. CASE PruneReads(c)
      BY <1>1, <2>5, PruneReadsIs
    <2> QED
      BY <2>1, <2>2, <2>3, <2>4, <2>5
  <1>4. cmd[c].phase # "create"
    BY <1>3 DEF IInv, ReaderInv
  <1>5. Locks'
    BY <1>1, <1>2, <1>3, <1>4, CommandMoves
  <1>6. \A d \in Commands : cmd'[d].phase = "create" => cmd[d].phase = "create"
    BY <1>3 DEF OthersStay
  <1>7. CommandTypes'
    BY <1>1, <1>2, <1>3 DEF OthersStay, CommandTypes, TypeOK
  <1>8. clock' \in Stamps /\ LogStays
    BY <1>1, <1>2, NamesStayStill DEF TypeOK
  <1> QED
    BY <1>2, <1>5, <1>6, <1>7, <1>8, ProcessUndisturbed

LEMMA ForceRotateProcess ==
    ASSUME IInv, NEW c \in Commands, ForceRotate(c)
    PROVE  ProcessInv' /\ CommandTypes'
  <1>1. TypeOK /\ ProcessInv
    BY ProcessOf
  <1>2. /\ UNCHANGED <<disk, clock, process, written, tail, thread>>
        /\ cmd[c].phase = "force" /\ holder = NoOne
    BY DEF ForceRotate, history, process
  <1>3. OthersStay(c)
    BY <1>1, ForceRotateIs
  <1>4. CommandTypes'
    BY <1>1, <1>2, <1>3 DEF OthersStay, CommandTypes, TypeOK
  <1>5. CASE /\ cmd'[c].phase = "create" /\ holder' = c /\ MoveAway
    <2>1. log' = NoFile
      BY <1>5 DEF MoveAway
    <2>2. Locks'
      BY <1>1, <1>2, <1>3, <1>5, CommandMoves
    <2>3. Creating'
      BY <2>1 DEF Creating
    <2>4. WriterInv'
      BY <1>1, <1>2, <2>1, WriterUndisturbed DEF ProcessInv
    <2>5. holder \notin Threads
      BY <1>2, AuditChainAssumption
    <2>6. ThreadInv'
      BY <1>1, <1>2, <2>5, NoThreadAtWork
    <2>7. ProcessTypes'
      BY <1>1, <1>2 DEF ProcessTypes, process, TypeOK
    <2> QED
      BY <1>4, <2>2, <2>3, <2>4, <2>6, <2>7 DEF ProcessInv
  <1>6. CASE cmd'[c].phase = "idle" /\ UNCHANGED <<log, rotated, holder>>
    <2>1. Locks'
      BY <1>1, <1>2, <1>3, <1>6, CommandMoves
    <2>2. \A d \in Commands : cmd'[d].phase = "create" => cmd[d].phase = "create"
      BY <1>3, <1>6 DEF OthersStay
    <2>3. clock' \in Stamps /\ LogStays
      BY <1>1, <1>2, <1>6, NamesStayStill DEF TypeOK
    <2> QED
      BY <1>2, <1>4, <2>1, <2>2, <2>3, ProcessUndisturbed
  <1> QED
    BY <1>1, <1>5, <1>6, ForceRotateIs

LEMMA ForceCreateProcess ==
    ASSUME IInv, NEW c \in Commands, ForceCreate(c)
    PROVE  ProcessInv' /\ CommandTypes'
  <1>1. TypeOK /\ ProcessInv
    BY ProcessOf
  <1>2. /\ UNCHANGED <<clock, process, written, tail, thread>>
        /\ cmd[c].phase = "create" /\ holder' = NoOne
        /\ (log' \in Free \/ UNCHANGED <<log, disk>>)
    BY DEF ForceCreate, history, process
  <1>3. holder = c /\ holder \notin Threads /\ NoOne \notin Commands
    BY <1>1, <1>2, AuditChainAssumption DEF ProcessInv, Locks
  <1>4. OthersStay(c) /\ cmd'[c].phase = "idle"
    BY <1>1, EndIs DEF OthersStay, ForceCreate
  <1>5. CommandTypes'
    BY <1>1, <1>2, <1>4 DEF OthersStay, CommandTypes, TypeOK
  <1>6. Locks'
    BY <1>1, <1>2, <1>3, <1>4, CommandMoves
  <1>7. Creating'
    BY <1>2, <1>3, <1>6 DEF Creating, Locks
  <1>8. LogStays \/ log' \in Free
    BY <1>2, NamesStayStill
  <1>9. WriterInv'
    BY <1>1, <1>2, <1>8, WriterUndisturbed DEF ProcessInv
  <1>10. ThreadInv'
    BY <1>1, <1>2, <1>3, NoThreadAtWork
  <1>11. ProcessTypes'
    BY <1>1, <1>2 DEF ProcessTypes, process, TypeOK
  <1> QED
    BY <1>5, <1>6, <1>7, <1>9, <1>10, <1>11 DEF ProcessInv

LEMMA PruneDeletesProcess ==
    ASSUME IInv, NEW c \in Commands, PruneDeletes(c)
    PROVE  ProcessInv' /\ CommandTypes'
  <1>1. TypeOK /\ ProcessInv /\ FileTypes /\ FilesInv
    BY ProcessOf, FilesOf
  <1>2. /\ UNCHANGED <<log, clock, holder, process, written, tail, thread>>
        /\ cmd[c].phase = "delete"
    BY DEF PruneDeletes, process
  <1>3. OthersStay(c) /\ cmd'[c].phase = "idle"
    BY <1>1, EndIs DEF OthersStay, PruneDeletes
  <1>4. CommandTypes'
    BY <1>1, <1>2, <1>3 DEF OthersStay, CommandTypes, TypeOK
  <1>5. Locks'
    BY <1>1, <1>2, <1>3, CommandMoves
  <1>6. \A d \in Commands : cmd'[d].phase = "create" => cmd[d].phase = "create"
    BY <1>3 DEF OthersStay
  <1>7. LogStays
    <2>1. \E gone : Deletes(gone)
      <3> DEFINE gone == {n \in Listed(c) : Listing[n] = cmd[c].todo[n]}
                 kept == {i \in Inodes : \A n \in gone : rotated[n] # i \/ i = tail.at}
      <3>1. gone \subseteq Rotated
        <4>1. SUFFICES ASSUME NEW n \in gone
                       PROVE  n \in Rotated
          OBVIOUS
        <4>2. n \in Names /\ cmd[c].todo[n].file # NoFile /\ Listing[n] = cmd[c].todo[n]
          BY DEF Listed
        <4> QED
          BY <1>1, <4>2, ListingIs DEF Rotated
      <3>2. /\ rotated' = [n \in Names |-> IF n \in gone THEN NoFile ELSE rotated[n]]
            /\ disk' = [i \in Inodes |-> IF i \in kept THEN disk[i] ELSE <<>>]
            /\ pruned' = pruned \cup UNION {MacsIn(disk[rotated[n]]) : n \in gone}
            /\ UNCHANGED <<log, aside, written, acked>>
        BY DEF PruneDeletes
      <3> HIDE DEF gone
      <3>3. disk' = [i \in Inodes |->
                       IF \A n \in gone : rotated[n] # i \/ i = tail.at
                       THEN disk[i] ELSE <<>>]
        BY <3>2
      <3> QED
        BY <3>1, <3>2, <3>3 DEF Deletes
    <2>2. log # NoFile => disk'[log] = disk[log]
      BY <1>1, <1>2, <2>1, DeletesKeeps
    <2> QED
      BY <1>2, <2>2 DEF LogStays, Contents
  <1>8. clock' \in Stamps
    BY <1>1, <1>2 DEF TypeOK
  <1> QED
    BY <1>2, <1>4, <1>5, <1>6, <1>7, <1>8, ProcessUndisturbed

LEMMA TailProcess ==
    ASSUME IInv, TailOpens \/ TailAsks \/ TailPrints \/ TailMoves
    PROVE  ProcessInv' /\ CommandTypes'
  <1>1. TypeOK /\ ProcessInv
    BY ProcessOf
  <1>2. UNCHANGED <<disk, log, clock, holder, process, written, cmd, thread>>
    BY DEF TailOpens, TailAsks, TailPrints, TailMoves, files, history, process
  <1>3. Locks'
    BY <1>1, <1>2 DEF ProcessInv, Locks
  <1>4. clock' \in Stamps /\ LogStays
    BY <1>1, <1>2, NamesStayStill DEF TypeOK
  <1>5. ProcessInv'
    BY <1>2, <1>3, <1>4, ProcessUndisturbed
  <1>6. tail' \in [phase : {"off", "ask", "read"}, at : Inodes \cup {NoFile},
                   pos : Nat, moved : BOOLEAN]
    <2> DEFINE T == [phase : {"off", "ask", "read"}, at : Inodes \cup {NoFile},
                     pos : Nat, moved : BOOLEAN]
               w == tail
    <2>1. w \in T /\ log \in Inodes \cup {NoFile}
      BY <1>1 DEF TypeOK
    <2>2. [phase |-> "ask", at |-> log, pos |-> 0, moved |-> FALSE] \in T
      BY <2>1
    <2>3. CASE TailOpens
      BY <2>2, <2>3 DEF TailOpens
    <2>4. CASE TailAsks
      <3> DEFINE b == log # NoFile /\ log # tail.at
                 r == [w EXCEPT !.phase = "read", !.moved = b]
      <3>1. tail' = r /\ b \in BOOLEAN
        BY <2>4 DEF TailAsks
      <3> HIDE DEF w, b
      <3>2. r \in T
        BY <2>1, <3>1
      <3> QED
        BY <3>1, <3>2
    <2>5. CASE TailPrints
      <3> DEFINE k == CHOOSE m \in Unread : \A j \in Unread : m <= j
                 r == [w EXCEPT !.phase = "ask", !.pos = k]
      <3>1. tail' = r /\ Unread # {}
        BY <2>5 DEF TailPrints
      <3>2. Unread \in SUBSET Nat
        <4>1. tail.at \in Inodes
          BY <2>1, <2>5 DEF IInv, ReaderInv, TailPrints
        <4>2. disk[tail.at] \in Seq(Piece)
          BY <1>1, <4>1 DEF TypeOK
        <4> QED
          BY <4>2 DEF Unread
      <3>3. k \in Nat
        BY <3>1, <3>2, Least
      <3> HIDE DEF w, k
      <3>4. r \in T
        BY <2>1, <3>3
      <3> QED
        BY <3>1, <3>4
    <2>6. CASE TailMoves
      <3> DEFINE r == [w EXCEPT !.phase = "ask"]
      <3>1. r \in T
        <4> HIDE DEF w
        <4> QED
          BY <2>1
      <3> QED
        BY <2>2, <2>6, <3>1 DEF TailMoves
    <2> QED
      BY <2>3, <2>4, <2>5, <2>6
  <1>7. cmd' \in [Commands -> Command]
    BY <1>1, <1>2 DEF TypeOK
  <1> QED
    BY <1>5, <1>6, <1>7 DEF CommandTypes

(* What is left of each action for the processes and the commands.         *)
LEMMA StepsOfProcesses ==
    ASSUME IInv, [Next]_vars
    PROVE  ProcessInv' /\ CommandTypes'
  <1>1. CommandTypes /\ ProcessInv /\ TypeOK
    BY ProcessOf
  <1>2. UNCHANGED <<cmd, tail>> => CommandTypes'
    BY <1>1 DEF CommandTypes
  <1>3. CASE Open
    BY <1>2, <1>3, OpenProcess DEF Open
  <1>4. CASE Killed
    BY <1>2, <1>4, KilledProcess DEF Killed
  <1>5. CASE MoveAside
    BY <1>5, MoveAsideProcess
  <1>6. CASE Tick
    BY <1>6, TickProcess
  <1>7. ASSUME NEW t \in Threads,
               \/ Begin(t) \/ CancelWrite(t)
               \/ Take(t) \/ Unrecoverable(t) \/ Rotate(t) \/ Create(t)
               \/ \E cut \in {"whole", "open", "torn"} : Append1(t, cut) \/ Append2(t, cut)
               \/ Fail(t) \/ Return(t)
        PROVE  ProcessInv' /\ CommandTypes'
    <2>1. UNCHANGED <<cmd, tail>>
      BY <1>7 DEF Begin, CancelWrite, Take, Unrecoverable, Rotate, Create, Append1,
                  Append2, Fail, Return
    <2> QED
      BY <1>2, <1>7, <2>1, WaitProcess, TakeProcess, RotateProcess, CreateProcess,
         Append1Process, Append2Process, ReturnProcess
  <1>8. ASSUME NEW c \in Commands,
               \/ RotateOpens(c) \/ ForceRotate(c) \/ ForceCreate(c)
               \/ ListFiles(c) \/ Reported(c) \/ \E n \in Names : ReadRotated(c, n)
               \/ PruneReads(c) \/ PruneDeletes(c)
        PROVE  ProcessInv' /\ CommandTypes'
    BY <1>8, ReadingProcess, ForceRotateProcess, ForceCreateProcess, PruneDeletesProcess
  <1>9. CASE TailOpens \/ TailAsks \/ TailPrints \/ TailMoves
    BY <1>9, TailProcess
  <1>10. CASE UNCHANGED vars
    <2>1. UNCHANGED <<disk, log, clock, holder, process, written, cmd, tail, thread>>
      BY <1>10 DEF vars, files, history, process
    <2>2. Locks' /\ CommandTypes'
      BY <1>1, <2>1 DEF ProcessInv, Locks, CommandTypes
    <2>3. clock' \in Stamps /\ LogStays
      BY <1>1, <2>1, NamesStayStill DEF TypeOK
    <2> QED
      BY <2>1, <2>2, <2>3, ProcessUndisturbed
  <1> QED
    BY <1>3, <1>4, <1>5, <1>6, <1>7, <1>8, <1>9, <1>10 DEF Next

-----------------------------------------------------------------------------
(* The readers                                                             *)

(* Each step leaves a rotated file as it is, or prunes it.                 *)
LEMMA AwayStays ==
    ASSUME FileTypes, FilesInv, FileStep, NEW n \in Rotated
    PROVE  \/ rotated'[n] = rotated[n] /\ disk'[rotated[n]] = disk[rotated[n]]
           \/ rotated'[n] = NoFile /\ MacsIn(disk[rotated[n]]) \subseteq pruned'
  <1>1. n \in Names /\ rotated[n] \in Away /\ rotated[n] \in Kept /\ rotated[n] # NoFile
    BY DEF Rotated, Away, Kept
  <1>2. CASE UNCHANGED <<files, written, pruned>>
    BY <1>2 DEF files
  <1>3. CASE NewLog
    BY <1>1, <1>3, NewLogKeeps DEF NewLog
  <1>4. CASE PutAway
    BY <1>1, <1>4, PutAwayKeeps
  <1>5. ASSUME NEW cut \in {"whole", "open", "torn"}, Appends(cut)
        PROVE  rotated'[n] = rotated[n] /\ disk'[rotated[n]] = disk[rotated[n]]
    BY <1>1, <1>5, AppendsKeeps DEF Appends
  <1>6. ASSUME NEW cut \in {"whole", "open", "torn"}, Completes(cut)
        PROVE  rotated'[n] = rotated[n] /\ disk'[rotated[n]] = disk[rotated[n]]
    BY <1>1, <1>6, CompletesKeeps DEF Completes
  <1>7. ASSUME NEW gone, Deletes(gone)
        PROVE  \/ rotated'[n] = rotated[n] /\ disk'[rotated[n]] = disk[rotated[n]]
               \/ rotated'[n] = NoFile /\ MacsIn(disk[rotated[n]]) \subseteq pruned'
    <2>1. CASE n \in gone
      BY <1>1, <1>7, <2>1 DEF Deletes
    <2>2. CASE n \notin gone
      <3>1. /\ rotated'[n] = rotated[n] /\ n \in Rotated'
            /\ \A j \in Kept' : disk'[j] = disk[j]
        BY <1>7, <2>2, DeletesKeeps
      <3>2. rotated'[n] \in Kept'
        BY <3>1 DEF Kept, Away
      <3> QED
        BY <3>1, <3>2
    <2> QED
      BY <2>1, <2>2
  <1> QED
    BY <1>2, <1>3, <1>4, <1>5, <1>6, <1>7 DEF FileStep

(* Only names of an earlier second lose their file, and none is reused.    *)
LEMMA NamesAreGivenOnce ==
    ASSUME IInv, [Next]_vars
    PROVE  /\ \A n \in Rotated : rotated'[n] # NoFile \/ n[1] < clock
           /\ \A n \in Names : rotated[n] = NoFile /\ n[1] < clock => rotated'[n] = NoFile
           /\ clock \in Nat /\ clock' \in Nat /\ clock <= clock'
           /\ pruned \subseteq pruned'
  <1>1. TypeOK /\ clock \in Nat
    BY NumbersAreInt DEF IInv, TypeOK
  <1>2. clock' \in Nat /\ clock <= clock'
    <2>1. clock' = clock \/ clock' = clock + 1
      BY DEF Next, vars, Open, Killed, MoveAside, Tick, Begin, CancelWrite, Take,
             Unrecoverable, Rotate, Create, Append1, Append2, Fail, Return,
             RotateOpens, ForceRotate, ForceCreate, ListFiles, Reported, ReadRotated,
             PruneReads, PruneDeletes, TailOpens, TailAsks, TailPrints, TailMoves
    <2> QED
      BY <1>1, <2>1
  <1>3. pruned \subseteq pruned'
    <2>1. FileStep
      BY StepsOnFiles
    <2> QED
      BY <2>1 DEF FileStep, NewLog, PutAway, Appends, Completes, Deletes, history
  <1> DEFINE Goal == /\ \A n \in Rotated : rotated'[n] # NoFile \/ n[1] < clock
                     /\ \A n \in Names : rotated[n] = NoFile /\ n[1] < clock
                                            => rotated'[n] = NoFile
  <1>4. UNCHANGED rotated => Goal
    BY DEF Rotated
  <1>5. CanMove /\ MoveAway /\ Contents(log) # <<>> => Goal
    <2>1. SUFFICES ASSUME CanMove, MoveAway, Contents(log) # <<>>
                   PROVE  Goal
      OBVIOUS
    <2>2. Target \in Names /\ rotated[Target] = NoFile /\ Target[1] = clock
      BY <1>1, <2>1, TargetIsFree
    <2>3. rotated' = [rotated EXCEPT ![Target] = log] /\ rotated \in [Names -> Inodes \cup {NoFile}]
      BY <1>1, <2>1 DEF MoveAway, TypeOK
    <2> DEFINE g == Target
    <2> HIDE DEF g
    <2>4. /\ g \in Names /\ rotated[g] = NoFile /\ g[1] = clock
          /\ rotated' = [rotated EXCEPT ![g] = log]
      BY <2>2, <2>3 DEF g
    <2>5. \A n \in Names : n # g => rotated'[n] = rotated[n]
      BY <2>3, <2>4
    <2>6. ASSUME NEW n \in Rotated
          PROVE  rotated'[n] # NoFile
      BY <2>4, <2>5 DEF Rotated
    <2>7. ASSUME NEW n \in Names, rotated[n] = NoFile, n[1] < clock
          PROVE  rotated'[n] = NoFile
      <3>1. n # g
        BY <1>1, <2>4, <2>7
      <3> QED
        BY <2>5, <2>7, <3>1
    <2> QED
      BY <2>6, <2>7
  <1>6. ASSUME NEW c \in Commands, PruneDeletes(c)
        PROVE  Goal
    <2> DEFINE gone == {n \in Listed(c) : Listing[n] = cmd[c].todo[n]}
    <2>1. \A n \in gone : n[1] < clock
      BY <1>6 DEF PruneDeletes, IInv, ReaderInv
    <2>2. rotated' = [n \in Names |-> IF n \in gone THEN NoFile ELSE rotated[n]]
      BY <1>6 DEF PruneDeletes
    <2> HIDE DEF gone
    <2> QED
      BY <2>1, <2>2 DEF Rotated
  <1> HIDE DEF Goal
  <1>7. Goal
    <2>1. CASE Open \/ Killed \/ MoveAside \/ Tick
      BY <1>4, <2>1 DEF Open, Killed, MoveAside, Tick, files
    <2>2. ASSUME NEW t \in Threads,
               \/ Begin(t) \/ CancelWrite(t)
               \/ Take(t) \/ Unrecoverable(t) \/ Rotate(t) \/ Create(t)
               \/ \E cut \in {"whole", "open", "torn"} : Append1(t, cut) \/ Append2(t, cut)
               \/ Fail(t) \/ Return(t)
          PROVE  Goal
      BY <1>4, <1>5, <2>2 DEF Begin, CancelWrite, Take, Unrecoverable, Rotate, Create,
         Append1, Append2, Fail, Return, files
    <2>3. ASSUME NEW c \in Commands,
               \/ RotateOpens(c) \/ ForceRotate(c) \/ ForceCreate(c)
               \/ ListFiles(c) \/ Reported(c) \/ \E n \in Names : ReadRotated(c, n)
               \/ PruneReads(c) \/ PruneDeletes(c)
          PROVE  Goal
      BY <1>4, <1>5, <1>6, <2>3 DEF RotateOpens, ForceRotate, ForceCreate, ListFiles,
         Reported, ReadRotated, PruneReads, files
    <2>4. CASE \/ TailOpens \/ TailAsks \/ TailPrints \/ TailMoves \/ UNCHANGED vars
      BY <1>4, <2>4 DEF TailOpens, TailAsks, TailPrints, TailMoves, vars, files
    <2> QED
      BY <2>1, <2>2, <2>3, <2>4 DEF Next
  <1> QED
    BY <1>1, <1>2, <1>3, <1>7 DEF Goal

(* What a reader still owes is not lost by what others do to the files.    *)
LEMMA StillComes ==
    ASSUME IInv, [Next]_vars, NEW c \in Commands, cmd'[c] = cmd[c], NEW m, Comes(c, m),
           cmd[c].kind \in {"verify-all", "export"}
    PROVE  Comes(c, m)'
  <1>1. TypeOK /\ FileTypes /\ FilesInv /\ FileStep
    BY FilesOf, StepsOnFiles DEF IInv
  <1>2. Listed(c)' = Listed(c)
    BY DEF Listed
  <1>3. pruned \subseteq pruned' /\ clock \in Nat /\ clock' \in Nat /\ clock <= clock'
    BY NamesAreGivenOnce
  <1>4. CASE m \in cmd[c].seen
    BY <1>4 DEF Comes
  <1>5. CASE cmd[c].kind = "verify-all" /\ m \in pruned
    BY <1>3, <1>5 DEF Comes
  <1>6. ASSUME NEW n \in Listed(c), m \in MacsIn(Contents(rotated[n]))
        PROVE  Comes(c, m)'
    <2>1. rotated[n] # NoFile /\ n \in Rotated /\ Contents(rotated[n]) = disk[rotated[n]]
      <3>1. n \in Names
        BY DEF Listed
      <3>2. rotated[n] # NoFile
        BY <1>6 DEF Contents, MacsIn
      <3> QED
        BY <3>1, <3>2 DEF Rotated, Contents
    <2>2. CASE rotated'[n] = rotated[n] /\ disk'[rotated[n]] = disk[rotated[n]]
      <3>1. Contents(rotated[n])' = Contents(rotated[n])
        BY <2>1, <2>2 DEF Contents
      <3> QED
        BY <1>2, <1>6, <3>1 DEF Comes, MacsIn
    <2>3. CASE rotated'[n] = NoFile /\ MacsIn(disk[rotated[n]]) \subseteq pruned'
      <3>1. m \in pruned' /\ n[1] < clock
        BY <1>6, <2>1, <2>3, NamesAreGivenOnce
      <3>2. n[1] \in Nat
        <4>1. n \in Stamps \X (0..MaxCounter)
          BY DEF Listed, Names
        <4> QED
          BY <4>1, NumbersAreInt
      <3>3. n[1] < clock'
        BY <1>3, <3>1, <3>2
      <3> QED
        BY <1>2, <2>3, <3>1, <3>3 DEF Comes
    <2> QED
      BY <1>1, <2>1, <2>2, <2>3, AwayStays
  <1>7. ASSUME NEW n \in Listed(c), cmd[c].kind = "export", rotated[n] = NoFile, n[1] < clock
        PROVE  Comes(c, m)'
    <2>1. n \in Names /\ n[1] \in Nat
      <3>1. n \in Names /\ n \in Stamps \X (0..MaxCounter)
        BY DEF Listed, Names
      <3> QED
        BY <3>1, NumbersAreInt
    <2>2. rotated'[n] = NoFile /\ n[1] < clock'
      BY <1>3, <1>7, <2>1, NamesAreGivenOnce
    <2> QED
      BY <1>2, <1>7, <2>2 DEF Comes
  <1> QED
    BY <1>4, <1>5, <1>6, <1>7 DEF Comes

ReaderOf(c) ==
    /\ cmd[c].kind = "none" => cmd[c].phase = "idle"
    /\ cmd[c].phase = "read" => cmd[c].kind \in {"verify-all", "export"}
    /\ cmd[c].phase = "read" => \A m \in cmd[c].owed : Comes(c, m)
    /\ cmd[c].phase = "delete" => \A n \in Listed(c) : n[1] < clock

LEMMA NamesHaveSeconds ==
    ASSUME NEW n \in Names
    PROVE  n[1] \in Nat
  BY NumbersAreInt DEF Names

LEMMA ReaderUndisturbed ==
    ASSUME IInv, [Next]_vars, NEW c \in Commands, cmd'[c] = cmd[c]
    PROVE  ReaderOf(c)'
  <1>1. ReaderOf(c)
    BY DEF IInv, ReaderInv, ReaderOf
  <1>2. clock \in Nat /\ clock' \in Nat /\ clock <= clock'
    BY NamesAreGivenOnce
  <1>3. Listed(c)' = Listed(c) /\ Listed(c) \subseteq Names
    BY DEF Listed
  <1>4. cmd[c].phase = "delete" => \A n \in Listed(c) : n[1] < clock'
    BY <1>1, <1>2, <1>3, NamesHaveSeconds DEF ReaderOf
  <1>5. cmd[c].phase = "read" => \A m \in cmd[c].owed : Comes(c, m)'
    BY <1>1, StillComes DEF ReaderOf
  <1> QED
    BY <1>1, <1>3, <1>4, <1>5 DEF ReaderOf

(* A command that lists the files has every record it owes before it.      *)
LEMMA ListedComes ==
    ASSUME IInv, NEW c \in Commands, ListFiles(c)
    PROVE  ReaderOf(c)'
  <1>1. TypeOK /\ FileTypes /\ AckedIsKept
    BY FilesOf DEF IInv
  <1>2. /\ cmd'[c].phase = "read" /\ cmd'[c].kind \in {"verify-all", "export"}
        /\ cmd'[c].todo = Listing /\ cmd'[c].seen = MacsIn(Contents(log))
        /\ cmd'[c].owed = acked \ (pruned \cup UNION {MacsIn(disk[i]) : i \in aside})
    BY <1>1, ListFilesIs
  <1>3. UNCHANGED <<disk, log, rotated>>
    BY DEF ListFiles, files
  <1>4. Rotated \subseteq Listed(c)'
    BY <1>1, <1>2, ListingIs DEF Listed, Rotated
  <1>5. ASSUME NEW m \in cmd'[c].owed
        PROVE  Comes(c, m)'
    <2>1. m \in acked /\ m \notin pruned /\ \A i \in aside : m \notin MacsIn(disk[i])
      BY <1>2, <1>5
    <2>2. PICK i \in Kept : m \in MacsIn(disk[i])
      BY <1>1, <2>1, AckedInKept
    <2>3. CASE i = log /\ log # NoFile
      BY <1>2, <2>2, <2>3 DEF Comes, Contents
    <2>4. ASSUME NEW n \in Rotated, i = rotated[n]
          PROVE  Comes(c, m)'
      <3>1. Contents(rotated[n])' = disk[i]
        BY <1>3, <2>4 DEF Contents, Rotated
      <3>2. m \in MacsIn(Contents(rotated[n]))'
        BY <2>2, <3>1 DEF MacsIn
      <3> QED
        BY <1>4, <3>2 DEF Comes
    <2> QED
      BY <2>1, <2>2, <2>3, <2>4 DEF Kept, Away
  <1> QED
    BY <1>2, <1>5 DEF ReaderOf

(* A file that is read has been seen.                                      *)
LEMMA ReadComes ==
    ASSUME IInv, [Next]_vars, NEW c \in Commands, NEW n \in Names, ReadRotated(c, n)
    PROVE  ReaderOf(c)'
  <1>1. TypeOK /\ ReaderOf(c)
    BY DEF IInv, ReaderInv, ReaderOf
  <1>2. /\ cmd[c].phase = "read" /\ n \in Listed(c) /\ cmd'[c].kind = cmd[c].kind
        /\ \/ /\ cmd'[c].phase = "read" /\ cmd'[c].owed = cmd[c].owed
              /\ cmd'[c].seen = cmd[c].seen \cup MacsIn(Contents(rotated[n]))
              /\ \A m \in Names : m # n => cmd'[c].todo[m] = cmd[c].todo[m]
              /\ cmd[c].kind = "export" => rotated[n] # NoFile
           \/ cmd'[c].phase = "idle"
    BY <1>1, ReadRotatedIs
  <1>3. UNCHANGED <<disk, rotated, pruned, clock>>
    BY DEF ReadRotated, files, history
  <1>4. cmd[c].kind \in {"verify-all", "export"}
    BY <1>1, <1>2 DEF ReaderOf
  <1>5. ASSUME cmd'[c].phase = "read", NEW m \in cmd'[c].owed
        PROVE  Comes(c, m)'
    <2>1. /\ Comes(c, m)
          /\ cmd'[c].seen = cmd[c].seen \cup MacsIn(Contents(rotated[n]))
          /\ \A k \in Names : k # n => cmd'[c].todo[k] = cmd[c].todo[k]
          /\ cmd[c].kind = "export" => rotated[n] # NoFile
      BY <1>1, <1>2, <1>5 DEF ReaderOf
    <2>2. CASE m \in cmd[c].seen
      BY <2>1, <2>2 DEF Comes
    <2>3. CASE cmd[c].kind = "verify-all" /\ m \in pruned
      BY <1>2, <1>3, <2>3 DEF Comes
    <2>4. ASSUME NEW k \in Listed(c),
                 \/ m \in MacsIn(Contents(rotated[k]))
                 \/ cmd[c].kind = "export" /\ rotated[k] = NoFile /\ k[1] < clock
          PROVE  Comes(c, m)'
      <3>1. CASE k = n
        <4>1. m \in MacsIn(Contents(rotated[n]))
          BY <2>1, <2>4, <3>1
        <4> QED
          BY <2>1, <4>1 DEF Comes
      <3>2. CASE k # n
        <4>1. k \in Listed(c)'
          BY <2>1, <3>2 DEF Listed
        <4>2. Contents(rotated[k])' = Contents(rotated[k])
          BY <1>3 DEF Contents
        <4>3. \/ m \in MacsIn(Contents(rotated[k]))'
              \/ cmd'[c].kind = "export" /\ rotated'[k] = NoFile /\ k[1] < clock'
          BY <1>2, <1>3, <2>4, <4>2 DEF MacsIn
        <4> QED
          BY <4>1, <4>3 DEF Comes
      <3> QED
        BY <3>1, <3>2
    <2> QED
      BY <2>1, <2>2, <2>3, <2>4 DEF Comes
  <1> QED
    BY <1>2, <1>4, <1>5 DEF ReaderOf

LEMMA StepsOfReaders ==
    ASSUME IInv, [Next]_vars
    PROVE  ReaderInv'
  <1>1. TypeOK
    BY DEF IInv
  <1>2. ASSUME NEW c \in Commands, cmd'[c].phase \notin {"read", "delete"},
               cmd'[c].kind # "none"
        PROVE  ReaderOf(c)'
    BY <1>2 DEF ReaderOf
  <1>3. ASSUME NEW c \in Commands,
               \/ RotateOpens(c) \/ ForceRotate(c) \/ ForceCreate(c)
               \/ ListFiles(c) \/ Reported(c) \/ \E n \in Names : ReadRotated(c, n)
               \/ PruneReads(c) \/ PruneDeletes(c)
        PROVE  ReaderOf(c)' /\ \A d \in Commands \ {c} : cmd'[d] = cmd[d]
    <2>1. ReaderOf(c)
      BY DEF IInv, ReaderInv, ReaderOf
    <2>2. CASE RotateOpens(c)
      BY <1>1, <1>2, <2>2, RotateOpensIs DEF OthersStay
    <2>3. CASE ForceRotate(c)
      <3>1. cmd[c].kind # "none"
        BY <2>1, <2>3 DEF ReaderOf, ForceRotate
      <3> QED
        BY <1>1, <1>2, <2>3, <3>1, ForceRotateIs DEF OthersStay
    <2>4. CASE ForceCreate(c) \/ Reported(c) \/ PruneDeletes(c)
      <3>1. cmd[c].kind # "none" /\ End(c)
        BY <2>1, <2>4 DEF ReaderOf, ForceCreate, Reported, AllRead, PruneDeletes
      <3> QED
        BY <1>1, <1>2, <3>1, EndIs
    <2>5. CASE ListFiles(c)
      BY <1>1, <2>5, ListedComes, ListFilesIs DEF OthersStay
    <2>6. ASSUME NEW n \in Names, ReadRotated(c, n)
          PROVE  ReaderOf(c)' /\ \A d \in Commands \ {c} : cmd'[d] = cmd[d]
      BY <1>1, <2>6, ReadComes, ReadRotatedIs DEF OthersStay
    <2>7. CASE PruneReads(c)
      <3>1. /\ OthersStay(c) /\ cmd'[c].phase = "delete" /\ cmd'[c].kind = "prune"
            /\ \A n \in Names : cmd'[c].todo[n].file # NoFile => n[1] < clock
        BY <1>1, <2>7, PruneReadsIs
      <3>2. clock' = clock
        BY <2>7 DEF PruneReads
      <3>3. \A n \in Listed(c)' : n[1] < clock'
        BY <3>1, <3>2 DEF Listed
      <3> QED
        BY <3>1, <3>3 DEF ReaderOf, OthersStay
    <2> QED
      BY <1>3, <2>2, <2>3, <2>4, <2>5, <2>6, <2>7
  <1>4. UNCHANGED cmd => \A c \in Commands : ReaderOf(c)'
    BY ReaderUndisturbed
  <1>5. \A c \in Commands : ReaderOf(c)'
    <2>1. CASE Open \/ Killed \/ MoveAside \/ Tick
      BY <1>4, <2>1 DEF Open, Killed, MoveAside, Tick
    <2>2. ASSUME NEW t \in Threads,
               \/ Begin(t) \/ CancelWrite(t)
               \/ Take(t) \/ Unrecoverable(t) \/ Rotate(t) \/ Create(t)
               \/ \E cut \in {"whole", "open", "torn"} : Append1(t, cut) \/ Append2(t, cut)
               \/ Fail(t) \/ Return(t)
          PROVE  UNCHANGED cmd
      BY <2>2 DEF Begin, CancelWrite, Take, Unrecoverable, Rotate, Create,
         Append1, Append2, Fail, Return
    <2>3. ASSUME NEW c \in Commands,
               \/ RotateOpens(c) \/ ForceRotate(c) \/ ForceCreate(c)
               \/ ListFiles(c) \/ Reported(c) \/ \E n \in Names : ReadRotated(c, n)
               \/ PruneReads(c) \/ PruneDeletes(c)
          PROVE  \A d \in Commands : ReaderOf(d)'
      <3>1. ReaderOf(c)' /\ \A d \in Commands \ {c} : cmd'[d] = cmd[d]
        BY <1>3, <2>3
      <3>2. \A d \in Commands \ {c} : ReaderOf(d)'
        BY <3>1, ReaderUndisturbed
      <3>3. \A d \in Commands : d = c \/ d \in Commands \ {c}
        OBVIOUS
      <3> QED
        BY <3>1, <3>2, <3>3
    <2>4. CASE TailOpens \/ TailAsks \/ TailPrints \/ TailMoves \/ UNCHANGED vars
      BY <1>4, <2>4 DEF TailOpens, TailAsks, TailPrints, TailMoves, vars
    <2> QED
      BY <1>4, <2>1, <2>2, <2>3, <2>4 DEF Next
  <1>6. (tail.phase = "off" <=> tail.at = NoFile)'
    <2>1. tail.phase = "off" <=> tail.at = NoFile
      BY DEF IInv, ReaderInv
    <2>2. CASE TailOpens
      BY <2>2 DEF TailOpens
    <2>3. CASE TailAsks \/ TailPrints \/ TailMoves
      <3> DEFINE w == tail
                 T == [phase : {"off", "ask", "read"}, at : Inodes \cup {NoFile},
                       pos : Nat, moved : BOOLEAN]
      <3>1. w \in T /\ w.phase # "off"
        BY <1>1, <2>3 DEF TypeOK, TailAsks, TailPrints, TailMoves
      <3>2. \/ tail' = [phase |-> "ask", at |-> log, pos |-> 0, moved |-> FALSE]
               /\ log # NoFile
            \/ \E b : tail' = [w EXCEPT !.phase = "read", !.moved = b]
            \/ \E k : tail' = [w EXCEPT !.phase = "ask", !.pos = k]
            \/ tail' = [w EXCEPT !.phase = "ask"]
        BY <2>3 DEF TailAsks, TailPrints, TailMoves
      <3> HIDE DEF w
      <3>3. tail'.phase # "off" /\ (tail'.at = w.at \/ (tail'.at = log /\ log # NoFile))
        <4>1. ASSUME NEW b, tail' = [w EXCEPT !.phase = "read", !.moved = b]
              PROVE  tail'.phase # "off" /\ tail'.at = w.at
          BY <3>1, <4>1
        <4>2. ASSUME NEW k, tail' = [w EXCEPT !.phase = "ask", !.pos = k]
              PROVE  tail'.phase # "off" /\ tail'.at = w.at
          BY <3>1, <4>2
        <4>3. ASSUME tail' = [w EXCEPT !.phase = "ask"]
              PROVE  tail'.phase # "off" /\ tail'.at = w.at
          BY <3>1, <4>3
        <4>4. ASSUME tail' = [phase |-> "ask", at |-> log, pos |-> 0, moved |-> FALSE]
              PROVE  tail'.phase # "off" /\ tail'.at = log
          BY <4>4
        <4> QED
          BY <3>2, <4>1, <4>2, <4>3, <4>4, Zenon
      <3> QED
        BY <2>1, <3>1, <3>3 DEF w
    <2>4. CASE UNCHANGED tail
      BY <2>1, <2>4
    <2> QED
      BY <2>2, <2>3, <2>4 DEF Next, vars, Open, Killed, MoveAside, Tick, Begin,
         CancelWrite, Take, Unrecoverable, Rotate, Create, Append1, Append2, Fail,
         Return, RotateOpens, ForceRotate, ForceCreate, ListFiles, Reported,
         ReadRotated, PruneReads, PruneDeletes
  <1> QED
    BY <1>5, <1>6 DEF ReaderInv, ReaderOf

-----------------------------------------------------------------------------
(* The theorems                                                            *)

LEMMA Initially ==
    ASSUME Init
    PROVE  IInv
  <1>1. NoFile \notin Inodes
    BY AuditChainAssumption
  <1>2. Contents(NoFile) = <<>>
    BY DEF Contents
  <1>3. Identity(NoFile) = [file |-> NoFile, pieces |-> 0, cut |-> "whole"]
    BY <1>2 DEF Identity
  <1>4. Identity(NoFile) \in FileIdentity
    BY <1>3 DEF FileIdentity
  <1>5. /\ NoWriter \in Writer /\ NoWriter.seq = 1 /\ NoWriter.prev = 0
        /\ NoWriter.state = [file |-> NoFile, pieces |-> 0, cut |-> "whole"]
    BY <1>3, <1>4 DEF NoWriter, Writer
  <1>6. /\ Unused \in Command /\ Unused.phase = "idle" /\ Unused.kind = "none"
    BY <1>4 DEF Unused, Command, Nothing
  <1>7. /\ log = NoFile /\ aside = {} /\ Rotated = {} /\ acked = {} /\ written = 0
        /\ holder = NoOne /\ daemon = "down" /\ writer = NoWriter
        /\ \A t \in Threads : thread[t] = "idle"
        /\ \A c \in Commands : cmd[c] = Unused
        /\ tail = [phase |-> "off", at |-> NoFile, pos |-> 0, moved |-> FALSE]
    BY DEF Init, Rotated
  <1>8. Away = {} /\ Kept = {}
    BY <1>7 DEF Away, Kept
  <1>9. TypeOK
    <2>1. <<>> \in Seq(Piece)
      OBVIOUS
    <2>2. 1 \in Stamps /\ 0 \in 0..MaxWrites
      BY NumbersAreInt DEF Stamps
    <2>3. /\ \A t \in Threads : (holder = t) <=> thread[t] \notin {"idle", "waiting"}
          /\ \A c \in Commands : (holder = c) <=> cmd[c].phase = "create"
      BY <1>6, <1>7, AuditChainAssumption
    <2> QED
      BY <1>5, <1>6, <1>7, <2>1, <2>2, <2>3 DEF TypeOK, Init
  <1>10. PlaceInv /\ ChainInv /\ MacInv
    BY <1>6, <1>7, <1>8 DEF PlaceInv, ChainInv, MacInv
  <1>11. WriterInv
    <2>1. Continues(Contents(log))
      BY <1>2, <1>5, <1>7 DEF Continues, ChainAfter
    <2> QED
      BY <1>5, <1>7, <2>1 DEF WriterInv
  <1>12. ThreadInv /\ AckedIsKept
    BY <1>7 DEF ThreadInv, AckedIsKept
  <1>13. ReaderInv
    BY <1>6, <1>7 DEF ReaderInv
  <1> QED
    BY <1>9, <1>10, <1>11, <1>12, <1>13 DEF IInv

LEMMA Preserved ==
    ASSUME IInv, [Next]_vars
    PROVE  IInv' /\ ChainStep
  <1>1. FileTypes /\ FilesInv /\ FileStep /\ TypeOK
    BY FilesOf, StepsOnFiles DEF IInv
  <1>2. FilesInv' /\ ChainStep
    BY <1>1, FileStepKeeps
  <1>3. ProcessInv' /\ CommandTypes'
    BY StepsOfProcesses
  <1>4. TypeOK'
    BY <1>1, <1>3, TypesTogether DEF ProcessInv
  <1>5. PlaceInv'
    BY <1>2, <1>3 DEF FilesInv, Places, PlaceInv, ProcessInv, Creating
  <1>6. ReaderInv'
    BY StepsOfReaders
  <1> QED
    BY <1>2, <1>3, <1>4, <1>5, <1>6 DEF IInv, FilesInv, ProcessInv

(* The inductive invariant: files have one place each, their records       *)
(* number and chain, the writer and the threads know where the log ends,   *)
(* and a reader's debts can be paid (audit.py:263-620).                    *)
THEOREM Invariance == Spec => []IInv
  <1>1. Init => IInv
    BY Initially
  <1>2. IInv /\ [Next]_vars => IInv'
    BY Preserved
  <1> QED
    BY <1>1, <1>2, PTL DEF Spec

(* Values have their types, and the lock file has its holder exactly while *)
(* a thread or a rotate command is between flock and unlock.               *)
THEOREM TypeCorrect == Spec => []TypeOK
  <1>1. IInv => TypeOK
    BY DEF IInv
  <1> QED
    BY <1>1, Invariance, PTL

(* A record whose write returned is on disk until the user prunes it,      *)
(* whatever is cancelled, killed, torn, rotated or moved aside.            *)
THEOREM AcknowledgedRecordsStay == Spec => []AckedIsKept
  <1>1. IInv => AckedIsKept
    BY DEF IInv
  <1> QED
    BY <1>1, Invariance, PTL

(* verify-all and export pass over no record they owe, and tail leaves no  *)
(* file it has opened before its last complete line.  (Of a file it never  *)
(* opens, between two rotations, nothing is said.)                         *)
THEOREM WhatIsReadIsReadWhole == Spec => ReadsAreWhole
  <1>1. IInv => ReadersMissNothing
    <2>1. SUFFICES ASSUME IInv, NEW c \in Commands, AllRead(c), NEW m \in cmd[c].owed
                   PROVE  m \in cmd[c].seen \cup IF cmd[c].kind = "export"
                                                 THEN {} ELSE pruned
      BY DEF ReadersMissNothing
    <2>2. Comes(c, m) /\ Listed(c) = {}
      BY <2>1 DEF IInv, ReaderInv, AllRead
    <2> QED
      BY <2>2 DEF Comes
  <1>2. IInv /\ [Next]_vars =>
           [tail'.at # tail.at /\ tail.at # NoFile =>
              \A k \in DOMAIN disk'[tail.at] :
                 disk'[tail.at][k].cut = "whole" => k <= tail.pos]_vars
    <2>1. SUFFICES ASSUME IInv, [Next]_vars, tail'.at # tail.at, tail.at # NoFile,
                          NEW k \in DOMAIN disk'[tail.at],
                          disk'[tail.at][k].cut = "whole"
                   PROVE  k <= tail.pos
      OBVIOUS
    <2>2. tail.phase # "off" /\ tail' # tail
      BY <2>1 DEF IInv, ReaderInv
    <2>3. TailAsks \/ TailPrints \/ TailMoves
      BY <2>1, <2>2 DEF Next, vars, Open, Killed, MoveAside, Tick, Begin,
         CancelWrite, Take, Unrecoverable, Rotate, Create, Append1, Append2, Fail,
         Return, RotateOpens, ForceRotate, ForceCreate, ListFiles, Reported,
         ReadRotated, PruneReads, PruneDeletes, TailOpens
    <2> DEFINE w == tail
               T == [phase : {"off", "ask", "read"}, at : Inodes \cup {NoFile},
                     pos : Nat, moved : BOOLEAN]
    <2>4. w \in T
      BY <2>1 DEF IInv, TypeOK
    <2>5. ~TailAsks /\ ~TailPrints
      <3>1. ASSUME TailAsks \/ TailPrints
            PROVE  \/ \E b : tail' = [w EXCEPT !.phase = "read", !.moved = b]
                   \/ \E l : tail' = [w EXCEPT !.phase = "ask", !.pos = l]
        BY <3>1 DEF TailAsks, TailPrints
      <3>2. tail'.at # w.at
        BY <2>1
      <3> HIDE DEF w
      <3> QED
        BY <2>4, <3>1, <3>2
    <2>6. Unread = {} /\ disk' = disk
      BY <2>3, <2>5 DEF TailMoves, files
    <2>7. tail.at \in Inodes /\ disk \in [Inodes -> Seq(Piece)] /\ tail.pos \in Nat
      BY <2>1 DEF IInv, TypeOK
    <2>8. disk[tail.at] \in Seq(Piece)
      BY <2>7
    <2>9. k \in Nat /\ ~(k > tail.pos)
      BY <2>1, <2>6, <2>8 DEF Unread
    <2> QED
      BY <2>7, <2>9
  <1> QED
    BY <1>1, <1>2, Invariance, PTL DEF ReadsAreWhole, TailFinishesFiles, Spec

(* The files and the processes that use them implement AuditLog: every     *)
(* step writes one record onto the chain, puts the chain away, prunes, or  *)
(* changes nothing of it.                                                  *)
THEOREM ImplementsChain == Spec => ImplementsAuditLog
  <1>1. Init => Chain!Init
    <2>1. SUFFICES ASSUME Init
                   PROVE  Chain!Init
      OBVIOUS
    <2>2. Contents(log) = <<>> /\ {rotated[n] : n \in Rotated} \cup aside = {}
      BY <2>1 DEF Init, Contents, Rotated
    <2>3. Records(Contents(log)) = <<>>
      BY <2>2, NoRecords
    <2> QED
      BY <2>2, <2>3 DEF Chain!Init
  <1>2. IInv /\ [Next]_vars =>
          [Chain!Next]_<<Records(Contents(log)),
             {Records(disk[i]) : i \in {rotated[n] : n \in Rotated} \cup aside}
               \ {<<>>}>>
    <2>1. SUFFICES ASSUME IInv, [Next]_vars
                   PROVE  \/ Chain!Next
                          \/ UNCHANGED <<Records(Contents(log)),
                               {Records(disk[i]) : i \in {rotated[n] : n \in Rotated}
                                                         \cup aside} \ {<<>>}>>
      OBVIOUS
    <2>2. ChainStep
      BY <2>1, Preserved
    <2> QED
      BY <2>2, ChainSteps DEF ChainStep, Chain!Next
  <1> QED
    BY <1>1, <1>2, Invariance, PTL DEF ImplementsAuditLog, Chain!Spec, Spec

=============================================================================
