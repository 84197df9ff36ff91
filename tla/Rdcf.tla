-------------------------------- MODULE Rdcf --------------------------------
(***************************************************************************)
(* The FAT file system of the memory card, rdcf2.c, called through the     *)
(* file table of mmc_driver.c.                                             *)
(*                                                                         *)
(* The program has one thread, so calls do not overlap, but power may fail *)
(* and the card refuse a transfer between any two sectors: a call is one   *)
(* step for each sector it writes.  A control block (FCB) holds one sector *)
(* buffer; changes of a FAT sector stay in it until it is flushed, at the  *)
(* end of the call or when the buffer is wanted for another FAT sector.    *)
(*                                                                         *)
(* Bounds: an entry of the FAT is 16 bits, so never across two sectors, as *)
(* on a card with a maximum_cluster_number of 4080 or more (smaller ones   *)
(* have 12-bit entries); the root directory is one sector and there are no *)
(* subdirectories; programs read and write whole sectors.  Sizes and       *)
(* positions are counted in sectors.                                       *)
(***************************************************************************)
EXTENDS Integers, FiniteSets, FiniteSetsExt

CONSTANTS
  Names,       \* file names
  Fds,         \* 0..MaxFileBuffers-1
  Slots,       \* entries of the root directory, 1..n
  MaxCluster,  \* maximum_cluster_number
  PerCluster,  \* sectors_per_cluster
  FatEntries,  \* entries of a FAT sector, SECTOR_SIZE / 2
  OpenModes,   \* bound: the ways the program opens files
  Counts,      \* bound: the sectors the program reads or writes in a call
  Rules,       \* the rules the program keeps (see Allowed)
  Faulty       \* power and card may fail

Cluster == 2..MaxCluster
EMPTY == 0
LAST == MaxCluster + 1     \* last_cluster_mark
TMP == -1                  \* the FCB of unlink and rename
None == -2

ASSUME RdcfAssumption ==
  /\ MaxCluster \in Nat \ {0} /\ PerCluster \in Nat \ {0}
  /\ FatEntries \in Nat \ {0}
  /\ IsFiniteSet(Fds) /\ Fds \subseteq Nat
  /\ IsFiniteSet(Slots) /\ Slots \subseteq Nat \ {0}
  /\ OpenModes \subseteq {"r", "w", "a", "r+", "w+", "a+"}
  /\ Counts \subseteq Nat
  /\ Rules \subseteq {"OpenOnce", "SeekBetween", "CloseFirst"}
  /\ Faulty \in BOOLEAN

VARIABLES
  fat,         \* the FAT as the running call leaves it
  card,        \* the FAT on the card
  dir,         \* the directory entries, on the card
  hint,        \* DriveDesc.FirstPossiblyEmptyCluster
  valid,       \* DriveDesc.IsValid
  fcb,         \* fcbs[], and that of unlink and rename
  pc, op, cur, \* where the running call is, which it is, and its FCB
  todo, lpos, lsize,   \* its unread or unwritten sectors, position and size
  at,          \* the cluster a release has come to
  held,        \* the descriptors the program has opened and not closed
  bad,         \* history: the descriptor whose last call failed
  hurt,        \* history: power or card have failed
  loose,       \* history: a link on the card leads here, to no entry yet
  torn         \* history: they failed between the writes of a link or a release

disk  == <<card, dir, loose>>
local == <<todo, lpos, lsize, at>>
hist  == <<bad, hurt, torn>>
vars == <<fat, card, dir, hint, valid, fcb, pc, op, cur, todo, lpos, lsize, at,
          held, bad, hurt, loose, torn>>

NoFile == [name |-> "none", slot |-> 0, first |-> EMPTY, size |-> 0,
           mode |-> {}, pos |-> 0, cluster |-> EMPTY, last |-> EMPTY,
           read |-> FALSE]
Taken == [NoFile EXCEPT !.mode = {"READ"}]
NoEntry == [live |-> FALSE, name |-> "none", first |-> EMPTY, size |-> 0]

Init ==      \* a card that was formatted, after _cc3_mmc_init
  /\ fat = [c \in Cluster |-> EMPTY] /\ card = fat
  /\ dir = [s \in Slots |-> NoEntry]
  /\ hint = 2 /\ valid = TRUE
  /\ fcb = [d \in Fds \cup {TMP} |-> NoFile]
  /\ pc = "idle" /\ op = "none" /\ cur = TMP
  /\ todo = 0 /\ lpos = 0 /\ lsize = 0 /\ at = EMPTY
  /\ held = {} /\ bad = None /\ hurt = FALSE /\ loose = EMPTY /\ torn = FALSE

-----------------------------------------------------------------------------
(* Chains. *)

(* The k-th cluster from c in the FAT t; EMPTY once the chain went astray.  *)
Nth(t, c, k) ==
  LET walk[i \in 0..k] == IF i = 0 THEN c
                          ELSE IF walk[i-1] \in Cluster THEN t[walk[i-1]]
                          ELSE EMPTY
  IN walk[k]

Chain(t, c) == {Nth(t, c, k) : k \in 0..MaxCluster} \cap Cluster

ClustersOf(size) == (size + PerCluster - 1) \div PerCluster

(* The sector of the FAT that holds the entry of c, the entries that are not *)
(* on the card as the call leaves them, and the clusters of the chain from c *)
(* to where it leaves their FAT sector.                                      *)
SectorOf(c) == c \div FatEntries
Unwritten == {c \in Cluster : fat[c] # card[c]}
Run(t, c) ==
  {Nth(t, c, k) : k \in {k \in 0..MaxCluster :
     \A i \in 0..k : Nth(t, c, i) \in Cluster /\ SectorOf(Nth(t, c, i)) = SectorOf(c)}}

FreeFromHint == {c \in Cluster : c >= hint}   \* mutant: no look at the FAT

(* add_new_cluster: the first empty one from the hint. *)
Free == {c \in Cluster : c >= hint /\ fat[c] = EMPTY}
Linked(t, tail, c) ==
  [x \in Cluster |-> IF x = c THEN LAST ELSE IF x = tail THEN c ELSE t[x]]

Open(d) == fcb[d] # NoFile
Holders(s) == {d \in held : fcb[d].slot = s}
Find(n) == {s \in Slots : dir[s].live /\ dir[s].name = n}
Vacant == {s \in Slots : ~dir[s].live}

-----------------------------------------------------------------------------
(* The rules of the program.  OpenOnce: it does not open, delete or rename   *)
(* a file it has open.  SeekBetween: it seeks between a read and a write.    *)
(* CloseFirst: when a call on a descriptor failed it closes that next.       *)
Idle == pc = "idle" /\ valid /\ ~torn
Allowed(d) == Idle /\ ("CloseFirst" \in Rules => bad = d)
Unopened(n) == "OpenOnce" \in Rules => \A s \in Find(n) : Holders(s) = {}

-----------------------------------------------------------------------------
(* open *)

Reads(m)  == m # "w" /\ m # "a"
Writes(m) == m # "r"
Creates(m) == m \notin {"r", "r+"}
Truncates(m) == m \in {"w", "w+"}
Appends(m) == m \in {"a", "a+"}
ModeBits(m) == {b \in {"READ", "WRITE", "APPEND"} :
                  \/ b = "READ" /\ Reads(m)
                  \/ b = "WRITE" /\ Writes(m)
                  \/ b = "APPEND" /\ Appends(m)}

SeekToForgets(f, off) ==    \* mutant: the last cluster is not noted
  [f EXCEPT !.cluster = Nth(fat, f.first, off \div PerCluster), !.pos = off,
            !.read = FALSE]

(* rdcf_seek, for an offset within the file: the chain is walked from the    *)
(* start, and its last cluster noted when the walk ends behind it.           *)
SeekTo(f, off) ==
  LET k == off \div PerCluster
      c == Nth(fat, f.first, k)
  IN [f EXCEPT !.cluster = c, !.pos = off, !.read = FALSE,
               !.last = IF k > 0 /\ c = LAST THEN Nth(fat, f.first, k - 1) ELSE @]

Fcb(n, s, m, e) ==
  [NoFile EXCEPT !.name = n, !.slot = s, !.mode = ModeBits(m),
                 !.first = e.first, !.size = e.size, !.cluster = e.first]

Call(o, d, next) == op' = o /\ cur' = d /\ pc' = next
Return == op' = "none" /\ cur' = TMP /\ pc' = "idle"

HintKept(C) == hint      \* mutant: the hint is not lowered

(* release_FAT_entries frees a chain from its start, cluster by cluster; a   *)
(* FAT sector is written when the chain leaves it (ReleaseSector, Flush).    *)
Lowered(C) == Min(C \cup {hint})
Release(c) ==
  /\ fat' = [x \in Cluster |-> IF x \in Chain(fat, c) THEN EMPTY ELSE fat[x]]
  /\ at' = c

OpenFile(n, m) ==
  /\ Allowed(None) /\ Unopened(n) /\ op = "none"
  /\ \E d \in Fds : ~Open(d)
  /\ LET d == Min({b \in Fds : ~Open(b)})
     IN /\ held' = held \cup {d}
        /\ \/ \E s \in Find(n) :              \* found, and kept
                /\ ~Truncates(m)
                /\ LET f == Fcb(n, s, m, dir[s])
                   IN fcb' = [fcb EXCEPT ![d] =
                                IF m = "a" THEN SeekTo(f, f.size) ELSE f]
                /\ UNCHANGED <<fat, at, pc, op, cur>>
           \/ \E s \in Find(n) :              \* found, and emptied
                /\ Truncates(m)
                /\ Release(dir[s].first)
                /\ fcb' = [fcb EXCEPT ![d] = Fcb(n, s, m, NoEntry)]
                /\ Call("open", d, "flush")
           \/ /\ Find(n) = {} /\ Creates(m) /\ Vacant # {}    \* ENOENT, ENOSPC
              /\ fcb' = [fcb EXCEPT ![d] = Fcb(n, Min(Vacant), m, NoEntry)]
              /\ Call("open", d, "dir")
              /\ UNCHANGED <<fat, at>>
  /\ UNCHANGED <<disk, hint, valid, todo, lpos, lsize, hist>>

(* ENOBUFS *)
OpenRefused == Allowed(None) /\ (\A d \in Fds : Open(d)) /\ UNCHANGED vars

-----------------------------------------------------------------------------
(* read and lseek *)

BeginRead(d, n) ==
  /\ Allowed(None) /\ d \in held /\ "READ" \in fcb[d].mode
  /\ fcb' = [fcb EXCEPT ![d].read = TRUE]
  /\ lpos' = fcb[d].pos /\ lsize' = fcb[d].size /\ todo' = n
  /\ Call("read", d, "read")
  /\ UNCHANGED <<fat, disk, hint, valid, at, held, hist>>

(* A cluster is left behind at its end, but not at the end of the file. *)
ReadSector ==
  /\ pc = "read" /\ todo > 0 /\ lpos < lsize
  /\ fcb[cur].cluster \in Cluster
  /\ lpos' = lpos + 1 /\ todo' = todo - 1
  /\ LET f == fcb[cur]
         c == fat[f.cluster]
     IN fcb' = IF lpos' % PerCluster = 0 /\ lpos' < lsize
                 THEN [fcb EXCEPT ![cur].cluster = c,
                                  ![cur].last = IF c = LAST THEN f.cluster ELSE @]
                 ELSE fcb
  /\ UNCHANGED <<fat, disk, hint, valid, pc, op, cur, lsize, at, held, hist>>

EndRead ==
  /\ pc = "read" /\ (todo = 0 \/ lpos = lsize)
  /\ fcb' = [fcb EXCEPT ![cur].pos = lpos]
  /\ Return /\ todo' = 0 /\ lpos' = 0 /\ lsize' = 0
  /\ UNCHANGED <<fat, disk, hint, valid, at, held, hist>>

Seek(d, off) ==
  /\ Allowed(None) /\ d \in held
  /\ off <= fcb[d].size                    \* EINVAL
  /\ fcb' = [fcb EXCEPT ![d] = SeekTo(fcb[d], off)]
  /\ UNCHANGED <<fat, disk, hint, valid, pc, op, cur, local, held, hist>>

-----------------------------------------------------------------------------
(* write *)

(* rdcf_write calls rdcf_close when nothing was written. *)
GiveUp(d) ==
  /\ bad' = d
  /\ IF "WRITTEN" \in fcb'[d].mode THEN Call("give_up", d, "dir") ELSE Return
  /\ todo' = 0 /\ lpos' = 0 /\ lsize' = 0

BeginWrite(d, n) ==
  /\ Allowed(None) /\ d \in held /\ ("SeekBetween" \in Rules => ~fcb[d].read)
  /\ IF "WRITE" \notin fcb[d].mode               \* EBADF
       THEN UNCHANGED fcb /\ GiveUp(d)
       ELSE LET f == IF "APPEND" \in fcb[d].mode THEN SeekTo(fcb[d], fcb[d].size)
                     ELSE fcb[d]
            IN /\ fcb' = [fcb EXCEPT ![d] = f]
               /\ lpos' = f.pos /\ lsize' = f.size /\ todo' = n
               /\ Call("write", d, "write")
               /\ UNCHANGED bad
  /\ UNCHANGED <<fat, disk, hint, valid, at, held, hurt, torn>>

NeedsCluster == fcb[cur].cluster \in {EMPTY, LAST}

Allocates == pc = "write" /\ todo > 0 /\ NeedsCluster /\ Free # {}

(* The search for a free cluster comes to another FAT sector than that in    *)
(* the buffer, which is written then.                                        *)
Leaves == \E x \in Unwritten, h \in hint..Min(Free) : SectorOf(h) # SectorOf(x)
LeaveSector ==
  /\ Allocates /\ Leaves
  /\ card' = fat /\ loose' = EMPTY
  /\ UNCHANGED <<fat, dir, hint, valid, fcb, pc, op, cur, local, held, hist>>

(* add_new_cluster makes the tail lead to c, then c the end of the chain; if *)
(* they are in two FAT sectors the first of them is written between.         *)
TwoSectors(tail, c) == tail # EMPTY /\ SectorOf(tail) # SectorOf(c)
Allocate ==
  /\ Allocates /\ ~Leaves
  /\ LET c == Min(Free)
         tail == fcb[cur].last
     IN /\ fat' = Linked(fat, tail, c)
        /\ IF TwoSectors(tail, c)
             THEN card' = [card EXCEPT ![tail] = c] /\ loose' = c
             ELSE UNCHANGED <<card, loose>>
        /\ hint' = c + 1
        /\ fcb' = [fcb EXCEPT ![cur].cluster = c, ![cur].last = c,
                              ![cur].first = IF @ = EMPTY THEN c ELSE @]
  /\ UNCHANGED <<dir, valid, pc, op, cur, local, held, hist>>

WriteSector ==
  /\ pc = "write" /\ todo > 0 /\ fcb[cur].cluster \in Cluster
  /\ lpos' = lpos + 1 /\ todo' = todo - 1
  /\ lsize' = IF lpos' > lsize THEN lpos' ELSE lsize
  /\ LET f == fcb[cur]
         c == fat[f.cluster]
     IN fcb' = IF lpos' % PerCluster = 0
                 THEN [fcb EXCEPT ![cur].cluster = c,
                                  ![cur].last = IF c = LAST THEN f.cluster ELSE @]
                 ELSE fcb
  /\ UNCHANGED <<fat, disk, hint, valid, pc, op, cur, at, held, hist>>

-----------------------------------------------------------------------------
(* unlink, rename and close *)

Unlink(n) ==
  /\ Allowed(None) /\ Unopened(n)
  /\ \E s \in Find(n) :                    \* ENOENT
       /\ Release(dir[s].first)
       /\ fcb' = [fcb EXCEPT ![TMP] = Fcb(n, s, "r", dir[s])]
  /\ Call("unlink", TMP, "flush")
  /\ UNCHANGED <<disk, hint, valid, todo, lpos, lsize, held, hist>>

Rename(n, new) ==
  /\ Allowed(None) /\ Unopened(n)
  /\ Find(new) = {}                        \* ENOENT
  /\ \E s \in Find(n) : fcb' = [fcb EXCEPT ![TMP] = Fcb(new, s, "r", dir[s])]
  /\ Call("rename", TMP, "dir")
  /\ UNCHANGED <<fat, disk, hint, valid, local, held, hist>>

Close(d) ==
  /\ (Allowed(d) \/ Allowed(None)) /\ d \in held
  /\ held' = held \ {d}
  /\ IF "WRITTEN" \in fcb[d].mode
       THEN Call("close", d, "dir") /\ UNCHANGED <<fcb, bad>>
       ELSE /\ fcb' = [fcb EXCEPT ![d] = NoFile]
            /\ bad' = None
            /\ UNCHANGED <<pc, op, cur>>
  /\ UNCHANGED <<fat, disk, hint, valid, local, hurt, torn>>

(* mmc_close on a drive found invalid returns before it frees the FCB, which *)
(* no descriptor names any more: what it holds is forgotten.  The other      *)
(* calls change nothing then.                                                *)
CloseLost(d) ==
  /\ pc = "idle" /\ ~valid /\ d \in held
  /\ "CloseFirst" \in Rules => bad \in {d, None}
  /\ held' = held \ {d}
  /\ fcb' = [fcb EXCEPT ![d] = Taken]
  /\ bad' = None
  /\ UNCHANGED <<fat, disk, hint, valid, pc, op, cur, local, hurt, torn>>

-----------------------------------------------------------------------------
(* Sectors of the FAT and the directory reach the card. *)

(* A release has come to the end of a FAT sector, and there is more to free. *)
ReleaseSector ==
  /\ pc \in {"flush", "rest"} /\ ~(Unwritten \subseteq Run(card, at))
  /\ card' = [x \in Cluster |-> IF x \in Run(card, at) THEN fat[x] ELSE card[x]]
  /\ hint' = Lowered(Run(card, at))
  /\ at' = Nth(card, at, Cardinality(Run(card, at)))
  /\ pc' = "rest"
  /\ UNCHANGED <<fat, dir, loose, valid, fcb, op, cur, todo, lpos, lsize, held, hist>>

(* The end of a release; in rdcf_write, all is written or the card is full.  *)
AtFlush ==
  \/ pc \in {"flush", "rest"} /\ Unwritten \subseteq Run(card, at)
  \/ pc = "write" /\ (todo = 0 \/ (NeedsCluster /\ Free = {}))

(* flush_buffer with a FAT sector in the buffer; the second FAT gets the     *)
(* same.                                                                     *)
FlushStep(written) ==
  /\ AtFlush
  /\ card' = written /\ loose' = EMPTY /\ at' = EMPTY
  /\ IF op = "write"
       THEN /\ fcb' = [fcb EXCEPT ![cur].pos = lpos, ![cur].size = lsize,
                                  ![cur].mode = @ \cup {"WRITTEN"}]
            /\ IF lpos = fcb[cur].pos
                 THEN GiveUp(cur)
                 ELSE /\ Return /\ todo' = 0 /\ lpos' = 0 /\ lsize' = 0
                      /\ UNCHANGED bad
            /\ UNCHANGED hint
       ELSE /\ pc' = "dir" /\ hint' = Lowered(Run(card, at))
            /\ UNCHANGED <<fcb, op, cur, todo, lpos, lsize, bad>>
  /\ UNCHANGED <<fat, dir, valid, held, hurt, torn>>

FlushLoses == FlushStep(card)     \* mutant: the buffer is not written

Flush == FlushStep(fat)

(* The FCB when the call has returned.  After rdcf_write gave up it stays.   *)
Done(d) ==
  IF op = "open" THEN fcb' = [fcb EXCEPT ![d].mode = @ \cup {"WRITTEN"}]
  ELSE IF op = "give_up" THEN UNCHANGED fcb
  ELSE fcb' = [fcb EXCEPT ![d] = NoFile]

(* update_directory_entry: a file that has no sectors is deleted when it is  *)
(* closed.                                                                   *)
DirWrite ==
  /\ pc = "dir"
  /\ LET f == fcb[cur]
         gone == op = "unlink" \/ (op \in {"close", "give_up"} /\ f.size = 0)
     IN dir' = [dir EXCEPT ![f.slot] =
                  IF gone THEN NoEntry
                  ELSE [live |-> TRUE, name |-> f.name, first |-> f.first, size |-> f.size]]
  /\ Done(cur) /\ Return
  /\ bad' = IF op = "close" THEN None ELSE bad
  /\ UNCHANGED <<fat, card, loose, hint, valid, local, held, hurt, torn>>

-----------------------------------------------------------------------------
(* Failures. *)

(* The entry on the card still names clusters that its release gave back.    *)
Releasing ==
  /\ pc \in {"rest", "dir"} /\ op \in {"open", "unlink"}
  /\ dir[fcb[cur].slot].live

(* The card refuses a transfer: the call returns an error, what its buffer   *)
(* held is dropped, and the drive may have been found invalid.               *)
Refused ==
  /\ Faulty /\ ~hurt /\ pc # "idle"
  /\ \E v \in {valid, FALSE} : valid' = v
  /\ loose' = EMPTY /\ at' = EMPTY
  /\ hurt' = TRUE
  /\ UNCHANGED dir

(* A call that only reads, as open and lseek begin, fails and changes        *)
(* nothing else.                                                             *)
RefuseLookup ==
  /\ Faulty /\ ~hurt /\ Allowed(None)
  /\ valid' = FALSE /\ hurt' = TRUE
  /\ bad' \in {None} \cup held
  /\ UNCHANGED <<fat, disk, hint, fcb, pc, op, cur, local, held, torn>>

(* In a read, a write or a give-up, the FCB is kept; in the others not.  An  *)
(* appending write has lost its way out to rdcf_seek's setjmp, and where it  *)
(* then returns to is undefined: it is left out.                             *)
RefuseKept ==
  /\ Refused /\ op \in {"read", "write", "give_up"}
  /\ op = "write" => "APPEND" \notin fcb[cur].mode
  /\ \/ card' = card /\ torn' = (torn \/ loose # EMPTY)
     \/ AtFlush /\ card' = fat /\ UNCHANGED torn     \* in the second FAT
     \/ /\ Allocates /\ ~Leaves /\ TwoSectors(fcb[cur].last, Min(Free))
        /\ card' = [card EXCEPT ![fcb[cur].last] = Min(Free)] /\ torn' = TRUE
  /\ fat' = card' /\ UNCHANGED <<hint, fcb, held>>
  /\ IF op = "write" THEN GiveUp(cur)
     ELSE bad' = cur /\ Return /\ todo' = 0 /\ lpos' = 0 /\ lsize' = 0

RefuseDropped ==
  /\ Refused /\ op \in {"open", "unlink", "rename", "close"}
  /\ fat' = card /\ UNCHANGED card
  /\ hint' \in {hint} \cup (IF pc \in {"flush", "rest"} THEN {Lowered(Run(card, at))} ELSE {})
  /\ fcb' = [fcb EXCEPT ![cur] = NoFile]
  /\ held' = held \ {cur}
  /\ torn' = (torn \/ Releasing)
  /\ bad' = (IF op = "close" THEN None ELSE bad)
  /\ Return
  /\ UNCHANGED <<todo, lpos, lsize>>

(* _cc3_mmc_init finds the card again. *)
Reinit ==
  /\ pc = "idle" /\ ~valid
  /\ valid' = TRUE /\ hint' = 2
  /\ UNCHANGED <<fat, disk, fcb, pc, op, cur, local, held, hist>>

PowerFails ==
  /\ Faulty /\ ~hurt
  /\ fat' = card
  /\ hint' = 2 /\ valid' = TRUE
  /\ fcb' = [d \in Fds \cup {TMP} |-> NoFile]
  /\ Return /\ todo' = 0 /\ lpos' = 0 /\ lsize' = 0 /\ at' = EMPTY
  /\ held' = {} /\ bad' = None /\ hurt' = TRUE
  /\ loose' = EMPTY /\ torn' = (torn \/ Releasing \/ loose # EMPTY)
  /\ UNCHANGED <<card, dir>>

(* A card with a link or a release torn is taken out and formatted. *)
NewCard ==
  /\ pc = "idle" /\ torn
  /\ fat' = [c \in Cluster |-> EMPTY] /\ card' = fat'
  /\ dir' = [s \in Slots |-> NoEntry]
  /\ hint' = 2 /\ valid' = TRUE
  /\ fcb' = [d \in Fds \cup {TMP} |-> NoFile]
  /\ held' = {} /\ bad' = None /\ hurt' = FALSE /\ torn' = FALSE
  /\ UNCHANGED <<pc, op, cur, local, loose>>

Begin ==
  \/ \E n \in Names, m \in OpenModes : OpenFile(n, m)
  \/ OpenRefused
  \/ \E d \in Fds, n \in Counts : BeginRead(d, n) \/ BeginWrite(d, n)
  \/ \E d \in Fds : \E off \in 0..fcb[d].size : Seek(d, off)
  \/ \E d \in Fds : Close(d) \/ CloseLost(d)
  \/ \E n \in Names : Unlink(n)
  \/ \E n, new \in Names : Rename(n, new)

Work == ReadSector \/ EndRead \/ LeaveSector \/ Allocate \/ WriteSector
          \/ ReleaseSector \/ Flush \/ DirWrite

Failure == RefuseLookup \/ RefuseKept \/ RefuseDropped \/ PowerFails

Next == Begin \/ Work \/ Failure \/ Reinit \/ NewCard

Spec == Init /\ [][Next]_vars

-----------------------------------------------------------------------------
(* Properties. *)

File == [name : Names \cup {"none"}, slot : Slots \cup {0}, first : 0..LAST,
         size : Nat, mode : SUBSET {"READ", "WRITE", "APPEND", "WRITTEN"},
         pos : Nat, cluster : 0..LAST, last : 0..LAST, read : BOOLEAN]
Entry == [live : BOOLEAN, name : Names \cup {"none"}, first : 0..LAST, size : Nat]

TypeOK ==
  /\ fat \in [Cluster -> 0..LAST] /\ card \in [Cluster -> 0..LAST]
  /\ dir \in [Slots -> Entry]
  /\ hint \in 2..LAST /\ valid \in BOOLEAN
  /\ fcb \in [Fds \cup {TMP} -> File]
  /\ pc \in {"idle", "read", "write", "flush", "rest", "dir"}
  /\ op \in {"none", "open", "read", "write", "give_up", "close", "unlink", "rename"}
  /\ cur \in Fds \cup {TMP}
  /\ todo \in Nat /\ lpos \in Nat /\ lsize \in Nat /\ at \in 0..LAST
  /\ loose \in {EMPTY} \cup Cluster
  /\ held \in SUBSET Fds /\ bad \in Fds \cup {None} /\ hurt \in BOOLEAN /\ torn \in BOOLEAN

(* A file of that many sectors has its clusters in the FAT t, and its chain  *)
(* ends.                                                                     *)
Reaches(t, first, size) ==
  \A k \in 0..ClustersOf(size) - 1 : Nth(t, first, k) \in Cluster
Ended(t, first) == first # EMPTY => \E k \in 1..MaxCluster : Nth(t, first, k) = LAST
Whole(t, first, size) ==
  /\ first = EMPTY => size = 0
  /\ Ended(t, first)
  /\ Reaches(t, first, size)

(* Whenever power fails, the files in the directory have their clusters and  *)
(* are apart, but for a release that has reached the card in part; and their *)
(* chains end, but for a link of which the card has one FAT sector of two.   *)
Live == {s \in Slots : dir[s].live}
CardSound ==
  ~torn /\ ~Releasing =>
    /\ \A s \in Live : Reaches(card, dir[s].first, dir[s].size)
    /\ \A s, r \in Live :
         s < r => Chain(card, dir[s].first) \cap Chain(card, dir[r].first) = {}
    /\ loose = EMPTY => \A s \in Live : Ended(card, dir[s].first)

(* Between calls every descriptor of the program has its control block, and   *)
(* as long as nothing failed no other block is taken; what a descriptor goes *)
(* on with is whole and apart from every other file.                         *)
Good == {d \in held : bad # d}
Kept == Live \cup {fcb[d].slot : d \in held}
Clusters(s) ==
  (IF s \in Live THEN Chain(fat, dir[s].first) ELSE {})
    \cup UNION {Chain(fat, fcb[d].first) : d \in Holders(s)}
OpenSound ==
  pc = "idle" /\ ~torn =>
    /\ \A d \in Fds : IF hurt THEN d \in held => Open(d) ELSE d \in held <=> Open(d)
    /\ \A d \in Good :
         /\ Whole(fat, fcb[d].first, fcb[d].size)
         /\ \A s \in Kept \ {fcb[d].slot} :
              Chain(fat, fcb[d].first) \cap Clusters(s) = {}

(* The sector a read or a write is about to transfer is that of its position *)
(* in the file, whatever calls moved the position there; a cluster is added  *)
(* at the end of the chain only.                                             *)
SectorOfPosition ==
  pc \in {"read", "write"} /\ todo > 0 /\ ~torn /\ (pc = "read" => lpos < lsize)
    => LET f == fcb[cur]
       IN /\ f.cluster = Nth(fat, f.first, lpos \div PerCluster)
          /\ pc = "read" => f.cluster \in Cluster
          /\ f.cluster = LAST => f.last \in Chain(fat, f.first) /\ fat[f.last] = LAST

(* "Ensures no dangling FAT chains": every cluster in use belongs to a file, *)
(* as long as power and card did not fail.                                   *)
NoDanglingChains ==
  pc = "idle" /\ ~hurt =>
    \A c \in Cluster : fat[c] # EMPTY => \E s \in Kept : c \in Clusters(s)

(* A write ends short only when the card is full: the hint hides no cluster. *)
FullIsFull ==
  pc = "write" /\ NeedsCluster /\ Free = {} /\ ~hurt
    => \A c \in Cluster : fat[c] # EMPTY

(* What a write has changed and not written fits the one buffer. *)
OneBuffer == pc = "write" => \A x, y \in Unwritten : SectorOf(x) = SectorOf(y)

(* The FAT accounts for the clusters, whatever files were made, cut, renamed *)
(* or deleted: none is lost, none that is free is hidden, and no change that *)
(* is still to be written is out of the buffer.                              *)
ClustersAccounted == TypeOK /\ NoDanglingChains /\ FullIsFull /\ OneBuffer
=============================================================================
