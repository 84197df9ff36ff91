----------------------------- MODULE RdcfProofs -----------------------------
(***************************************************************************)
(* Proofs about Rdcf: for every card and every program the types, and that *)
(* the hint from which rdcf_write looks for a free cluster hides none; for *)
(* every program that keeps the rules (Disciplined), whatever fails, that  *)
(* the chains of the files are whole and apart, on the card and in the     *)
(* buffer, that a transfer is of the sector of its position, and that no   *)
(* cluster is lost.                                                        *)
(*                                                                         *)
(* Walks along a chain are recursive; what holds of them is proved by      *)
(* their least counterexample.  A chain that ends does so within the card, *)
(* once and without a cluster twice; the rest follows from that and from   *)
(* the claims below (ChainInv), one lemma for each action.                 *)
(***************************************************************************)
EXTENDS Rdcf, FiniteSetTheorems, TLAPS

LEMMA Least ==
  ASSUME NEW S \in SUBSET Nat, S # {}
  PROVE  \E m \in S : \A n \in S : m <= n
<1> DEFINE R == OpToRel(<, Nat)
<1>1. IsWellFoundedOn(R, Nat)
  BY NatLessThanWellFounded
<1>2. \A x, y \in Nat : <<x, y>> \in R <=> x < y
  BY DEF OpToRel
<1> HIDE DEF R
<1>3. \E m \in S : \A n \in S : ~(<<n, m>> \in R)
  BY <1>1, WFMin
<1>4. PICK m \in S : \A n \in S : ~(<<n, m>> \in R)
  BY <1>3
<1>5. ASSUME NEW n \in S
      PROVE  m <= n
  <2>1. n \in Nat /\ m \in Nat
    OBVIOUS
  <2>2. ~(n < m)
    BY <1>2, <1>4, <2>1, Zenon
  <2>3. QED
    BY <2>1, <2>2
<1>6. QED
  BY <1>5

LEMMA MinIs ==
  ASSUME NEW S \in SUBSET Nat, S # {}
  PROVE  Min(S) \in S /\ \A n \in S : Min(S) <= n
BY Least DEF Min

-----------------------------------------------------------------------------
(* Walks. *)

After(t, x) == IF x \in Cluster THEN t[x] ELSE EMPTY
IsWalk(t, c, k, f) == f = [i \in 0..k |-> IF i = 0 THEN c ELSE After(t, f[i - 1])]

LEMMA WalkExists ==
  ASSUME NEW t, NEW c, NEW k \in Nat
  PROVE  \E f : IsWalk(t, c, k, f)
<1> DEFINE S == {n \in Nat : ~\E f : IsWalk(t, c, n, f)}
<1>1. SUFFICES ASSUME S # {} PROVE FALSE
  OBVIOUS
<1>2. PICK m \in S : \A n \in S : m <= n
  BY <1>1, Least
<1>3. CASE m = 0
  <2>1. IsWalk(t, c, 0, [i \in 0..0 |-> c])
    BY DEF IsWalk
  <2>2. QED
    BY <1>3, <2>1
<1>4. CASE m > 0
  <2>1. m - 1 \in Nat /\ m - 1 \notin S
    BY <1>2, <1>4
  <2>2. PICK f : IsWalk(t, c, m - 1, f)
    BY <2>1
  <2> DEFINE g == [i \in 0..m |-> IF i < m THEN f[i] ELSE After(t, f[m - 1])]
  <2>3. IsWalk(t, c, m, g)
    <3>1. \A i \in 0..m - 1 : f[i] = IF i = 0 THEN c ELSE After(t, f[i - 1])
      BY <2>2 DEF IsWalk
    <3>2. ASSUME NEW i \in 0..m
          PROVE  g[i] = IF i = 0 THEN c ELSE After(t, g[i - 1])
      <4>1. CASE i = m
        BY <1>4, <4>1
      <4>2. CASE i < m
        <5>1. g[i] = f[i] /\ (i # 0 => g[i - 1] = f[i - 1])
          BY <4>2
        <5>2. QED
          BY <2>1, <3>1, <4>2, <5>1
      <4>3. QED
        BY <4>1, <4>2
    <3>3. QED
      BY <3>2 DEF IsWalk
  <2>4. QED
    BY <2>3
<1>5. QED
  BY <1>2, <1>3, <1>4

LEMMA WalksAgree ==
  ASSUME NEW t, NEW c, NEW k \in Nat, NEW j \in Nat, NEW f, NEW g,
         IsWalk(t, c, k, f), IsWalk(t, c, j, g), NEW i \in Nat, i <= k, i <= j
  PROVE  f[i] = g[i]
<1> DEFINE S == {n \in Nat : n <= k /\ n <= j /\ f[n] # g[n]}
<1>1. SUFFICES ASSUME S # {} PROVE FALSE
  OBVIOUS
<1>2. PICK m \in S : \A n \in S : m <= n
  BY <1>1, Least
<1>3. f[m] = (IF m = 0 THEN c ELSE After(t, f[m - 1])) /\ g[m] = IF m = 0 THEN c ELSE After(t, g[m - 1])
  BY <1>2 DEF IsWalk
<1>4. m # 0 => f[m - 1] = g[m - 1]
  BY <1>2
<1>5. QED
  BY <1>2, <1>3, <1>4

LEMMA NthIsWalk ==
  ASSUME NEW t, NEW c, NEW k \in Nat
  PROVE  \E f : IsWalk(t, c, k, f) /\ Nth(t, c, k) = f[k]
<1> DEFINE f == CHOOSE f : f = [i \in 0..k |-> IF i = 0 THEN c ELSE
                                  IF f[i-1] \in Cluster THEN t[f[i-1]] ELSE EMPTY]
<1>1. IsWalk(t, c, k, f)
  BY WalkExists DEF IsWalk, After
<1>2. Nth(t, c, k) = f[k]
  BY DEF Nth
<1>3. QED
  BY <1>1, <1>2

LEMMA NthIs ==
  ASSUME NEW t, NEW c, NEW k \in Nat
  PROVE  Nth(t, c, 0) = c /\ Nth(t, c, k + 1) = After(t, Nth(t, c, k))
<1>1. Nth(t, c, 0) = c
  <2>1. PICK f : IsWalk(t, c, 0, f) /\ Nth(t, c, 0) = f[0]
    BY NthIsWalk
  <2>2. QED
    BY <2>1 DEF IsWalk
<1>2. PICK f : IsWalk(t, c, k, f) /\ Nth(t, c, k) = f[k]
  BY NthIsWalk
<1>3. PICK g : IsWalk(t, c, k + 1, g) /\ Nth(t, c, k + 1) = g[k + 1]
  BY NthIsWalk
<1>4. g[k + 1] = After(t, g[k])
  BY <1>3 DEF IsWalk
<1>5. f[k] = g[k]
  BY <1>2, <1>3, WalksAgree
<1>6. QED
  BY <1>1, <1>2, <1>3, <1>4, <1>5

Marks == 0..LAST

LEMMA MarksAre ==
  /\ EMPTY \notin Cluster /\ LAST \notin Cluster /\ EMPTY # LAST
  /\ Marks = Cluster \cup {EMPTY, 1, LAST} /\ EMPTY \in Marks /\ LAST \in Marks
BY RdcfAssumption DEF EMPTY, LAST, Cluster, Marks

LEMMA NthTyped ==
  ASSUME NEW t \in [Cluster -> Marks], NEW c \in Marks, NEW k \in Nat
  PROVE  Nth(t, c, k) \in Marks
<1> DEFINE S == {n \in Nat : Nth(t, c, n) \notin Marks}
<1>1. SUFFICES ASSUME S # {} PROVE FALSE
  OBVIOUS
<1>2. PICK m \in S : \A n \in S : m <= n
  BY <1>1, Least
<1>3. CASE m = 0
  BY <1>2, <1>3, NthIs
<1>4. CASE m > 0
  <2>1. m - 1 \in Nat /\ Nth(t, c, m - 1) \in Marks
    BY <1>2, <1>4
  <2>2. Nth(t, c, (m - 1) + 1) = After(t, Nth(t, c, m - 1))
    BY <2>1, NthIs
  <2>3. (m - 1) + 1 = m
    BY <1>2
  <2>4. Nth(t, c, m) \in Marks
    BY <2>1, <2>2, <2>3, RdcfAssumption DEF After, Marks, EMPTY, LAST
  <2>5. QED
    BY <1>2, <2>4
<1>5. QED
  BY <1>2, <1>3, <1>4

LEMMA ChainIsClusters ==
  ASSUME NEW t, NEW c
  PROVE  Chain(t, c) \subseteq Cluster
BY DEF Chain

-----------------------------------------------------------------------------
(* The inductive invariant. *)

CallInv ==
  /\ op \in {"open", "read", "write", "give_up", "close"} => cur \in Fds
  /\ pc = "write" <=> op = "write"
HintInv ==
  ~hurt => \A c \in Cluster : c < hint =>
             /\ pc # "write" => card[c] # EMPTY
             /\ pc \notin {"flush", "rest"} => fat[c] # EMPTY
IInv == TypeOK /\ CallInv /\ HintInv

LEMMA Bits ==
  ASSUME NEW m
  PROVE  ModeBits(m) \in SUBSET {"READ", "WRITE", "APPEND", "WRITTEN"}
BY DEF ModeBits

LEMMA NoFileTyped == NoFile \in File /\ NoEntry \in Entry
BY RdcfAssumption DEF NoFile, NoEntry, File, Entry, LAST, EMPTY

LEMMA SeekTyped ==
  ASSUME TypeOK, NEW f \in File, NEW off \in Nat
  PROVE  SeekTo(f, off) \in File
<1> DEFINE k == off \div PerCluster
           c == Nth(fat, f.first, k)
           l == IF k > 0 /\ c = LAST THEN Nth(fat, f.first, k - 1) ELSE f.last
<1>1. k \in Nat
  BY RdcfAssumption
<1>2. fat \in [Cluster -> Marks] /\ f.first \in Marks /\ f.last \in Marks
  BY DEF TypeOK, File, Marks
<1>3. c \in Marks /\ l \in Marks
  <2>1. c \in Marks
    BY <1>1, <1>2, NthTyped
  <2>2. ASSUME k > 0
        PROVE  Nth(fat, f.first, k - 1) \in Marks
    BY <1>1, <1>2, <2>2, NthTyped
  <2> HIDE DEF k
  <2>3. QED
    BY <1>2, <2>1, <2>2
<1> HIDE DEF c, l
<1>4. SeekTo(f, off) = [f EXCEPT !.cluster = c, !.pos = off, !.read = FALSE, !.last = l]
  BY DEF SeekTo, c, l
<1>5. QED
  BY <1>3, <1>4 DEF File, Marks

LEMMA FcbTyped ==
  ASSUME NEW n \in Names, NEW s \in Slots, NEW m, NEW e \in Entry
  PROVE  Fcb(n, s, m, e) \in File
BY NoFileTyped, Bits DEF Fcb, File, Entry

LEMMA ReleaseEffect ==
  ASSUME IInv, NEW c \in Marks, Release(c)
  PROVE  fat' \in [Cluster -> 0..LAST] /\ at' \in 0..LAST
BY RdcfAssumption DEF Release, IInv, TypeOK, EMPTY, LAST, Marks

(* Begun from rest, a release leaves the card alone. *)
LEMMA ReleaseHint ==
  ASSUME IInv, pc = "idle", UNCHANGED <<card, hint, hurt>>, pc' = "flush"
  PROVE  HintInv'
BY DEF IInv, HintInv

LEMMA RunIs ==
  ASSUME NEW t, NEW c
  PROVE  Run(t, c) \subseteq Cluster /\ Cardinality(Run(t, c)) \in Nat
<1>1. Run(t, c) \subseteq Cluster
  <2>1. ASSUME NEW x \in Run(t, c)
        PROVE  x \in Cluster
    <3>1. PICK k \in 0..MaxCluster :
            /\ x = Nth(t, c, k)
            /\ \A i \in 0..k : Nth(t, c, i) \in Cluster /\ SectorOf(Nth(t, c, i)) = SectorOf(c)
      BY DEF Run
    <3>2. k \in 0..k
      BY <3>1
    <3>3. QED
      BY <3>1, <3>2
  <2>2. QED
    BY <2>1
<1>2. IsFiniteSet(Cluster)
  BY RdcfAssumption, FS_Interval DEF Cluster
<1>3. QED
  BY <1>1, <1>2, FS_Subset, FS_CardinalityType

LEMMA LoweredIs ==
  ASSUME IInv, NEW t, NEW c
  PROVE  /\ Lowered(Run(t, c)) \in 2..LAST
         /\ Lowered(Run(t, c)) <= hint
         /\ \A x \in Run(t, c) : Lowered(Run(t, c)) <= x
<1> DEFINE C == Run(t, c) \cup {hint}
<1>1. C \in SUBSET Nat /\ C # {} /\ C \subseteq 2..LAST
  BY RunIs, RdcfAssumption DEF IInv, TypeOK, Cluster, LAST
<1>2. Min(C) \in C /\ \A x \in C : Min(C) <= x
  BY <1>1, MinIs
<1>3. Lowered(Run(t, c)) = Min(C)
  BY DEF Lowered
<1> HIDE DEF C
<1>4. hint \in C /\ Run(t, c) \subseteq C
  BY DEF C
<1>5. QED
  BY <1>1, <1>2, <1>3, <1>4

LEMMA InitIInv == Init => IInv
<1> SUFFICES ASSUME Init PROVE IInv
  OBVIOUS
<1>1. EMPTY \in 0..LAST /\ 2 \in 2..LAST
  BY RdcfAssumption DEF EMPTY, LAST
<1>2. fat \in [Cluster -> 0..LAST] /\ card \in [Cluster -> 0..LAST]
  BY <1>1 DEF Init
<1>3. dir \in [Slots -> Entry] /\ fcb \in [Fds \cup {TMP} -> File]
  BY NoFileTyped DEF Init
<1>4. HintInv
  BY DEF Init, HintInv, Cluster
<1>5. QED
  BY <1>1, <1>2, <1>3, <1>4 DEF Init, IInv, TypeOK, CallInv

-----------------------------------------------------------------------------
(* Every call begins lawfully. *)

LEMMA SameFat ==
  ASSUME IInv, UNCHANGED <<fat, card, hint, hurt>>,
         pc' = pc \/ pc \notin {"write", "flush", "rest"}
  PROVE  HintInv'
BY DEF IInv, HintInv

LEMMA OpenFileKeeps ==
  ASSUME IInv, NEW n \in Names, NEW m \in OpenModes, OpenFile(n, m)
  PROVE  IInv'
<1> DEFINE B == {b \in Fds : ~Open(b)}
           d == Min(B)
<1>1. d \in Fds
  <2>1. B # {} /\ B \in SUBSET Nat
    BY RdcfAssumption DEF OpenFile
  <2>2. QED
    BY <2>1, MinIs
<1> HIDE DEF d
<1>2. /\ UNCHANGED <<card, dir, loose, hint, valid, todo, lpos, lsize, bad, hurt, torn>>
      /\ held' \in SUBSET Fds /\ pc = "idle"
  BY <1>1 DEF OpenFile, disk, hist, Allowed, Idle, IInv, TypeOK, d
<1>3. \A s \in Find(n) : s \in Slots /\ dir[s] \in Entry
  BY DEF Find, IInv, TypeOK
<1>4. CASE \E s \in Find(n) :
             /\ fcb' = [fcb EXCEPT ![d] = IF m = "a" THEN SeekTo(Fcb(n, s, m, dir[s]), Fcb(n, s, m, dir[s]).size)
                                          ELSE Fcb(n, s, m, dir[s])]
             /\ UNCHANGED <<fat, at, pc, op, cur>>
  <2>1. PICK s \in Find(n) :
             /\ fcb' = [fcb EXCEPT ![d] = IF m = "a" THEN SeekTo(Fcb(n, s, m, dir[s]), Fcb(n, s, m, dir[s]).size)
                                          ELSE Fcb(n, s, m, dir[s])]
             /\ UNCHANGED <<fat, at, pc, op, cur>>
    BY <1>4
  <2> DEFINE f == Fcb(n, s, m, dir[s])
  <2>2. f \in File
    BY <1>3, FcbTyped
  <2>3. SeekTo(f, f.size) \in File
    BY <2>2, SeekTyped DEF IInv, File
  <2> HIDE DEF f
  <2>4. fcb' \in [Fds \cup {TMP} -> File]
    BY <1>1, <2>1, <2>2, <2>3 DEF IInv, TypeOK, f
  <2>5. QED
    BY <1>2, <2>1, <2>4, SameFat DEF IInv, TypeOK, CallInv
<1>5. CASE \E s \in Find(n) :
             /\ Release(dir[s].first)
             /\ fcb' = [fcb EXCEPT ![d] = Fcb(n, s, m, NoEntry)]
             /\ Call("open", d, "flush")
  <2>1. PICK s \in Find(n) :
             /\ Release(dir[s].first)
             /\ fcb' = [fcb EXCEPT ![d] = Fcb(n, s, m, NoEntry)]
             /\ Call("open", d, "flush")
    BY <1>5
  <2>2. fcb' \in [Fds \cup {TMP} -> File]
    BY <1>3, <2>1, FcbTyped, NoFileTyped DEF IInv, TypeOK
  <2>3. fat' \in [Cluster -> 0..LAST] /\ at' \in 0..LAST /\ HintInv'
    <3>1. dir[s].first \in Marks /\ pc' = "flush"
      BY <1>3, <2>1 DEF Entry, Marks, Call
    <3>2. QED
      BY <1>2, <2>1, <3>1, ReleaseEffect, ReleaseHint
  <2>4. QED
    BY <1>1, <1>2, <2>1, <2>2, <2>3 DEF IInv, TypeOK, CallInv, Call
<1>6. CASE /\ Vacant # {}
           /\ fcb' = [fcb EXCEPT ![d] = Fcb(n, Min(Vacant), m, NoEntry)]
           /\ Call("open", d, "dir")
           /\ UNCHANGED <<fat, at>>
  <2>1. Min(Vacant) \in Slots
    <3>1. Vacant \in SUBSET Nat
      BY RdcfAssumption DEF Vacant
    <3>2. Min(Vacant) \in Vacant
      BY <1>6, <3>1, MinIs
    <3>3. QED
      BY <3>2 DEF Vacant
  <2>2. fcb' \in [Fds \cup {TMP} -> File]
    BY <1>6, <2>1, FcbTyped, NoFileTyped DEF IInv, TypeOK
  <2>3. HintInv'
    BY <1>2, <1>6, SameFat
  <2>4. QED
    BY <1>1, <1>2, <1>6, <2>2, <2>3 DEF IInv, TypeOK, CallInv, Call
<1>7. QED
  BY <1>4, <1>5, <1>6 DEF OpenFile, d

LEMMA BeginReadKeeps ==
  ASSUME IInv, NEW d \in Fds, NEW n \in Counts, BeginRead(d, n)
  PROVE  IInv'
<1>1. fcb[d] \in File /\ n \in Nat
  BY RdcfAssumption DEF IInv, TypeOK
<1>2. fcb' \in [Fds \cup {TMP} -> File]
  BY <1>1 DEF BeginRead, IInv, TypeOK, File
<1>3. HintInv'
  BY SameFat DEF BeginRead, Allowed, Idle, disk, hist
<1>4. QED
  BY <1>1, <1>2, <1>3 DEF BeginRead, IInv, TypeOK, CallInv, Call, disk, hist, File

LEMMA GiveUpEffect ==
  ASSUME NEW d \in Fds, GiveUp(d)
  PROVE  /\ bad' = d /\ cur' \in Fds \cup {TMP} /\ pc' \in {"idle", "dir"}
         /\ op' \in {"none", "give_up"} /\ (op' = "give_up" => cur' \in Fds)
         /\ todo' = 0 /\ lpos' = 0 /\ lsize' = 0
BY DEF GiveUp, Call, Return

LEMMA BeginWriteKeeps ==
  ASSUME IInv, NEW d \in Fds, NEW n \in Counts, BeginWrite(d, n)
  PROVE  IInv'
<1>1. fcb[d] \in File /\ n \in Nat
  BY RdcfAssumption DEF IInv, TypeOK
<1>2. HintInv'
  BY SameFat DEF BeginWrite, Allowed, Idle, disk
<1>3. CASE "WRITE" \notin fcb[d].mode
  BY <1>2, <1>3, GiveUpEffect DEF BeginWrite, IInv, TypeOK, CallInv, disk
<1>4. CASE "WRITE" \in fcb[d].mode
  <2> DEFINE f == IF "APPEND" \in fcb[d].mode THEN SeekTo(fcb[d], fcb[d].size) ELSE fcb[d]
  <2>1. f \in File
    BY <1>1, SeekTyped DEF IInv, File
  <2>2. /\ fcb' = [fcb EXCEPT ![d] = f]
        /\ lpos' = f.pos /\ lsize' = f.size /\ todo' = n
        /\ op' = "write" /\ cur' = d /\ pc' = "write" /\ bad' = bad
        /\ UNCHANGED <<fat, card, dir, loose, hint, valid, at, held, hurt, torn>>
    BY <1>4 DEF BeginWrite, Call, disk
  <2> HIDE DEF f
  <2>3. fcb' \in [Fds \cup {TMP} -> File]
    BY <2>1, <2>2 DEF IInv, TypeOK
  <2>4. lpos' \in Nat /\ lsize' \in Nat
    BY <2>1, <2>2 DEF File
  <2>5. QED
    BY <1>1, <1>2, <2>2, <2>3, <2>4 DEF IInv, TypeOK, CallInv
<1>5. QED
  BY <1>3, <1>4

LEMMA SeekKeeps ==
  ASSUME IInv, NEW d \in Fds, NEW off \in 0..fcb[d].size, Seek(d, off)
  PROVE  IInv'
<1>1. fcb[d] \in File
  BY DEF IInv, TypeOK
<1>2. off \in Nat
  BY <1>1 DEF File
<1>3. SeekTo(fcb[d], off) \in File
  BY <1>1, <1>2, SeekTyped DEF IInv
<1>4. fcb' \in [Fds \cup {TMP} -> File]
  BY <1>3 DEF Seek, IInv, TypeOK
<1>5. HintInv'
  BY SameFat DEF Seek, Allowed, Idle, disk, hist
<1>6. QED
  BY <1>4, <1>5 DEF Seek, IInv, TypeOK, CallInv, disk, local, hist

LEMMA CloseKeeps ==
  ASSUME IInv, NEW d \in Fds, Close(d)
  PROVE  IInv'
<1>1. HintInv'
  BY SameFat DEF Close, Allowed, Idle, disk
<1>2. fcb' \in [Fds \cup {TMP} -> File]
  BY NoFileTyped DEF Close, IInv, TypeOK
<1>3. bad' \in Fds \cup {None}
  BY DEF Close, IInv, TypeOK
<1>4. /\ pc' \in {"idle", "read", "write", "flush", "rest", "dir"}
      /\ op' \in {"none", "open", "read", "write", "give_up", "close", "unlink", "rename"}
      /\ cur' \in Fds \cup {TMP} /\ CallInv'
  BY DEF Close, IInv, TypeOK, CallInv, Call
<1>5. QED
  BY <1>1, <1>2, <1>3, <1>4 DEF Close, IInv, TypeOK, disk, local

LEMMA CloseLostKeeps ==
  ASSUME IInv, NEW d \in Fds, CloseLost(d)
  PROVE  IInv'
<1>1. HintInv'
  BY SameFat DEF CloseLost, disk
<1>2. Taken \in File
  BY NoFileTyped DEF Taken, File
<1>3. fcb' \in [Fds \cup {TMP} -> File]
  BY <1>2 DEF CloseLost, IInv, TypeOK
<1>4. QED
  BY <1>1, <1>3 DEF CloseLost, IInv, TypeOK, CallInv, disk, local

LEMMA UnlinkKeeps ==
  ASSUME IInv, NEW n \in Names, Unlink(n)
  PROVE  IInv'
<1>1. PICK s \in Find(n) :
        /\ Release(dir[s].first)
        /\ fcb' = [fcb EXCEPT ![TMP] = Fcb(n, s, "r", dir[s])]
  BY DEF Unlink
<1>2. s \in Slots /\ dir[s] \in Entry
  BY DEF Find, IInv, TypeOK
<1>3. Fcb(n, s, "r", dir[s]) \in File
  BY <1>2, FcbTyped
<1>4. fcb' \in [Fds \cup {TMP} -> File]
  BY <1>1, <1>3 DEF IInv, TypeOK
<1>5. fat' \in [Cluster -> 0..LAST] /\ at' \in 0..LAST
  BY <1>1, <1>2, ReleaseEffect DEF Entry, Marks
<1>6. HintInv'
  BY ReleaseHint DEF Unlink, Allowed, Idle, Call, disk, hist
<1>7. QED
  BY <1>4, <1>5, <1>6 DEF Unlink, IInv, TypeOK, CallInv, Call, disk, local, hist

LEMMA RenameKeeps ==
  ASSUME IInv, NEW n \in Names, NEW new \in Names, Rename(n, new)
  PROVE  IInv'
<1>1. PICK s \in Find(n) : fcb' = [fcb EXCEPT ![TMP] = Fcb(new, s, "r", dir[s])]
  BY DEF Rename
<1>2. s \in Slots /\ dir[s] \in Entry
  BY DEF Find, IInv, TypeOK
<1>3. Fcb(new, s, "r", dir[s]) \in File
  BY <1>2, FcbTyped
<1>4. fcb' \in [Fds \cup {TMP} -> File]
  BY <1>1, <1>3 DEF IInv, TypeOK
<1>5. HintInv'
  BY SameFat DEF Rename, Allowed, Idle, disk, hist
<1>6. QED
  BY <1>4, <1>5 DEF Rename, IInv, TypeOK, CallInv, Call, disk, local, hist

-----------------------------------------------------------------------------
(* Sectors and clusters. *)

LEMMA AfterTyped ==
  ASSUME IInv, NEW f \in File, f.cluster \in Cluster
  PROVE  /\ fat[f.cluster] \in 0..LAST /\ f.cluster \in 0..LAST
         /\ (IF fat[f.cluster] = LAST THEN f.cluster ELSE f.last) \in 0..LAST
BY DEF IInv, TypeOK, File

LEMMA ReadSectorKeeps ==
  ASSUME IInv, ReadSector
  PROVE  IInv'
<1>1. fcb[cur] \in File /\ cur \in Fds \cup {TMP}
  BY DEF IInv, TypeOK
<1> DEFINE f == fcb[cur]
           l == IF fat[f.cluster] = LAST THEN f.cluster ELSE f.last
<1>2. fcb' = fcb \/ fcb' = [fcb EXCEPT ![cur].cluster = fat[f.cluster], ![cur].last = l]
  BY DEF ReadSector
<1>3. fat[f.cluster] \in 0..LAST /\ l \in 0..LAST
  BY <1>1, AfterTyped DEF ReadSector
<1> HIDE DEF l
<1>4. fcb' \in [Fds \cup {TMP} -> File]
  BY <1>1, <1>2, <1>3 DEF IInv, TypeOK, File
<1>5. lpos' \in Nat /\ todo' \in Nat
  BY DEF ReadSector, IInv, TypeOK
<1>6. HintInv'
  BY SameFat DEF ReadSector, disk, hist
<1>7. QED
  BY <1>4, <1>5, <1>6 DEF ReadSector, IInv, TypeOK, CallInv, disk, hist

LEMMA WriteSectorKeeps ==
  ASSUME IInv, WriteSector
  PROVE  IInv'
<1>1. fcb[cur] \in File /\ cur \in Fds \cup {TMP}
  BY DEF IInv, TypeOK
<1> DEFINE f == fcb[cur]
           l == IF fat[f.cluster] = LAST THEN f.cluster ELSE f.last
<1>2. fcb' = fcb \/ fcb' = [fcb EXCEPT ![cur].cluster = fat[f.cluster], ![cur].last = l]
  BY DEF WriteSector
<1>3. fat[f.cluster] \in 0..LAST /\ l \in 0..LAST
  BY <1>1, AfterTyped DEF WriteSector
<1> HIDE DEF l
<1>4. fcb' \in [Fds \cup {TMP} -> File]
  BY <1>1, <1>2, <1>3 DEF IInv, TypeOK, File
<1>5. lpos' \in Nat /\ todo' \in Nat /\ lsize' \in Nat
  BY DEF WriteSector, IInv, TypeOK
<1>6. HintInv'
  BY SameFat DEF WriteSector, disk, hist
<1>7. QED
  BY <1>4, <1>5, <1>6 DEF WriteSector, IInv, TypeOK, CallInv, disk, hist

LEMMA EndReadKeeps ==
  ASSUME IInv, EndRead
  PROVE  IInv'
<1>1. fcb' \in [Fds \cup {TMP} -> File]
  BY DEF EndRead, IInv, TypeOK, File
<1>2. HintInv'
  BY SameFat DEF EndRead, disk, hist
<1>3. QED
  BY <1>1, <1>2 DEF EndRead, IInv, TypeOK, CallInv, Return, disk, hist

LEMMA LeaveSectorKeeps ==
  ASSUME IInv, LeaveSector
  PROVE  IInv'
<1>1. HintInv'
  BY DEF LeaveSector, Allocates, hist, IInv, HintInv
<1>2. QED
  BY <1>1 DEF LeaveSector, local, hist, IInv, TypeOK, CallInv

(* add_new_cluster takes the first free cluster, so those below the new hint *)
(* are in use.                                                               *)
LEMMA AllocateKeeps ==
  ASSUME IInv, Allocate
  PROVE  IInv'
<1> DEFINE c == Min(Free)
<1>1. c \in Cluster /\ c >= hint /\ \A x \in Free : c <= x
  <2>1. Free # {}
    BY Zenon DEF Allocate, Allocates
  <2>2. Free \in SUBSET Nat
    BY RdcfAssumption DEF Free, Cluster
  <2>3. c \in Free /\ \A x \in Free : c <= x
    BY <2>1, <2>2, MinIs
  <2>4. QED
    BY <2>3 DEF Free
<1>2. /\ fat' = Linked(fat, fcb[cur].last, c) /\ hint' = c + 1
      /\ fcb' = [fcb EXCEPT ![cur].cluster = c, ![cur].last = c,
                            ![cur].first = IF @ = EMPTY THEN c ELSE @]
      /\ UNCHANGED <<dir, valid, pc, op, cur, todo, lpos, lsize, at, held, bad, hurt, torn>>
      /\ pc = "write"
      /\ \/ UNCHANGED <<card, loose>>
         \/ card' = [card EXCEPT ![fcb[cur].last] = c] /\ loose' = c
  BY DEF Allocate, Allocates, local, hist
<1>3. c \in 0..LAST /\ c # EMPTY /\ LAST # EMPTY /\ hint' \in 2..LAST /\ LAST \in 0..LAST
  BY <1>1, <1>2, RdcfAssumption DEF Cluster, LAST, EMPTY
<1> HIDE DEF c
<1>4. fat' \in [Cluster -> 0..LAST]
  BY <1>2, <1>3 DEF Linked, IInv, TypeOK
<1>5. card' \in [Cluster -> 0..LAST] /\ loose' \in {EMPTY} \cup Cluster
  BY <1>1, <1>2, <1>3 DEF IInv, TypeOK
<1>6. fcb' \in [Fds \cup {TMP} -> File]
  <2> DEFINE f == [fcb[cur] EXCEPT !.cluster = c, !.last = c, !.first = IF @ = EMPTY THEN c ELSE @]
  <2>1. fcb[cur] \in File /\ fcb \in [Fds \cup {TMP} -> File]
    BY DEF IInv, TypeOK
  <2>2. f \in File
    BY <1>3, <2>1 DEF File
  <2>3. fcb' = [fcb EXCEPT ![cur] = f]
    BY <1>2
  <2> HIDE DEF f
  <2>4. QED
    BY <2>1, <2>2, <2>3
<1>7. ASSUME ~hurt, NEW x \in Cluster, x < hint'
      PROVE  fat'[x] # EMPTY
  <2>1. CASE x = c \/ x = fcb[cur].last
    BY <1>2, <1>3, <2>1 DEF Linked
  <2>2. CASE x # c /\ x # fcb[cur].last
    <3>1. x < c /\ fat'[x] = fat[x]
      BY <1>1, <1>2, <1>7, <2>2 DEF Linked, Cluster
    <3>2. x \notin Free
      BY <1>1, <3>1 DEF Cluster
    <3>3. x < hint => fat[x] # EMPTY
      BY <1>2, <1>7 DEF IInv, HintInv
    <3>4. hint \in Int /\ x \in Int
      BY DEF IInv, TypeOK, Cluster
    <3>5. QED
      BY <3>1, <3>2, <3>3, <3>4 DEF Free
  <2>3. QED
    BY <2>1, <2>2
<1>8. HintInv'
  BY <1>2, <1>7 DEF HintInv
<1>9. QED
  BY <1>2, <1>3, <1>4, <1>6, <1>8, <1>5 DEF IInv, TypeOK, CallInv

LEMMA ReleaseSectorKeeps ==
  ASSUME IInv, ReleaseSector
  PROVE  IInv'
<1> DEFINE R == Run(card, at)
<1>1. R \subseteq Cluster /\ Cardinality(R) \in Nat
  BY RunIs
<1>2. /\ hint' = Lowered(R) /\ Lowered(R) \in 2..LAST /\ Lowered(R) <= hint
      /\ \A x \in R : Lowered(R) <= x
  BY LoweredIs DEF ReleaseSector
<1>3. /\ card' = [x \in Cluster |-> IF x \in R THEN fat[x] ELSE card[x]]
      /\ pc' = "rest" /\ pc # "write" /\ hurt' = hurt
      /\ UNCHANGED <<fat, dir, loose, valid, fcb, op, cur, todo, lpos, lsize, held, bad, torn>>
  BY DEF ReleaseSector, hist
<1>4. at' \in 0..LAST
  <2>1. at \in Marks /\ card \in [Cluster -> Marks]
    BY DEF IInv, TypeOK, Marks
  <2>2. Nth(card, at, Cardinality(R)) \in Marks
    BY <1>1, <2>1, NthTyped
  <2>3. QED
    BY <2>2 DEF ReleaseSector, Marks
<1> HIDE DEF R
<1>5. ASSUME ~hurt, NEW x \in Cluster, x < hint'
      PROVE  card'[x] # EMPTY
  <2>1. x \notin R /\ x < hint
    BY <1>2, <1>5 DEF Cluster, IInv, TypeOK
  <2>2. card'[x] = card[x]
    BY <1>3, <2>1
  <2>3. QED
    BY <1>3, <1>5, <2>1, <2>2 DEF IInv, HintInv
<1>6. HintInv'
  BY <1>3, <1>5 DEF HintInv
<1>7. card' \in [Cluster -> 0..LAST]
  BY <1>3 DEF IInv, TypeOK
<1>8. QED
  BY <1>2, <1>3, <1>4, <1>6, <1>7 DEF IInv, TypeOK, CallInv

LEMMA FlushKeeps ==
  ASSUME IInv, Flush
  PROVE  IInv'
<1>1. /\ card' = fat /\ card' \in [Cluster -> 0..LAST] /\ loose' = EMPTY /\ at' = EMPTY
      /\ EMPTY \in 0..LAST /\ UNCHANGED <<fat, dir, valid, held, hurt, torn>>
  BY MarksAre DEF Flush, FlushStep, IInv, TypeOK, Marks
<1>2. CASE op = "write"
  <2>1. cur \in Fds /\ hint' = hint
    BY <1>2 DEF IInv, CallInv, Flush, FlushStep
  <2>2. fcb' = [fcb EXCEPT ![cur].pos = lpos, ![cur].size = lsize,
                           ![cur].mode = @ \cup {"WRITTEN"}]
    BY <1>2 DEF Flush, FlushStep
  <2>3. fcb[cur] \in File /\ lpos \in Nat /\ lsize \in Nat
    BY <2>1 DEF IInv, TypeOK
  <2>4. fcb' \in [Fds \cup {TMP} -> File]
    BY <2>1, <2>2, <2>3 DEF IInv, TypeOK, File
  <2>5. \/ GiveUp(cur)
        \/ Return /\ todo' = 0 /\ lpos' = 0 /\ lsize' = 0 /\ UNCHANGED bad
    BY <1>2 DEF Flush, FlushStep
  <2>6. pc' \notin {"flush", "rest"}
    BY <2>5, GiveUpEffect, <2>1 DEF Return
  <2>7. HintInv'
    BY <1>1, <1>2, <2>1, <2>6 DEF IInv, HintInv, CallInv
  <2>8. QED
    BY <1>1, <2>7, <2>1, <2>4, <2>5, GiveUpEffect DEF IInv, TypeOK, CallInv, Return
<1>3. CASE op # "write"
  <2>1. /\ pc' = "dir" /\ hint' = Lowered(Run(card, at))
        /\ UNCHANGED <<fcb, op, cur, todo, lpos, lsize, bad>>
    BY <1>3 DEF Flush, FlushStep
  <2>2. hint' \in 2..LAST
    BY <2>1, LoweredIs
  <2>3. HintInv'
    <3>1. Unwritten \subseteq Run(card, at) /\ pc # "write"
      BY <1>3 DEF Flush, FlushStep, AtFlush, IInv, CallInv
    <3>2. ASSUME ~hurt, NEW x \in Cluster, x < hint'
          PROVE  fat[x] # EMPTY
      <4>1. x \notin Run(card, at) /\ x < hint
        BY <2>1, <3>2, LoweredIs DEF Cluster, IInv, TypeOK
      <4>2. fat[x] = card[x]
        BY <3>1, <4>1 DEF Unwritten
      <4>3. QED
        BY <3>1, <3>2, <4>1, <4>2 DEF IInv, HintInv
    <3>3. QED
      BY <1>1, <2>1, <3>2 DEF HintInv
  <2>4. QED
    BY <1>1, <1>3, <2>1, <2>2, <2>3 DEF IInv, TypeOK, CallInv
<1>4. QED
  BY <1>2, <1>3

LEMMA DirWriteKeeps ==
  ASSUME IInv, DirWrite
  PROVE  IInv'
<1>1. fcb[cur] \in File /\ cur \in Fds \cup {TMP}
  BY DEF IInv, TypeOK
<1>2. dir' \in [Slots -> Entry]
  <2> DEFINE f == fcb[cur]
             gone == op = "unlink" \/ (op \in {"close", "give_up"} /\ f.size = 0)
             e == IF gone THEN NoEntry
                  ELSE [live |-> TRUE, name |-> f.name, first |-> f.first, size |-> f.size]
  <2>1. dir' = [dir EXCEPT ![f.slot] = e]
    BY DEF DirWrite
  <2>2. e \in Entry
    BY <1>1, NoFileTyped DEF File, Entry
  <2> HIDE DEF e
  <2>3. QED
    BY <2>1, <2>2 DEF IInv, TypeOK
<1>3. fcb' \in [Fds \cup {TMP} -> File]
  <2>1. Done(cur)
    BY DEF DirWrite
  <2>2. CASE op = "open"
    BY <1>1, <2>1, <2>2 DEF Done, IInv, TypeOK, File
  <2>3. CASE op = "give_up"
    BY <1>1, <2>1, <2>3 DEF Done, IInv, TypeOK
  <2>4. CASE op # "open" /\ op # "give_up"
    BY <1>1, <2>1, <2>4, NoFileTyped DEF Done, IInv, TypeOK
  <2>5. QED
    BY <2>2, <2>3, <2>4
<1>4. HintInv'
  BY SameFat DEF DirWrite
<1>5. bad' \in Fds \cup {None}
  BY DEF DirWrite, IInv, TypeOK
<1>6. QED
  BY <1>2, <1>3, <1>4, <1>5 DEF DirWrite, IInv, TypeOK, CallInv, Return, local

-----------------------------------------------------------------------------
(* Failures.  After one the hint is not trusted. *)

LEMMA FailureKeeps ==
  ASSUME IInv, Failure
  PROVE  IInv'
<1>1. HintInv'
  BY DEF Failure, RefuseLookup, RefuseKept, RefuseDropped, Refused, PowerFails, HintInv
<1>2. CASE RefuseLookup
  BY <1>1, <1>2 DEF RefuseLookup, IInv, TypeOK, CallInv, disk, local
<1>3. CASE RefuseKept
  <2>1. cur \in Fds
    BY <1>3 DEF RefuseKept, IInv, CallInv
  <2>2. \/ GiveUp(cur)
        \/ bad' = cur /\ Return /\ todo' = 0 /\ lpos' = 0 /\ lsize' = 0
    BY <1>3 DEF RefuseKept
  <2>3. card' \in [Cluster -> 0..LAST] /\ fat' = card' /\ torn' \in BOOLEAN
    <3>1. ASSUME Allocates
          PROVE  Min(Free) \in 0..LAST
      <4>1. Free # {} /\ Free \in SUBSET Nat /\ Free \subseteq 0..LAST
        BY <3>1, RdcfAssumption DEF Free, Cluster, LAST, Allocates
      <4>2. QED
        BY <4>1, MinIs
    <3> DEFINE c == Min(Free)
    <3>2. \/ card' = card /\ torn' = (torn \/ loose # EMPTY)
          \/ card' = fat /\ UNCHANGED torn
          \/ Allocates /\ card' = [card EXCEPT ![fcb[cur].last] = c] /\ torn' = TRUE
      BY <1>3 DEF RefuseKept
    <3>3. fat' = card'
      BY <1>3 DEF RefuseKept
    <3> HIDE DEF c
    <3>4. Allocates => c \in 0..LAST
      BY <3>1 DEF c
    <3>5. QED
      BY <3>2, <3>3, <3>4 DEF IInv, TypeOK
  <2>4. /\ valid' \in BOOLEAN /\ hurt' = TRUE /\ loose' = EMPTY /\ at' = EMPTY /\ EMPTY \in 0..LAST
        /\ UNCHANGED <<dir, hint, fcb, held>>
    BY <1>3, MarksAre DEF RefuseKept, Refused, IInv, TypeOK, Marks
  <2>5. QED
    BY <1>1, <2>1, <2>2, <2>3, <2>4, GiveUpEffect DEF IInv, TypeOK, CallInv, Return
<1>4. CASE RefuseDropped
  <2>1. card' \in [Cluster -> 0..LAST] /\ fat' = card'
    BY <1>4 DEF RefuseDropped, IInv, TypeOK
  <2>2. fcb' \in [Fds \cup {TMP} -> File] /\ bad' \in Fds \cup {None} /\ held' \in SUBSET Fds
    BY <1>4, NoFileTyped DEF RefuseDropped, IInv, TypeOK
  <2>3. torn' \in BOOLEAN /\ at' = EMPTY /\ EMPTY \in 0..LAST
    BY <1>4, MarksAre DEF RefuseDropped, Refused, Marks
  <2>4. hint' \in 2..LAST
    BY <1>4, LoweredIs DEF RefuseDropped, IInv, TypeOK
  <2>5. QED
    BY <1>1, <1>4, <2>1, <2>2, <2>3, <2>4
       DEF RefuseDropped, Refused, IInv, TypeOK, CallInv, Return, local
<1>5. CASE PowerFails
  <2>1. 2 \in 2..LAST
    BY RdcfAssumption DEF LAST
  <2>2. torn' \in BOOLEAN /\ at' = EMPTY /\ EMPTY \in 0..LAST
    BY <1>5, MarksAre DEF PowerFails, Marks
  <2>3. fcb' \in [Fds \cup {TMP} -> File]
    BY <1>5, NoFileTyped DEF PowerFails
  <2>4. QED
    BY <1>1, <1>5, <2>1, <2>2, <2>3 DEF PowerFails, IInv, TypeOK, CallInv, Return, disk
<1>6. QED
  BY <1>2, <1>3, <1>4, <1>5 DEF Failure

LEMMA ReinitKeeps ==
  ASSUME IInv, Reinit
  PROVE  IInv'
<1>1. 2 \in 2..LAST
  BY RdcfAssumption DEF LAST
<1>2. HintInv'
  BY DEF Reinit, HintInv, Cluster
<1>3. QED
  BY <1>1, <1>2 DEF Reinit, IInv, TypeOK, CallInv, disk, local, hist

LEMMA NewCardKeeps ==
  ASSUME IInv, NewCard
  PROVE  IInv'
<1>1. EMPTY \in 0..LAST /\ 2 \in 2..LAST
  BY RdcfAssumption DEF EMPTY, LAST
<1>2. fat' \in [Cluster -> 0..LAST] /\ card' \in [Cluster -> 0..LAST]
  BY <1>1 DEF NewCard
<1>3. dir' \in [Slots -> Entry] /\ fcb' \in [Fds \cup {TMP} -> File]
  BY NoFileTyped DEF NewCard
<1>4. HintInv'
  BY DEF NewCard, HintInv, Cluster
<1>5. QED
  BY <1>1, <1>2, <1>3, <1>4 DEF NewCard, IInv, TypeOK, CallInv, local

LEMMA StutterKeeps ==
  ASSUME IInv, UNCHANGED vars
  PROVE  IInv'
<1>1. UNCHANGED <<fat, card, dir, hint, valid, fcb, pc, op, cur>>
      /\ UNCHANGED <<todo, lpos, lsize, at, held, bad, hurt, loose, torn>>
  BY DEF vars
<1>2. HintInv' /\ CallInv'
  BY <1>1 DEF IInv, HintInv, CallInv
<1>3. QED
  BY <1>1, <1>2 DEF IInv, TypeOK

LEMMA NextKeeps == IInv /\ [Next]_vars => IInv'
<1> SUFFICES ASSUME IInv, [Next]_vars PROVE IInv'
  OBVIOUS
<1>1. CASE Begin
  BY <1>1, OpenFileKeeps, BeginReadKeeps, BeginWriteKeeps, SeekKeeps, CloseKeeps,
     CloseLostKeeps, UnlinkKeeps, RenameKeeps, StutterKeeps DEF Begin, OpenRefused
<1>2. CASE Work
  BY <1>2, ReadSectorKeeps, EndReadKeeps, LeaveSectorKeeps, AllocateKeeps, WriteSectorKeeps,
     ReleaseSectorKeeps, FlushKeeps, DirWriteKeeps DEF Work
<1>3. CASE Failure \/ Reinit \/ NewCard \/ UNCHANGED vars
  BY <1>3, FailureKeeps, ReinitKeeps, NewCardKeeps, StutterKeeps
<1>4. QED
  BY <1>1, <1>2, <1>3 DEF Next

(* The invariant holds in every state, for every card, program and failure.  *)
THEOREM IInvInvariant == Spec => []IInv
<1>1. Init => IInv
  BY InitIInv
<1>2. IInv /\ [Next]_vars => IInv'
  BY NextKeeps
<1>3. QED
  BY <1>1, <1>2, PTL DEF Spec

(* The FAT, the directory, the control blocks and the hint keep their ranges *)
(* in every call, whole or cut.                                              *)
THEOREM TypeOKHolds == Spec => []TypeOK
<1>1. IInv => TypeOK
  BY DEF IInv
<1>2. QED
  BY <1>1, IInvInvariant, PTL

LEMMA FullFromHint == IInv => FullIsFull
<1> SUFFICES ASSUME IInv, pc = "write", Free = {}, ~hurt, NEW c \in Cluster PROVE fat[c] # EMPTY
  BY DEF FullIsFull
<1>1. c < hint => fat[c] # EMPTY
  BY DEF IInv, HintInv
<1>2. c \in Int /\ hint \in Int
  BY DEF IInv, TypeOK, Cluster
<1>3. QED
  BY <1>1, <1>2 DEF Free

(* When rdcf_write finds no cluster from its hint on, the card has none: the *)
(* hint, moved by every allocation and every release, hides no free cluster  *)
(* on a card of any size.                                                    *)
THEOREM FullIsFullHolds == Spec => []FullIsFull
BY FullFromHint, IInvInvariant, PTL

-----------------------------------------------------------------------------
(* The invariant for a program that keeps all the rules.                     *)
(*                                                                           *)
(* A directory entry and a control block in use each claim a chain for a     *)
(* slot.  Claims for different slots never meet, in the FAT of the buffer    *)
(* nor in that of the card; between the writes of a release the entry that   *)
(* is being released makes no claim, and between the two of a link the       *)
(* cluster it leads to counts as the end of the chain (Sealed).              *)
Disciplined == Rules = {"OpenOnce", "SeekBetween", "CloseFirst"}

Owners == held \cup (IF op = "close" THEN {cur} ELSE {})
SlotOf(d) == fcb[d].slot

Claim(s, e) == [slot |-> s, first |-> e.first, size |-> e.size]
Claims(E) ==
  {Claim(s, dir[s]) : s \in E} \cup {Claim(SlotOf(d), fcb[d]) : d \in Owners}

Released == IF op \in {"open", "unlink"} THEN {SlotOf(cur)} ELSE {}
InFat == Live \ Released
OnCard == IF pc \in {"rest", "dir"} THEN InFat ELSE Live

Apart(t, K) ==
  \A a, b \in K : a.slot # b.slot => Chain(t, a.first) \cap Chain(t, b.first) = {}
Sized(t, K) == \A a \in K : a.size > 0 => Whole(t, a.first, a.size)
Sound(t, K) == Apart(t, K) /\ Sized(t, K)

Sealed == IF loose = EMPTY THEN card ELSE [card EXCEPT ![loose] = LAST]

(* The buffer and the card differ only where a call is at work.              *)
SameElsewhere ==
  \A a \in Claims(InFat) :
    a.slot # SlotOf(cur) => \A c \in Chain(fat, a.first) : card[c] = fat[c]

GrowthInv ==
  op = "write" => /\ Whole(fat, fcb[cur].first, lsize)
                  /\ \A c \in Cluster : fat[c] = EMPTY => card[c] = EMPTY

(* What a write has not brought to the card ends with the last cluster of    *)
(* its chain, and is in one sector of the FAT.                               *)
BufferInv ==
  /\ loose # EMPTY =>
       op = "write" /\ loose \in Cluster /\ card[loose] = EMPTY /\ fat[loose] # EMPTY
  /\ op = "write" /\ Unwritten # {} =>
       /\ fcb[cur].last \in Unwritten /\ fat[fcb[cur].last] = LAST
       /\ fcb[cur].cluster \in {fcb[cur].last, LAST}
  /\ op = "write" => \A x, y \in Unwritten : SectorOf(x) = SectorOf(y)

FatInv ==
  /\ pc \notin {"write", "flush", "rest"} => fat = card
  /\ Sound(Sealed, Claims(OnCard)) /\ Sound(fat, Claims(InFat))
  /\ SameElsewhere /\ GrowthInv /\ BufferInv

(* Which call can be where, and on which control block.                      *)
Detached(s) == s \in Live /\ \A d \in Owners : SlotOf(d) # s
PlaceInv ==
  /\ pc = "idle" <=> op = "none"
  /\ pc = "read" <=> op = "read"
  /\ pc = "write" <=> op = "write"
  /\ pc \in {"flush", "rest"} => op \in {"open", "unlink"} /\ SlotOf(cur) \in Live
  /\ op \in {"none", "unlink", "rename"} => cur = TMP
  /\ op \in {"open", "read", "write", "give_up"} => cur \in held
  /\ op = "close" => cur \notin held
  /\ op \in {"open", "read", "write", "unlink", "rename"} => bad = None
  /\ op = "give_up" => bad = cur
  /\ op = "close" => bad \in {None, cur}
  /\ op \in {"give_up", "close"} => "WRITTEN" \in fcb[cur].mode
  /\ bad \in {None} \cup Owners
  /\ op = "open" => fcb[cur].first = EMPTY /\ fcb[cur].size = 0
  /\ op \in {"unlink", "rename"} => Detached(SlotOf(TMP))
  /\ op = "rename" => Claim(SlotOf(TMP), fcb[TMP]) = Claim(SlotOf(TMP), dir[SlotOf(TMP)])
  /\ ~valid => hurt

(* A control block and the entry it was opened from.                         *)
At(o, d) == op = o /\ cur = d
HolderInv ==
  /\ \A d \in Owners : SlotOf(d) \in Slots
  /\ \A d, e \in Owners : SlotOf(d) = SlotOf(e) => d = e
  /\ \A d \in held : SlotOf(d) \in Live \/ d = bad \/ At("open", d)
  /\ \A d \in Owners : SlotOf(d) \in InFat => dir[SlotOf(d)].first \in {EMPTY, fcb[d].first}
  /\ \A d \in Owners : fcb[d].size = 0 =>
                          fcb[d].first = EMPTY \/ (d = bad /\ hurt) \/ At("write", d)
  /\ \A s \in Live : dir[s].size = 0 => dir[s].first = EMPTY
  /\ ~hurt => \A d \in Fds : Open(d) => d \in Owners
  /\ ~hurt => \A d \in Owners :
       \/ "WRITTEN" \in fcb[d].mode \/ At("write", d) \/ At("open", d)
       \/ SlotOf(d) \in Live /\ Claim(SlotOf(d), fcb[d]) = Claim(SlotOf(d), dir[SlotOf(d)])

(* Where a control block stands that is at position p of z sectors.          *)
Cursor(t, f, p, z) ==
  /\ p <= z
  /\ p < z \/ ~f.read => f.cluster = Nth(t, f.first, p \div PerCluster)
  /\ ~f.read /\ f.cluster = LAST => f.last \in Chain(t, f.first) /\ t[f.last] = LAST
  /\ f.first = EMPTY => f.last = EMPTY

CursorInv ==
  /\ \A d \in held : Cursor(fat, fcb[d], fcb[d].pos, fcb[d].size) \/ d = bad
                        \/ At("read", d) \/ At("write", d)
  /\ op \in {"read", "write"} => Cursor(fat, fcb[cur], lpos, lsize)
  /\ op = "read" => fcb[cur].read /\ lsize = fcb[cur].size
  /\ op = "write" =>
       /\ ~fcb[cur].read /\ fcb[cur].pos <= lpos /\ fcb[cur].size <= lsize
       /\ lsize > 0 \/ fcb[cur].first = EMPTY \/ (fcb[cur].cluster \in Cluster /\ todo > 0)

AccountInv ==
  ~hurt => \A c \in Cluster : fat[c] # EMPTY =>
             \E a \in Claims(InFat) : c \in Chain(fat, a.first)

Sane == FatInv /\ PlaceInv /\ HolderInv /\ CursorInv /\ AccountInv
Broken ==
  /\ hurt /\ loose = EMPTY
  /\ \/ pc = "idle" /\ op = "none" /\ cur = TMP
     \/ pc = "dir" /\ op = "give_up"
ChainInv == IF torn THEN Broken ELSE Sane

-----------------------------------------------------------------------------
(* Chains.  One that ends does so within the card, holds no cluster twice    *)
(* and none that is empty. *)

Ends(t, c, n) == n \in Nat /\ Nth(t, c, n) = LAST

LEMMA NthStep ==
  ASSUME NEW t, NEW c, NEW k \in Nat
  PROVE  /\ Nth(t, c, 0) = c
         /\ Nth(t, c, k) \in Cluster => Nth(t, c, k + 1) = t[Nth(t, c, k)]
         /\ Nth(t, c, k) \notin Cluster => Nth(t, c, k + 1) = EMPTY
BY NthIs DEF After

LEMMA NthAdd ==
  ASSUME NEW t, NEW c, NEW i \in Nat, NEW j \in Nat
  PROVE  Nth(t, Nth(t, c, i), j) = Nth(t, c, i + j)
<1> DEFINE x == Nth(t, c, i)
           S == {n \in Nat : Nth(t, x, n) # Nth(t, c, i + n)}
<1>1. SUFFICES ASSUME S # {} PROVE FALSE
  OBVIOUS
<1>2. PICK m \in S : \A n \in S : m <= n
  BY <1>1, Least
<1>3. CASE m = 0
  <2>1. Nth(t, x, 0) = x /\ i + 0 = i
    BY NthStep
  <2>2. QED
    BY <1>2, <1>3, <2>1
<1>4. CASE m > 0
  <2>1. m - 1 \in Nat /\ Nth(t, x, m - 1) = Nth(t, c, i + (m - 1))
    BY <1>2, <1>4
  <2>2. i + (m - 1) \in Nat
    BY <2>1
  <2>3. Nth(t, x, (m - 1) + 1) = Nth(t, c, (i + (m - 1)) + 1)
    <3> HIDE DEF x
    <3>1. CASE Nth(t, x, m - 1) \in Cluster
      BY <2>1, <2>2, <3>1, NthStep
    <3>2. CASE Nth(t, x, m - 1) \notin Cluster
      BY <2>1, <2>2, <3>2, NthStep
    <3>3. QED
      BY <3>1, <3>2
  <2>4. (m - 1) + 1 = m /\ (i + (m - 1)) + 1 = i + m
    BY <1>2
  <2>5. QED
    BY <1>2, <2>3, <2>4
<1>5. QED
  BY <1>2, <1>3, <1>4

LEMMA Beyond ==
  ASSUME NEW t, NEW c, NEW i \in Nat, Nth(t, c, i) \notin Cluster, NEW j \in Nat, i < j
  PROVE  Nth(t, c, j) = EMPTY
<1> DEFINE S == {n \in Nat : i < n /\ Nth(t, c, n) # EMPTY}
<1>1. SUFFICES ASSUME S # {} PROVE FALSE
  OBVIOUS
<1>2. PICK m \in S : \A n \in S : m <= n
  BY <1>1, Least
<1>3. m - 1 \in Nat /\ (m - 1) + 1 = m
  BY <1>2
<1>4. Nth(t, c, m - 1) \notin Cluster
  <2>1. CASE m - 1 = i
    BY <2>1
  <2>2. CASE m - 1 # i
    <3>1. Nth(t, c, m - 1) = EMPTY
      BY <1>2, <1>3, <2>2
    <3>2. QED
      BY <3>1, MarksAre
  <2>3. QED
    BY <2>1, <2>2
<1>5. Nth(t, c, m) = EMPTY
  BY <1>3, <1>4, NthStep
<1>6. QED
  BY <1>2, <1>5

LEMMA EndsShape ==
  ASSUME NEW t, NEW c, NEW n, Ends(t, c, n)
  PROVE  /\ n \in Nat
         /\ \A i \in Nat : i < n => Nth(t, c, i) \in Cluster
         /\ \A i \in Nat : i > n => Nth(t, c, i) = EMPTY
         /\ \A i \in Nat : Nth(t, c, i) = LAST => i = n
<1>1. n \in Nat /\ Nth(t, c, n) = LAST /\ LAST \notin Cluster /\ EMPTY # LAST
  BY MarksAre DEF Ends
<1>2. ASSUME NEW i \in Nat, i < n
      PROVE  Nth(t, c, i) \in Cluster
  BY <1>1, <1>2, Beyond
<1>3. ASSUME NEW i \in Nat, i > n
      PROVE  Nth(t, c, i) = EMPTY
  BY <1>1, <1>3, Beyond
<1>4. ASSUME NEW i \in Nat, Nth(t, c, i) = LAST
      PROVE  i = n
  BY <1>1, <1>2, <1>3, <1>4
<1>5. QED
  BY <1>1, <1>2, <1>3, <1>4

LEMMA EndsOnce ==
  ASSUME NEW t, NEW c, NEW n, Ends(t, c, n), NEW i \in Nat, NEW j \in Nat, i < j, j < n
  PROVE  Nth(t, c, i) # Nth(t, c, j)
<1> SUFFICES ASSUME Nth(t, c, i) = Nth(t, c, j) PROVE FALSE
  OBVIOUS
<1>1. n \in Nat /\ n - j \in Nat /\ i + (n - j) \in Nat /\ i + (n - j) # n /\ j + (n - j) = n
  BY EndsShape
<1>2. ASSUME NEW m \in Nat
      PROVE  Nth(t, c, i + m) = Nth(t, c, j + m)
  <2>1. Nth(t, Nth(t, c, i), m) = Nth(t, c, i + m)
    BY NthAdd
  <2>2. Nth(t, Nth(t, c, j), m) = Nth(t, c, j + m)
    BY NthAdd
  <2>3. QED
    BY <2>1, <2>2
<1>3. Nth(t, c, i + (n - j)) = LAST
  <2>1. Nth(t, c, i + (n - j)) = Nth(t, c, j + (n - j))
    BY <1>1, <1>2
  <2>2. QED
    BY <1>1, <2>1 DEF Ends
<1>4. QED
  BY <1>1, <1>3, EndsShape

LEMMA ClustersFinite ==
  IsFiniteSet(Cluster) /\ Cardinality(Cluster) \in Nat /\ Cardinality(Cluster) < MaxCluster
<1>1. 2 \in Int /\ MaxCluster \in Int /\ MaxCluster > 0
  BY RdcfAssumption
<1>2. /\ IsFiniteSet(2..MaxCluster)
      /\ Cardinality(2..MaxCluster) = IF 2 > MaxCluster THEN 0 ELSE MaxCluster - 2 + 1
  BY <1>1, FS_Interval
<1>3. QED
  BY <1>1, <1>2 DEF Cluster

(* Among the first MaxCluster clusters of a walk one comes twice. *)
LEMMA WalkRepeats ==
  ASSUME NEW t, NEW c, \A i \in 0..MaxCluster : Nth(t, c, i) \in Cluster
  PROVE  \E i, j \in 0..MaxCluster : i < j /\ Nth(t, c, i) = Nth(t, c, j)
<1> DEFINE f == [i \in 0..MaxCluster |-> Nth(t, c, i)]
<1>1. SUFFICES ASSUME \A i, j \in 0..MaxCluster : i < j => f[i] # f[j] PROVE FALSE
  OBVIOUS
<1>2. f \in [0..MaxCluster -> Cluster]
  OBVIOUS
<1> HIDE DEF f
<1>3. MaxCluster \in Nat /\ 0 \in Int /\ MaxCluster \in Int
  BY RdcfAssumption
<1>4. ASSUME NEW i \in 0..MaxCluster, NEW j \in 0..MaxCluster, f[i] = f[j]
      PROVE  i = j
  <2>1. ~(i < j) /\ ~(j < i)
    BY <1>1, <1>4
  <2>2. QED
    BY <1>3, <2>1
<1>5. f \in Injection(0..MaxCluster, Cluster)
  BY <1>2, <1>4 DEF Injection, IsInjective
<1>6. Cardinality(0..MaxCluster) = MaxCluster + 1
  BY <1>3, FS_Interval
<1>7. Cardinality(0..MaxCluster) <= Cardinality(Cluster)
  BY <1>5, ClustersFinite, FS_Injection
<1>8. QED
  BY <1>3, <1>6, <1>7, ClustersFinite

(* So a chain holds every cluster that a walk reaches, however far. *)
LEMMA NthInChain ==
  ASSUME NEW t, NEW c, NEW k \in Nat, Nth(t, c, k) \in Cluster
  PROVE  Nth(t, c, k) \in Chain(t, c)
<1> DEFINE S == {n \in Nat : Nth(t, c, n) \in Cluster /\ Nth(t, c, n) \notin Chain(t, c)}
<1>1. SUFFICES ASSUME S # {} PROVE FALSE
  OBVIOUS
<1>2. PICK m \in S : \A n \in S : m <= n
  BY <1>1, Least
<1>3. m \in Nat /\ m > MaxCluster /\ MaxCluster \in Nat
  BY <1>2, RdcfAssumption DEF Chain
<1>4. \A i \in 0..MaxCluster : Nth(t, c, i) \in Cluster
  <2>1. ASSUME NEW i \in 0..MaxCluster, Nth(t, c, i) \notin Cluster
        PROVE  FALSE
    <3>1. Nth(t, c, m) = EMPTY
      BY <1>3, <2>1, Beyond
    <3>2. QED
      BY <1>2, <3>1, MarksAre
  <2>2. QED
    BY <2>1
<1>5. PICK i \in 0..MaxCluster, j \in 0..MaxCluster : i < j /\ Nth(t, c, i) = Nth(t, c, j)
  BY <1>4, WalkRepeats
<1>6. m - j \in Nat /\ i + (m - j) \in Nat /\ i + (m - j) < m /\ j + (m - j) = m
  BY <1>3, <1>5
<1>7. ASSUME NEW n \in Nat
      PROVE  Nth(t, c, i + n) = Nth(t, c, j + n)
  <2>1. Nth(t, Nth(t, c, i), n) = Nth(t, c, i + n)
    BY NthAdd
  <2>2. Nth(t, Nth(t, c, j), n) = Nth(t, c, j + n)
    BY NthAdd
  <2>3. QED
    BY <1>5, <2>1, <2>2
<1>8. Nth(t, c, i + (m - j)) = Nth(t, c, j + (m - j))
  BY <1>6, <1>7
<1>9. i + (m - j) \in S
  BY <1>2, <1>6, <1>8
<1>10. QED
  BY <1>2, <1>3, <1>6, <1>9

LEMMA ChainHas ==
  ASSUME NEW t, NEW c, NEW x \in Chain(t, c)
  PROVE  x \in Cluster /\ \E k \in Nat : k <= MaxCluster /\ x = Nth(t, c, k) /\ t[x] = Nth(t, c, k + 1)
<1>1. PICK k \in 0..MaxCluster : x = Nth(t, c, k) /\ x \in Cluster
  BY DEF Chain
<1>2. Nth(t, c, k + 1) = t[x]
  BY <1>1, NthStep
<1>3. QED
  BY <1>1, <1>2, RdcfAssumption

(* A chain depends on the entries of its own clusters only. *)
LEMMA SameWalk ==
  ASSUME NEW t, NEW u, NEW c, \A x \in Chain(t, c) : u[x] = t[x]
  PROVE  (\A k \in Nat : Nth(u, c, k) = Nth(t, c, k)) /\ Chain(u, c) = Chain(t, c)
<1>1. ASSUME NEW k \in Nat, Nth(u, c, k) # Nth(t, c, k)
      PROVE  FALSE
  <2> DEFINE S == {n \in Nat : Nth(u, c, n) # Nth(t, c, n)}
  <2>1. PICK m \in S : \A n \in S : m <= n
    <3>1. S # {}
      BY <1>1
    <3>2. QED
      BY <3>1, Least
  <2>2. m # 0
    BY <2>1, NthStep
  <2>3. m - 1 \in Nat /\ (m - 1) + 1 = m /\ Nth(u, c, m - 1) = Nth(t, c, m - 1)
    BY <2>1, <2>2
  <2>4. CASE Nth(t, c, m - 1) \in Cluster
    <3>1. Nth(t, c, m - 1) \in Chain(t, c)
      BY <2>3, <2>4, NthInChain
    <3>2. Nth(u, c, m) = u[Nth(u, c, m - 1)] /\ Nth(t, c, m) = t[Nth(t, c, m - 1)]
      BY <2>3, <2>4, NthStep
    <3>3. QED
      BY <2>1, <2>3, <3>1, <3>2
  <2>5. CASE Nth(t, c, m - 1) \notin Cluster
    <3>1. Nth(u, c, m) = EMPTY /\ Nth(t, c, m) = EMPTY
      BY <2>3, <2>5, NthStep
    <3>2. QED
      BY <2>1, <3>1
  <2>6. QED
    BY <2>4, <2>5
<1>2. \A k \in Nat : Nth(u, c, k) = Nth(t, c, k)
  BY <1>1
<1>3. 0..MaxCluster \subseteq Nat
  BY RdcfAssumption
<1>4. QED
  BY <1>2, <1>3 DEF Chain

(* Nor does it matter to the clusters of a chain whether its last cluster is *)
(* marked as the end or still as free.                                       *)
LEMMA SealedWalk ==
  ASSUME NEW t, NEW u, NEW c, NEW l \in Cluster, t[l] = EMPTY, u[l] = LAST,
         \A x \in Cluster : x # l => u[x] = t[x]
  PROVE  /\ \A k \in Nat : Nth(u, c, k) \in Cluster => Nth(t, c, k) = Nth(u, c, k)
         /\ Chain(t, c) = Chain(u, c)
<1> DEFINE Alike(n) == \/ Nth(u, c, n) = Nth(t, c, n)
                       \/ Nth(u, c, n) \notin Cluster /\ Nth(t, c, n) \notin Cluster
<1>1. ASSUME NEW k \in Nat, ~Alike(k)
      PROVE  FALSE
  <2> DEFINE S == {n \in Nat : ~Alike(n)}
  <2>1. PICK m \in S : \A n \in S : m <= n
    <3>1. S # {}
      BY <1>1
    <3> HIDE DEF Alike
    <3>2. QED
      BY <3>1, Least
  <2>2. m # 0
    BY <2>1, NthStep
  <2>3. m - 1 \in Nat /\ (m - 1) + 1 = m /\ Alike(m - 1)
    BY <2>1, <2>2
  <2>4. CASE Nth(t, c, m - 1) \in Cluster
    <3>1. Nth(u, c, m - 1) = Nth(t, c, m - 1)
      BY <2>3, <2>4
    <3>2. Nth(u, c, m) = u[Nth(t, c, m - 1)] /\ Nth(t, c, m) = t[Nth(t, c, m - 1)]
      BY <2>3, <2>4, <3>1, NthStep
    <3>3. Alike(m)
      BY <2>4, <3>2, MarksAre
    <3>4. QED
      BY <2>1, <3>3
  <2>5. CASE Nth(t, c, m - 1) \notin Cluster
    <3>1. Nth(u, c, m - 1) \notin Cluster
      BY <2>3, <2>5
    <3>2. Nth(u, c, m) = EMPTY /\ Nth(t, c, m) = EMPTY
      BY <2>3, <2>5, <3>1, NthStep
    <3>3. QED
      BY <2>1, <3>2
  <2>6. QED
    BY <2>4, <2>5
<1>2. \A k \in Nat : Alike(k)
  BY <1>1
<1>3. 0..MaxCluster \subseteq Nat
  BY RdcfAssumption
<1>4. QED
  BY <1>2, <1>3 DEF Chain

LEMMA EndsBound ==
  ASSUME NEW t, NEW c, NEW n, Ends(t, c, n)
  PROVE  n \in Nat /\ n <= MaxCluster
<1>1. n \in Nat /\ \A i \in Nat : i < n => Nth(t, c, i) \in Cluster
  BY EndsShape
<1>2. SUFFICES ASSUME n > MaxCluster PROVE FALSE
  BY <1>1, RdcfAssumption
<1>3. \A i \in 0..MaxCluster : i \in Nat /\ i < n
  BY <1>1, <1>2, RdcfAssumption
<1>4. PICK i \in 0..MaxCluster, j \in 0..MaxCluster : i < j /\ Nth(t, c, i) = Nth(t, c, j)
  BY <1>1, <1>3, WalkRepeats
<1>5. QED
  BY <1>3, <1>4, EndsOnce

-----------------------------------------------------------------------------
(* How many clusters a position or a size takes. *)

LEMMA Divided ==
  ASSUME NEW a \in Nat, NEW b \in Nat \ {0}
  PROVE  /\ a \div b \in Nat /\ a % b \in Nat /\ a % b < b
         /\ a = b * (a \div b) + (a % b)
  OBVIOUS

LEMMA Times ==
  ASSUME NEW b \in Nat, NEW x \in Nat, NEW y \in Nat, x < y
  PROVE  b * x + b <= b * y
<1>1. PICK z \in Nat : y = x + 1 + z
  <2>1. y - x - 1 \in Nat /\ y = x + 1 + (y - x - 1)
    OBVIOUS
  <2>2. QED
    BY <2>1
<1>2. b * y = b * x + b + b * z
  BY <1>1
<1>3. b * z \in Nat
  OBVIOUS
<1>4. QED
  BY <1>2, <1>3

LEMMA DivIs ==
  ASSUME NEW a \in Nat, NEW b \in Nat \ {0}, NEW q \in Nat, NEW r \in Nat, r < b, a = b * q + r
  PROVE  a \div b = q
<1> DEFINE p == a \div b
<1>1. p \in Nat /\ b * p <= a /\ a < b * p + b
  BY Divided
<1> HIDE DEF p
<1>2. b * p \in Nat /\ b * q \in Nat
  BY <1>1
<1>3. ~(p < q)
  BY <1>1, <1>2, Times
<1>4. ~(q < p)
  BY <1>1, <1>2, Times
<1>5. QED
  BY <1>1, <1>3, <1>4 DEF p

LEMMA DivMonotone ==
  ASSUME NEW a \in Nat, NEW c \in Nat, NEW b \in Nat \ {0}, a <= c
  PROVE  a \div b <= c \div b
<1> DEFINE p == a \div b
           q == c \div b
<1>1. p \in Nat /\ b * p <= a /\ a < b * p + b /\ q \in Nat /\ b * q <= c /\ c < b * q + b
  BY Divided
<1> HIDE DEF p, q
<1>2. b * p \in Nat /\ b * q \in Nat
  BY <1>1
<1>3. ~(q < p)
  BY <1>1, <1>2, Times
<1>4. QED
  BY <1>1, <1>3 DEF p, q

(* Sectors and the clusters they are in. *)
LEMMA PlaceOf ==
  ASSUME NEW p \in Nat
  PROVE  /\ p \div PerCluster \in Nat /\ 0 \div PerCluster = 0
         /\ (p + 1) % PerCluster = 0 => (p + 1) \div PerCluster = p \div PerCluster + 1
         /\ (p + 1) % PerCluster # 0 => (p + 1) \div PerCluster = p \div PerCluster
<1> DEFINE b == PerCluster
           q == p \div b
           r == p % b
           v == (p + 1) \div b
           w == (p + 1) % b
<1>1. b \in Nat \ {0}
  BY RdcfAssumption
<1>2. q \in Nat /\ r \in Nat /\ r < b /\ p = b * q + r
  BY <1>1, Divided
<1>3. v \in Nat /\ w \in Nat /\ w < b /\ p + 1 = b * v + w
  BY <1>1, Divided
<1>4. 0 \div b = 0
  BY <1>1, DivIs
<1> HIDE DEF b, q, r, v, w
<1>5. b * q \in Nat /\ b * v \in Nat
  BY <1>1, <1>2, <1>3
<1>6. CASE r + 1 = b
  <2>1. p + 1 = b * (q + 1) + 0
    BY <1>1, <1>2, <1>6
  <2>2. v = q + 1
    BY <1>1, <1>2, <2>1, DivIs DEF v
  <2>3. w = 0
    BY <1>2, <1>3, <2>1, <2>2, <1>1
  <2>4. QED
    BY <1>2, <1>4, <2>2, <2>3 DEF b, q, v, w
<1>7. CASE r + 1 < b
  <2>1. p + 1 = b * q + (r + 1)
    BY <1>1, <1>2, <1>5
  <2>2. v = q
    BY <1>1, <1>2, <1>7, <2>1, DivIs DEF v
  <2>3. w = r + 1
    BY <1>2, <1>3, <1>5, <2>1, <2>2
  <2>4. QED
    BY <1>2, <1>4, <2>2, <2>3 DEF b, q, v, w
<1>8. QED
  BY <1>1, <1>2, <1>6, <1>7

LEMMA ClustersNeeded ==
  /\ ClustersOf(0) = 0
  /\ \A z \in Nat : ClustersOf(z) \in Nat
  /\ \A p \in Nat : ClustersOf(p + 1) = p \div PerCluster + 1
<1> DEFINE b == PerCluster
<1>1. b \in Nat \ {0} /\ b - 1 \in Nat
  BY RdcfAssumption
<1>2. ClustersOf(0) = 0
  <2>1. ClustersOf(0) = (b - 1) \div b
    BY <1>1 DEF ClustersOf
  <2>2. (b - 1) = b * 0 + (b - 1)
    BY <1>1
  <2> HIDE DEF b
  <2>3. (b - 1) \div b = 0
    BY <1>1, <2>2, DivIs
  <2>4. QED
    BY <2>1, <2>3
<1>3. ASSUME NEW p \in Nat
      PROVE  ClustersOf(p + 1) = p \div b + 1 /\ ClustersOf(p + 1) \in Nat
  <2> DEFINE q == p \div b
             r == p % b
  <2>1. ClustersOf(p + 1) = (p + b) \div b
    BY <1>1 DEF ClustersOf
  <2>2. q \in Nat /\ r \in Nat /\ r < b /\ p = b * q + r
    BY <1>1, Divided
  <2> HIDE DEF q, r, b
  <2>3. p + b = b * (q + 1) + r /\ p + b \in Nat
    BY <1>1, <2>2
  <2>4. (p + b) \div b = q + 1
    BY <1>1, <2>2, <2>3, DivIs
  <2>5. QED
    BY <2>1, <2>2, <2>4 DEF q
<1>4. ASSUME NEW z \in Nat
      PROVE  ClustersOf(z) \in Nat
  <2>1. CASE z = 0
    BY <1>2, <2>1
  <2>2. CASE z # 0
    <3>1. z - 1 \in Nat /\ (z - 1) + 1 = z
      BY <2>2
    <3>2. QED
      BY <1>3, <3>1
  <2>3. QED
    BY <2>1, <2>2
<1>5. QED
  BY <1>2, <1>3, <1>4

LEMMA ClustersMonotone ==
  ASSUME NEW y \in Nat, NEW z \in Nat, y <= z
  PROVE  ClustersOf(y) <= ClustersOf(z)
<1>1. PerCluster \in Nat \ {0} /\ y + PerCluster - 1 \in Nat /\ z + PerCluster - 1 \in Nat
      /\ y + PerCluster - 1 <= z + PerCluster - 1
  BY RdcfAssumption
<1>2. QED
  BY <1>1, DivMonotone DEF ClustersOf

LEMMA InFile ==
  ASSUME NEW p \in Nat, NEW z \in Nat
  PROVE  /\ p < z => p \div PerCluster < ClustersOf(z)
         /\ p <= z => p \div PerCluster <= ClustersOf(z)
<1>1. /\ p \div PerCluster \in Nat /\ ClustersOf(z) \in Nat
      /\ ClustersOf(p + 1) = p \div PerCluster + 1
  BY PlaceOf, ClustersNeeded
<1>2. p < z => p \div PerCluster < ClustersOf(z)
  BY <1>1, ClustersMonotone
<1>3. ASSUME p = z
      PROVE  p \div PerCluster <= ClustersOf(z)
  <2>1. CASE z = 0
    BY <1>3, <2>1, PlaceOf, ClustersNeeded
  <2>2. CASE z > 0
    <3>1. z - 1 \in Nat /\ (z - 1) + 1 = z
      BY <2>2
    <3>2. ClustersOf(z) = (z - 1) \div PerCluster + 1
      BY <3>1, ClustersNeeded
    <3>3. z \div PerCluster \in {(z - 1) \div PerCluster, (z - 1) \div PerCluster + 1}
          /\ (z - 1) \div PerCluster \in Nat
      BY <3>1, PlaceOf
    <3>4. QED
      BY <1>3, <3>2, <3>3
  <2>3. QED
    BY <2>1, <2>2
<1>4. QED
  BY <1>1, <1>2, <1>3

-----------------------------------------------------------------------------
(* Files that are whole. *)

LEMMA NoChain ==
  ASSUME NEW t, NEW c, c \notin Cluster
  PROVE  Chain(t, c) = {} /\ Nth(t, c, 0) = c /\ \A k \in Nat \ {0} : Nth(t, c, k) = EMPTY
<1>1. Nth(t, c, 0) = c /\ \A k \in Nat : k > 0 => Nth(t, c, k) = EMPTY
  BY NthStep, Beyond
<1>2. ASSUME NEW x \in Chain(t, c)
      PROVE  FALSE
  BY <1>1, <1>2, ChainHas, MarksAre
<1>3. QED
  BY <1>1, <1>2

LEMMA WholeIs ==
  ASSUME NEW t, NEW c, NEW z \in Nat, Whole(t, c, z)
  PROVE  /\ c = EMPTY => z = 0
         /\ c # EMPTY => \E n \in Nat : n >= 1 /\ Ends(t, c, n) /\ ClustersOf(z) <= n
<1>1. c = EMPTY => z = 0
  BY DEF Whole
<1>2. ASSUME c # EMPTY
      PROVE  \E n \in Nat : n >= 1 /\ Ends(t, c, n) /\ ClustersOf(z) <= n
  <2>1. PICK n \in 1..MaxCluster : Nth(t, c, n) = LAST
    BY <1>2 DEF Whole, Ended
  <2>2. n \in Nat /\ n >= 1 /\ Ends(t, c, n)
    BY <2>1, RdcfAssumption DEF Ends
  <2>3. ClustersOf(z) <= n
    <3>1. ClustersOf(z) \in Nat
      BY ClustersNeeded
    <3>2. n \notin 0..ClustersOf(z) - 1
      BY <2>1, MarksAre DEF Whole, Reaches
    <3>3. QED
      BY <2>2, <3>1, <3>2
  <2>4. QED
    BY <2>2, <2>3
<1>3. QED
  BY <1>1, <1>2

LEMMA WholeWhen ==
  ASSUME NEW t, NEW c, NEW z \in Nat, NEW n \in Nat, n >= 1, Ends(t, c, n), ClustersOf(z) <= n
  PROVE  Whole(t, c, z) /\ c \in Cluster
<1>1. n <= MaxCluster /\ \A i \in Nat : i < n => Nth(t, c, i) \in Cluster
  BY EndsBound, EndsShape
<1>2. Nth(t, c, 0) = c
  BY NthStep
<1>3. c \in Cluster /\ c # EMPTY
  BY <1>1, <1>2, MarksAre
<1>4. n \in 1..MaxCluster /\ Nth(t, c, n) = LAST
  BY <1>1, RdcfAssumption DEF Ends
<1>5. \A k \in 0..ClustersOf(z) - 1 : Nth(t, c, k) \in Cluster
  BY <1>1, ClustersNeeded
<1>6. QED
  BY <1>3, <1>4, <1>5 DEF Whole, Ended, Reaches

LEMMA NothingWhole ==
  ASSUME NEW t
  PROVE  Whole(t, EMPTY, 0)
BY ClustersNeeded DEF Whole, Ended, Reaches

LEMMA WholeFirst ==
  ASSUME NEW t, NEW c, NEW z \in Nat, Whole(t, c, z)
  PROVE  c = EMPTY \/ c \in Cluster
BY WholeIs, WholeWhen

LEMMA WholeFull ==
  ASSUME NEW t, NEW c, NEW z \in Nat, Whole(t, c, z), NEW x \in Chain(t, c)
  PROVE  t[x] # EMPTY
<1>1. c # EMPTY
  BY NoChain, MarksAre
<1>2. PICK n \in Nat : Ends(t, c, n)
  BY <1>1, WholeIs
<1>3. PICK k \in Nat : x = Nth(t, c, k) /\ x \in Cluster /\ t[x] = Nth(t, c, k + 1)
  BY ChainHas
<1>4. k < n
  <2>1. k = n => FALSE
    BY <1>2, <1>3, MarksAre DEF Ends
  <2>2. k > n => FALSE
    BY <1>2, <1>3, EndsShape, MarksAre
  <2>3. QED
    BY <2>1, <2>2
<1>5. Nth(t, c, k + 1) \in Cluster \/ Nth(t, c, k + 1) = LAST
  <2>1. CASE k + 1 = n
    BY <1>2, <2>1 DEF Ends
  <2>2. CASE k + 1 < n
    BY <1>2, <2>2, EndsShape
  <2>3. QED
    BY <1>4, <2>1, <2>2
<1>6. QED
  BY <1>3, <1>5, MarksAre

LEMMA WholeSame ==
  ASSUME NEW t, NEW u, NEW c, NEW z \in Nat, Whole(t, c, z),
         \A k \in Nat : Nth(u, c, k) = Nth(t, c, k)
  PROVE  Whole(u, c, z)
<1>1. 1..MaxCluster \subseteq Nat /\ 0..ClustersOf(z) - 1 \subseteq Nat
  BY RdcfAssumption, ClustersNeeded
<1>2. QED
  BY <1>1 DEF Whole, Ended, Reaches

(* A sector is written in the cluster behind it. *)
LEMMA WholeMore ==
  ASSUME NEW t, NEW c, NEW z \in Nat, Whole(t, c, z), NEW p \in Nat,
         Nth(t, c, p \div PerCluster) \in Cluster
  PROVE  Whole(t, c, p + 1) /\ c # EMPTY
<1>1. p \div PerCluster \in Nat /\ ClustersOf(p + 1) = p \div PerCluster + 1
  BY PlaceOf, ClustersNeeded
<1>2. c # EMPTY
  <2>1. SUFFICES ASSUME c = EMPTY PROVE FALSE
    OBVIOUS
  <2>2. c \notin Cluster
    BY <2>1, MarksAre
  <2>3. Nth(t, c, p \div PerCluster) = EMPTY
    BY <1>1, <2>1, <2>2, NoChain
  <2>4. QED
    BY <2>3, MarksAre
<1>3. PICK n \in Nat : n >= 1 /\ Ends(t, c, n)
  BY <1>2, WholeIs
<1>4. p \div PerCluster < n
  <2>1. p \div PerCluster = n => FALSE
    BY <1>3, MarksAre DEF Ends
  <2>2. p \div PerCluster > n => FALSE
    BY <1>1, <1>3, EndsShape, MarksAre
  <2>3. QED
    BY <1>1, <2>1, <2>2
<1>5. QED
  BY <1>1, <1>2, <1>3, <1>4, WholeWhen

(* add_new_cluster, to the end of a chain. *)
LEMMA LinkedLast ==
  ASSUME NEW t, NEW c, NEW n \in Nat, n >= 1, Ends(t, c, n),
         NEW x \in Cluster, t[x] = EMPTY, NEW l, l = Nth(t, c, n - 1), NEW u, u = Linked(t, l, x)
  PROVE  /\ Nth(u, c, n) = x /\ Ends(u, c, n + 1)
         /\ Chain(t, c) \subseteq Chain(u, c) /\ x \in Chain(u, c)
         /\ Chain(u, c) \subseteq Chain(t, c) \cup {x}
<1>1. n - 1 \in Nat /\ n - 1 < n /\ (n - 1) + 1 = n
  OBVIOUS
<1>2. \A i \in Nat : i < n => Nth(t, c, i) \in Cluster
  BY EndsShape
<1>3. t[l] = LAST /\ l \in Cluster /\ l # x
  <2>1. l \in Cluster
    BY <1>1, <1>2
  <2>2. t[l] = LAST
    BY <1>1, <2>1, NthStep DEF Ends
  <2>3. QED
    BY <2>1, <2>2, MarksAre
<1>4. /\ u[x] = LAST /\ u[l] = x
      /\ \A y \in Cluster : y # x /\ y # l => u[y] = t[y]
  BY <1>3 DEF Linked
<1>5. ASSUME NEW i \in Nat, i < n
      PROVE  Nth(u, c, i) = Nth(t, c, i)
  <2> DEFINE S == {k \in Nat : k < n /\ Nth(u, c, k) # Nth(t, c, k)}
  <2>1. SUFFICES ASSUME S # {} PROVE FALSE
    BY <1>5
  <2>2. PICK m \in S : \A k \in S : m <= k
    BY <2>1, Least
  <2>3. m # 0
    BY <2>2, NthStep
  <2>4. m - 1 \in Nat /\ (m - 1) + 1 = m /\ m - 1 < n /\ m - 1 < n - 1 /\ m < n
        /\ Nth(u, c, m - 1) = Nth(t, c, m - 1)
    BY <2>2, <2>3
  <2> DEFINE y == Nth(t, c, m - 1)
  <2>5. y \in Cluster /\ y # l
    BY <1>1, <1>2, <2>4, EndsOnce
  <2>6. y # x
    <3>1. t[y] = Nth(t, c, m)
      BY <2>4, <2>5, NthStep
    <3>2. t[y] \in Cluster
      BY <1>2, <2>2, <2>4, <3>1
    <3>3. QED
      BY <3>2, MarksAre
  <2>7. Nth(u, c, m) = u[y] /\ Nth(t, c, m) = t[y]
    BY <2>4, <2>5, NthStep
  <2>8. QED
    BY <1>4, <2>2, <2>5, <2>6, <2>7
<1>6. Nth(u, c, n) = x
  <2>1. Nth(u, c, n - 1) = l
    BY <1>1, <1>5
  <2>2. QED
    BY <1>1, <1>3, <1>4, <2>1, NthStep
<1>7. Ends(u, c, n + 1)
  <2>1. Nth(u, c, n + 1) = LAST
    BY <1>4, <1>6, NthStep
  <2>2. QED
    BY <2>1 DEF Ends
<1>8. x \in Chain(u, c)
  BY <1>6, NthInChain
<1>9. ASSUME NEW y \in Chain(t, c)
      PROVE  y \in Chain(u, c)
  <2>1. PICK k \in Nat : y = Nth(t, c, k) /\ y \in Cluster
    BY ChainHas
  <2>2. k < n
    <3>1. k = n => FALSE
      BY <2>1, MarksAre DEF Ends
    <3>2. k > n => FALSE
      BY <2>1, EndsShape, MarksAre
    <3>3. QED
      BY <3>1, <3>2
  <2>3. Nth(u, c, k) = y
    BY <1>5, <2>1, <2>2
  <2>4. QED
    BY <2>1, <2>3, NthInChain
<1>10. Chain(t, c) \subseteq Chain(u, c)
  BY <1>9
<1>11. ASSUME NEW y \in Chain(u, c)
       PROVE  y \in Chain(t, c) \/ y = x
  <2>1. PICK k \in Nat : y = Nth(u, c, k) /\ y \in Cluster
    BY ChainHas
  <2>2. CASE k < n
    <3>1. y = Nth(t, c, k)
      BY <1>5, <2>1, <2>2
    <3>2. QED
      BY <2>1, <3>1, NthInChain
  <2>3. CASE k = n
    BY <1>6, <2>1, <2>3
  <2>4. CASE k = n + 1
    BY <1>7, <2>1, <2>4, MarksAre DEF Ends
  <2>5. CASE k > n + 1
    BY <1>7, <2>1, <2>5, EndsShape, MarksAre
  <2>6. QED
    BY <2>2, <2>3, <2>4, <2>5
<1>12. Chain(u, c) \subseteq Chain(t, c) \cup {x}
  BY <1>11
<1>13. QED
  BY <1>6, <1>7, <1>8, <1>10, <1>12

(* And as the first of a file. *)
LEMMA OneLink ==
  ASSUME NEW t, NEW x \in Cluster, t[x] \notin Cluster
  PROVE  Nth(t, x, 0) = x /\ Nth(t, x, 1) = t[x] /\ Chain(t, x) = {x}
<1>1. Nth(t, x, 0) = x
  BY NthStep
<1>2. Nth(t, x, 0 + 1) = t[x]
  BY <1>1, NthStep
<1>3. x \in Chain(t, x)
  BY <1>1, NthInChain
<1>4. ASSUME NEW y \in Chain(t, x)
      PROVE  y = x
  <2>1. PICK k \in Nat : y = Nth(t, x, k) /\ y \in Cluster
    BY ChainHas
  <2>2. k = 0 \/ k = 1 \/ k > 1
    OBVIOUS
  <2>3. k > 1 => Nth(t, x, k) = EMPTY
    BY <1>2, Beyond
  <2>4. QED
    BY <1>1, <1>2, <2>1, <2>2, <2>3, MarksAre
<1>5. QED
  BY <1>1, <1>2, <1>3, <1>4

LEMMA LinkedFirst ==
  ASSUME NEW t, NEW x \in Cluster, NEW u, u = Linked(t, EMPTY, x)
  PROVE  Nth(u, x, 0) = x /\ Ends(u, x, 1) /\ Chain(u, x) = {x}
<1>1. u[x] = LAST /\ LAST \notin Cluster
  BY MarksAre DEF Linked
<1>2. QED
  BY <1>1, OneLink DEF Ends

(* The tail of a chain that ends, known by its mark. *)
LEMMA TailIs ==
  ASSUME NEW t, NEW c, NEW n \in Nat, n >= 1, Ends(t, c, n), NEW l \in Chain(t, c), t[l] = LAST
  PROVE  l = Nth(t, c, n - 1)
<1>1. PICK k \in Nat : l = Nth(t, c, k) /\ t[l] = Nth(t, c, k + 1)
  BY ChainHas
<1>2. k + 1 = n
  BY <1>1, EndsShape
<1>3. QED
  BY <1>1, <1>2

-----------------------------------------------------------------------------
(* Claims. *)

ClaimsOf(D, F, O, E) == {Claim(s, D[s]) : s \in E} \cup {Claim(F[d].slot, F[d]) : d \in O}

(* A claim that is met in the FAT t when those of K are. *)
Covered(t, a, K) ==
  \/ a.first = EMPTY /\ a.size = 0
  \/ \E b \in K : /\ b.slot = a.slot /\ b.first = a.first
                  /\ b.size = a.size \/ Whole(t, a.first, a.size)

LEMMA ClaimFields ==
  ASSUME NEW s, NEW e
  PROVE  Claim(s, e).slot = s /\ Claim(s, e).first = e.first /\ Claim(s, e).size = e.size
BY DEF Claim

LEMMA SoundBy ==
  ASSUME NEW t, NEW K, NEW L, Sound(t, K), \A a \in L : Covered(t, a, K)
  PROVE  Sound(t, L)
<1>1. ASSUME NEW a \in L, NEW b \in L, a.slot # b.slot
      PROVE  Chain(t, a.first) \cap Chain(t, b.first) = {}
  <2>1. CASE a.first = EMPTY \/ b.first = EMPTY
    BY <2>1, NoChain, MarksAre
  <2>2. CASE a.first # EMPTY /\ b.first # EMPTY
    <3>1. PICK x \in K : x.slot = a.slot /\ x.first = a.first
      BY <2>2 DEF Covered
    <3>2. PICK y \in K : y.slot = b.slot /\ y.first = b.first
      BY <2>2 DEF Covered
    <3>3. x.slot # y.slot
      BY <1>1, <3>1, <3>2
    <3>4. Chain(t, x.first) \cap Chain(t, y.first) = {}
      BY <3>3 DEF Sound, Apart
    <3>5. QED
      BY <3>1, <3>2, <3>4
  <2>3. QED
    BY <2>1, <2>2
<1>2. ASSUME NEW a \in L, a.size > 0
      PROVE  Whole(t, a.first, a.size)
  <2>1. CASE a.size = 0
    BY <1>2, <2>1
  <2>2. CASE \E b \in K : /\ b.slot = a.slot /\ b.first = a.first
                          /\ b.size = a.size \/ Whole(t, a.first, a.size)
    <3>1. PICK b \in K : b.first = a.first /\ (b.size = a.size \/ Whole(t, a.first, a.size))
      BY <2>2
    <3>2. CASE b.size = a.size
      <4>1. Whole(t, b.first, b.size)
        BY <1>2, <3>2 DEF Sound, Sized
      <4>2. QED
        BY <3>1, <3>2, <4>1
    <3>3. QED
      BY <3>1, <3>2
  <2>3. QED
    BY <2>1, <2>2 DEF Covered
<1>3. QED
  BY <1>1, <1>2 DEF Sound, Apart, Sized

(* Claims on chains that a change of the FAT leaves alone. *)
LEMMA SoundMoved ==
  ASSUME NEW t, NEW u, NEW K, Sound(t, K), \A a \in K : a.size > 0 => a.size \in Nat,
         \A a \in K : \A x \in Chain(t, a.first) : u[x] = t[x]
  PROVE  Sound(u, K)
<1>1. \A a \in K : /\ Chain(u, a.first) = Chain(t, a.first)
                   /\ \A k \in Nat : Nth(u, a.first, k) = Nth(t, a.first, k)
  <2>1. ASSUME NEW c, \A x \in Chain(t, c) : u[x] = t[x]
        PROVE  Chain(u, c) = Chain(t, c) /\ \A k \in Nat : Nth(u, c, k) = Nth(t, c, k)
    BY <2>1, SameWalk
  <2>2. QED
    BY <2>1
<1>2. Apart(u, K)
  BY <1>1 DEF Sound, Apart
<1>3. ASSUME NEW a \in K, a.size > 0
      PROVE  Whole(u, a.first, a.size)
  BY <1>1, <1>3, WholeSame DEF Sound, Sized
<1>4. QED
  BY <1>2, <1>3 DEF Sound, Sized

-----------------------------------------------------------------------------
(* What holds between the steps of a program that keeps the rules. *)

Steady == IInv /\ Disciplined /\ ~torn /\ Sane

LEMMA ClaimsAre ==
  ASSUME NEW E
  PROVE  /\ Claims(E) = ClaimsOf(dir, fcb, Owners, E)
         /\ \A s \in E : Claim(s, dir[s]) \in Claims(E)
         /\ \A d \in Owners : Claim(SlotOf(d), fcb[d]) \in Claims(E)
         /\ \A a \in Claims(E) : \/ \E s \in E : a = Claim(s, dir[s])
                                 \/ \E d \in Owners : a = Claim(SlotOf(d), fcb[d])
BY DEF Claims, ClaimsOf, SlotOf

LEMMA Kinds ==
  ASSUME Steady
  PROVE  /\ None \notin Fds /\ TMP \notin Fds /\ None # TMP /\ 0 \notin Slots
         /\ held \subseteq Fds /\ Owners \subseteq Fds /\ TMP \notin Owners /\ None \notin Owners
         /\ Live \subseteq Slots /\ InFat \subseteq Live
         /\ \A d \in Fds \cup {TMP} : /\ fcb[d] \in File /\ fcb[d].size \in Nat /\ fcb[d].pos \in Nat
                                      /\ fcb[d].first \in Marks /\ fcb[d].slot \in Slots \cup {0}
         /\ \A s \in Slots : dir[s] \in Entry /\ dir[s].size \in Nat /\ dir[s].first \in Marks
         /\ lpos \in Nat /\ lsize \in Nat /\ todo \in Nat
<1>1. None \notin Fds /\ TMP \notin Fds /\ None # TMP /\ 0 \notin Slots
  BY RdcfAssumption DEF None, TMP
<1>2. held \subseteq Fds /\ Owners \subseteq Fds
  BY DEF Steady, IInv, TypeOK, CallInv, Owners
<1>3. Live \subseteq Slots /\ InFat \subseteq Live
  BY DEF Live, InFat
<1>4. \A d \in Fds \cup {TMP} : /\ fcb[d] \in File /\ fcb[d].size \in Nat /\ fcb[d].pos \in Nat
                                /\ fcb[d].first \in Marks /\ fcb[d].slot \in Slots \cup {0}
  BY DEF Steady, IInv, TypeOK, File, Marks
<1>5. \A s \in Slots : dir[s] \in Entry /\ dir[s].size \in Nat /\ dir[s].first \in Marks
  BY DEF Steady, IInv, TypeOK, Entry, Marks
<1>6. lpos \in Nat /\ lsize \in Nat /\ todo \in Nat
  BY DEF Steady, IInv, TypeOK
<1>7. QED
  BY <1>1, <1>2, <1>3, <1>4, <1>5, <1>6

LEMMA Sizes ==
  ASSUME Steady, NEW E \in SUBSET Slots, NEW a \in Claims(E)
  PROVE  a.size \in Nat
BY Kinds, ClaimsAre, ClaimFields

(* No call but a write leaves a link half on the card. *)
LEMMA NoLoose ==
  ASSUME Steady, op # "write"
  PROVE  loose = EMPTY /\ Sealed = card
BY DEF Steady, Sane, FatInv, BufferInv, Sealed

(* Between calls. *)
LEMMA Resting ==
  ASSUME Steady, op = "none"
  PROVE  /\ pc = "idle" /\ cur = TMP /\ fat = card /\ loose = EMPTY /\ Sealed = card
         /\ Owners = held /\ Released = {} /\ InFat = Live /\ OnCard = Live
<1>1. pc = "idle" /\ cur = TMP /\ fat = card
  BY DEF Steady, Sane, PlaceInv, FatInv
<1>2. QED
  BY <1>1, NoLoose DEF Owners, Released, InFat, OnCard

(* A file is whole, but for one that is being written or whose last call     *)
(* failed.                                                                   *)
LEMMA OwnerWhole ==
  ASSUME Steady, NEW d \in Owners
  PROVE  /\ fcb[d].size > 0 => Whole(fat, fcb[d].first, fcb[d].size)
         /\ (d # bad \/ ~hurt) /\ ~At("write", d) => Whole(fat, fcb[d].first, fcb[d].size)
<1>1. Claim(SlotOf(d), fcb[d]) \in Claims(InFat)
  BY ClaimsAre
<1>2. fcb[d].size > 0 => Whole(fat, fcb[d].first, fcb[d].size)
  BY <1>1, ClaimFields DEF Steady, Sane, FatInv, Sound, Sized
<1>3. fcb[d].size \in Nat
  BY Kinds
<1>4. (d # bad \/ ~hurt) /\ ~At("write", d) /\ fcb[d].size = 0 => fcb[d].first = EMPTY
  BY DEF Steady, Sane, HolderInv
<1>5. QED
  BY <1>2, <1>3, <1>4, NothingWhole

LEMMA EntryWhole ==
  ASSUME Steady, NEW s \in InFat
  PROVE  Whole(fat, dir[s].first, dir[s].size)
<1>1. Claim(s, dir[s]) \in Claims(InFat)
  BY ClaimsAre
<1>2. dir[s].size > 0 => Whole(fat, dir[s].first, dir[s].size)
  BY <1>1, ClaimFields DEF Steady, Sane, FatInv, Sound, Sized
<1>3. dir[s].size \in Nat /\ (dir[s].size = 0 => dir[s].first = EMPTY)
  BY Kinds DEF Steady, Sane, HolderInv
<1>4. QED
  BY <1>2, <1>3, NothingWhole

LEMMA ClaimWhole ==
  ASSUME Steady, bad = None, NEW a \in Claims(InFat), op # "write" \/ a.slot # SlotOf(cur)
  PROVE  Whole(fat, a.first, a.size)
<1>1. CASE \E s \in InFat : a = Claim(s, dir[s])
  BY <1>1, EntryWhole, ClaimFields
<1>2. CASE \E d \in Owners : a = Claim(SlotOf(d), fcb[d])
  <2>1. PICK d \in Owners : a = Claim(SlotOf(d), fcb[d])
    BY <1>2
  <2>2. d # bad /\ ~At("write", d)
    BY <2>1, Kinds, ClaimFields DEF At
  <2>3. QED
    BY <2>1, <2>2, OwnerWhole, ClaimFields
<1>3. QED
  BY <1>1, <1>2, ClaimsAre

(* Claims for two files are apart. *)
LEMMA Separate ==
  ASSUME Steady, NEW a \in Claims(InFat), NEW b \in Claims(InFat), a.slot # b.slot
  PROVE  Chain(fat, a.first) \cap Chain(fat, b.first) = {}
BY DEF Steady, Sane, FatInv, Sound, Apart

(* No release is under way, so the card has all that the directory names. *)
LEMMA Settled ==
  ASSUME Steady, ~Releasing
  PROVE  OnCard = Live
<1>1. CASE pc \in {"rest", "dir"}
  <2>1. CASE op \in {"open", "unlink"}
    BY <1>1, <2>1 DEF Releasing, OnCard, InFat, Released, Live, SlotOf
  <2>2. CASE op \notin {"open", "unlink"}
    BY <1>1, <2>2 DEF OnCard, InFat, Released
  <2>3. QED
    BY <2>1, <2>2
<1>2. CASE pc \notin {"rest", "dir"}
  BY <1>2 DEF OnCard
<1>3. QED
  BY <1>1, <1>2

(* When a step leaves nothing in the buffer, the FAT and the card are met by *)
(* the same claims.                                                          *)
LEMMA QuietFat ==
  ASSUME fat' = card', loose' = EMPTY, op' # "write",
         pc' # "dir" => op' \notin {"open", "unlink"},
         Sound(card', ClaimsOf(dir', fcb', Owners', InFat'))
  PROVE  FatInv'
<1>1. Claims(InFat)' = ClaimsOf(dir', fcb', Owners', InFat')
  BY DEF Claims, ClaimsOf, SlotOf
<1>2. OnCard' = InFat'
  BY DEF OnCard, InFat, Released
<1>3. Sound(card', Claims(OnCard)') /\ Sound(fat, Claims(InFat))'
  BY <1>1, <1>2 DEF Claims
<1>4. SameElsewhere' /\ GrowthInv' /\ BufferInv'
  BY DEF SameElsewhere, GrowthInv, BufferInv
<1>5. Sealed' = card'
  BY DEF Sealed
<1>6. QED
  BY <1>3, <1>4, <1>5 DEF FatInv

-----------------------------------------------------------------------------
(* Steps that leave the files as they are. *)

SameFile(f, g) == f.slot = g.slot /\ f.first = g.first /\ f.size = g.size /\ f.mode = g.mode

LEMMA Permitted ==
  ASSUME Steady, Allowed(None)
  PROVE  /\ pc = "idle" /\ op = "none" /\ cur = TMP /\ bad = None /\ valid
         /\ fat = card /\ loose = EMPTY /\ Sealed = card
         /\ Owners = held /\ Released = {} /\ InFat = Live /\ OnCard = Live
<1>1. pc = "idle" /\ valid /\ bad = None
  BY DEF Allowed, Idle, Steady, Disciplined
<1>2. op = "none"
  BY <1>1 DEF Steady, Sane, PlaceInv
<1>3. QED
  BY <1>1, <1>2, Resting

LEMMA OwnersOpen ==
  ASSUME Steady, NEW d \in Owners
  PROVE  Open(d) /\ SlotOf(d) \in Slots /\ SlotOf(d) # 0
<1>1. SlotOf(d) \in Slots /\ 0 \notin Slots
  BY Kinds DEF Steady, Sane, HolderInv
<1>2. QED
  BY <1>1 DEF Open, SlotOf, NoFile

(* A step that writes one control block. *)
LEMMA OneBlock ==
  ASSUME Steady, NEW d \in Fds \cup {TMP}, NEW g, fcb' = [fcb EXCEPT ![d] = g]
  PROVE  fcb'[d] = g /\ \A e \in Fds \cup {TMP} : e # d => fcb'[e] = fcb[e]
BY DEF Steady, IInv, TypeOK

LEMMA SameClaims ==
  ASSUME Steady, UNCHANGED dir, Owners' = Owners, InFat' = InFat,
         \A e \in Owners : SameFile(fcb'[e], fcb[e])
  PROVE  Claims(InFat)' = Claims(InFat) /\ ClaimsOf(dir', fcb', Owners', InFat') = Claims(InFat)
<1>1. \A e \in Owners : Claim(fcb'[e].slot, fcb'[e]) = Claim(fcb[e].slot, fcb[e])
  BY DEF SameFile, Claim
<1>2. ClaimsOf(dir', fcb', Owners', InFat') = Claims(InFat)
  BY <1>1 DEF ClaimsOf, Claims, SlotOf
<1>3. Claims(InFat)' = ClaimsOf(dir', fcb', Owners', InFat')
  BY DEF Claims, ClaimsOf, SlotOf
<1>4. QED
  BY <1>2, <1>3

LEMMA SameHolders ==
  ASSUME Steady, UNCHANGED <<fat, dir>>, held' \subseteq held, hurt => hurt',
         Owners' = Owners, InFat' = InFat, \A e \in Owners : SameFile(fcb'[e], fcb[e]),
         \A e \in Fds : Open(e)' => Open(e),
         op # "open", op = "write" => op' = "write" /\ cur' = cur, bad' = bad \/ bad = None
  PROVE  HolderInv' /\ AccountInv'
<1>1. Claims(InFat)' = Claims(InFat) /\ ClaimsOf(dir', fcb', Owners', InFat') = Claims(InFat)
  BY SameClaims
<1>2. /\ \A e \in Owners : ~At("open", e) /\ (At("write", e) => At("write", e)')
      /\ \A e \in Owners : e = bad => e = bad'
      /\ held \subseteq Owners /\ Live' = Live
      /\ \A e \in Owners : /\ SlotOf(e)' = SlotOf(e) /\ fcb'[e].size = fcb[e].size
                           /\ fcb'[e].first = fcb[e].first /\ fcb'[e].mode = fcb[e].mode
                           /\ Claim(SlotOf(e), fcb[e])' = Claim(SlotOf(e), fcb[e])
  BY Kinds DEF At, Owners, Live, SlotOf, SameFile, Claim
<1>3. HolderInv'
  <2>1. \A d \in Owners : SlotOf(d)' \in Slots
    BY <1>2 DEF Steady, Sane, HolderInv
  <2>2. \A d, e \in Owners : SlotOf(d)' = SlotOf(e)' => d = e
    BY <1>2 DEF Steady, Sane, HolderInv
  <2>3. \A d \in held' : SlotOf(d)' \in Live' \/ d = bad'
    BY <1>2 DEF Steady, Sane, HolderInv
  <2>4. \A d \in Owners : SlotOf(d)' \in InFat' => dir'[SlotOf(d)'].first \in {EMPTY, fcb'[d].first}
    BY <1>2 DEF Steady, Sane, HolderInv
  <2>5. \A d \in Owners : fcb'[d].size = 0 => fcb'[d].first = EMPTY \/ (d = bad' /\ hurt') \/ At("write", d)'
    BY <1>2 DEF Steady, Sane, HolderInv
  <2>6. \A s \in Live' : dir'[s].size = 0 => dir'[s].first = EMPTY
    BY <1>2 DEF Steady, Sane, HolderInv
  <2>7. ~hurt' => \A d \in Fds : Open(d)' => d \in Owners
    BY <1>2 DEF Steady, Sane, HolderInv
  <2>8. ~hurt' => \A d \in Owners :
           \/ "WRITTEN" \in fcb'[d].mode \/ At("write", d)'
           \/ SlotOf(d)' \in Live' /\ Claim(SlotOf(d), fcb[d])' = Claim(SlotOf(d)', dir'[SlotOf(d)'])
    BY <1>2 DEF Steady, Sane, HolderInv
  <2>9. QED
    BY <2>1, <2>2, <2>3, <2>4, <2>5, <2>6, <2>7, <2>8 DEF HolderInv
<1>4. AccountInv'
  BY <1>1 DEF Steady, Sane, AccountInv
<1>5. QED
  BY <1>3, <1>4

LEMMA SameFiles ==
  ASSUME Steady, UNCHANGED <<fat, card, dir, loose>>, held' \subseteq held, fat = card,
         hurt => hurt',
         Owners' = Owners, InFat' = InFat, \A e \in Owners : SameFile(fcb'[e], fcb[e]),
         \A e \in Fds : Open(e)' => Open(e),
         op # "write", op # "open", op' # "write", pc' # "dir" => op' \notin {"open", "unlink"},
         bad' = bad \/ bad = None
  PROVE  FatInv' /\ HolderInv' /\ AccountInv'
<1>1. ClaimsOf(dir', fcb', Owners', InFat') = Claims(InFat)
  BY SameClaims
<1>2. Sound(card', ClaimsOf(dir', fcb', Owners', InFat'))
  BY <1>1 DEF Steady, Sane, FatInv
<1>3. FatInv'
  BY <1>2, QuietFat, NoLoose
<1>4. QED
  BY <1>3, SameHolders

LEMMA BeginReadSane ==
  ASSUME Steady, NEW d \in Fds, NEW n \in Counts, BeginRead(d, n)
  PROVE  ~torn' /\ Sane'
<1>1. /\ pc = "idle" /\ op = "none" /\ cur = TMP /\ bad = None /\ fat = card /\ d \in held
      /\ Owners = held /\ Released = {} /\ InFat = Live
  BY Permitted DEF BeginRead
<1>2. /\ fcb' = [fcb EXCEPT ![d].read = TRUE] /\ lpos' = fcb[d].pos /\ lsize' = fcb[d].size
      /\ op' = "read" /\ cur' = d /\ pc' = "read"
      /\ UNCHANGED <<fat, card, loose, dir, hint, valid, held, bad, hurt, torn>>
  BY DEF BeginRead, Call, disk, hist
<1> DEFINE g == [fcb[d] EXCEPT !.read = TRUE]
<1>a. fcb[d] \in File /\ fcb' = [fcb EXCEPT ![d] = g]
  BY <1>2, Kinds
<1>b. /\ SameFile(g, fcb[d]) /\ g.pos = fcb[d].pos /\ g.cluster = fcb[d].cluster
      /\ g.last = fcb[d].last /\ g.read
  BY <1>a DEF File, SameFile
<1> HIDE DEF g
<1>c. fcb'[d] = g /\ \A e \in Fds \cup {TMP} : e # d => fcb'[e] = fcb[e]
  BY <1>a, OneBlock
<1>3. \A e \in Fds \cup {TMP} : SameFile(fcb'[e], fcb[e])
  BY <1>b, <1>c DEF SameFile
<1>4. Owners' = held /\ InFat' = InFat
  BY <1>1, <1>2 DEF Owners, InFat, Live, Released
<1>5. \A e \in Fds : Open(e)' => Open(e)
  BY <1>1, <1>c, OwnersOpen DEF Open
<1>6. FatInv' /\ HolderInv' /\ AccountInv'
  BY <1>1, <1>2, <1>3, <1>4, <1>5, Kinds, SameFiles
<1>7. PlaceInv'
  BY <1>1, <1>2, <1>4, Kinds DEF Steady, Sane, PlaceInv
<1>8. CursorInv'
  BY <1>1, <1>2, <1>b, <1>c, Kinds DEF Steady, Sane, CursorInv, Cursor, At, SameFile
<1>9. QED
  BY <1>2, <1>6, <1>7, <1>8 DEF Sane, Steady

LEMMA SeekCursor ==
  ASSUME Steady, NEW f \in File, NEW off \in Nat, off <= f.size, Whole(fat, f.first, f.size),
         f.first = EMPTY => f.last = EMPTY
  PROVE  /\ SameFile(SeekTo(f, off), f) /\ SeekTo(f, off).pos = off /\ ~SeekTo(f, off).read
         /\ Cursor(fat, SeekTo(f, off), off, f.size)
<1> DEFINE k == off \div PerCluster
           c == Nth(fat, f.first, k)
           l == IF k > 0 /\ c = LAST THEN Nth(fat, f.first, k - 1) ELSE f.last
           g == SeekTo(f, off)
<1>1. g = [f EXCEPT !.cluster = c, !.pos = off, !.read = FALSE, !.last = l]
  BY DEF SeekTo
<1>2. k \in Nat
  BY PlaceOf
<1>3. Nth(fat, f.first, 0) = f.first /\ f.first # LAST
  BY NthStep, WholeFirst, MarksAre DEF File
<1>4. ASSUME c = LAST
      PROVE  l \in Chain(fat, f.first) /\ fat[l] = LAST
  <2>1. k > 0
    BY <1>2, <1>3, <1>4
  <2>2. k - 1 \in Nat /\ (k - 1) + 1 = k /\ l = Nth(fat, f.first, k - 1)
    BY <1>2, <1>4, <2>1
  <2> HIDE DEF k, l
  <2>3. Nth(fat, f.first, k - 1) \in Cluster
    <3>1. Nth(fat, f.first, k - 1) \notin Cluster => Nth(fat, f.first, (k - 1) + 1) = EMPTY
      BY <2>2, NthStep
    <3>2. QED
      BY <1>4, <2>2, <3>1, MarksAre
  <2>4. QED
    BY <1>4, <2>2, <2>3, NthStep, NthInChain
<1>5. ASSUME f.first = EMPTY
      PROVE  l = EMPTY
  <2>1. off = 0
    <3>1. f.size \in Nat
      BY DEF File
    <3>2. f.size = 0
      BY <1>5, <3>1, WholeIs
    <3>3. QED
      BY <3>2
  <2>2. k = 0
    BY <2>1, PlaceOf
  <2> HIDE DEF k
  <2>3. QED
    BY <1>5, <2>2
<1> HIDE DEF c, l, g
<1>6. /\ SameFile(g, f) /\ g.pos = off /\ ~g.read /\ g.cluster = c /\ g.last = l
  BY <1>1 DEF File, SameFile
<1>7. Cursor(fat, g, off, f.size)
  BY <1>4, <1>5, <1>6 DEF Cursor, SameFile, c
<1>8. QED
  BY <1>6, <1>7 DEF g

LEMMA ReadSectorSane ==
  ASSUME Steady, ReadSector
  PROVE  ~torn' /\ Sane'
<1> DEFINE f == fcb[cur]
           g == IF lpos' % PerCluster = 0 /\ lpos' < lsize
                  THEN [f EXCEPT !.cluster = fat[f.cluster],
                                 !.last = IF fat[f.cluster] = LAST THEN f.cluster ELSE f.last]
                  ELSE f
<1>1. /\ pc = "read" /\ op = "read" /\ cur \in held /\ cur \in Fds /\ bad = None /\ fat = card
      /\ Owners = held /\ Released = {}
  BY Kinds DEF ReadSector, Steady, Sane, PlaceInv, FatInv, Owners, Released
<1>2. /\ UNCHANGED <<fat, card, loose, dir, hint, valid, pc, op, cur, lsize, held, bad, hurt, torn>>
      /\ lpos' = lpos + 1 /\ todo' = todo - 1 /\ lpos < lsize /\ f.cluster \in Cluster
  BY DEF ReadSector, disk, hist
<1>3. f \in File /\ lpos \in Nat /\ lsize \in Nat /\ f.size \in Nat
  BY <1>1, Kinds
<1>4. fcb' = [fcb EXCEPT ![cur] = g]
  <2>1. CASE lpos' % PerCluster = 0 /\ lpos' < lsize
    BY <1>1, <2>1 DEF ReadSector, Steady, IInv, TypeOK
  <2>2. CASE ~(lpos' % PerCluster = 0 /\ lpos' < lsize)
    BY <1>1, <2>2 DEF ReadSector, Steady, IInv, TypeOK
  <2>3. QED
    BY <2>1, <2>2
<1>5. fcb'[cur] = g /\ \A e \in Fds \cup {TMP} : e # cur => fcb'[e] = fcb[e]
  <2> HIDE DEF g, f
  <2>1. QED
    BY <1>1, <1>4, OneBlock
<1>6. SameFile(g, f) /\ g.pos = f.pos /\ g.read = f.read
  BY <1>3 DEF File, SameFile
<1>7. Cursor(fat, f, lpos, lsize) /\ f.read /\ lsize = f.size
  BY <1>1 DEF Steady, Sane, CursorInv
<1>8. Cursor(fat, g, lpos', lsize)
  <2>1. f.cluster = Nth(fat, f.first, lpos \div PerCluster)
    BY <1>2, <1>7 DEF Cursor
  <2>2. lpos' \in Nat /\ lpos' <= lsize
    BY <1>2, <1>3
  <2>3. f.first # EMPTY
    <3>1. SUFFICES ASSUME f.first = EMPTY PROVE FALSE
      OBVIOUS
    <3>2. f.first \notin Cluster
      BY <3>1, MarksAre
    <3>3. Nth(fat, f.first, lpos \div PerCluster) = EMPTY
      BY <1>3, <3>1, <3>2, PlaceOf, NoChain
    <3>4. QED
      BY <1>2, <2>1, <3>3, MarksAre
  <2>4. lpos' < lsize => g.cluster = Nth(fat, f.first, lpos' \div PerCluster)
    <3>1. CASE lpos' % PerCluster = 0 /\ lpos' < lsize
      <4>1. g.cluster = fat[f.cluster]
        BY <1>3, <3>1 DEF File
      <4>2. lpos \div PerCluster \in Nat /\ lpos' \div PerCluster = lpos \div PerCluster + 1
        BY <1>2, <1>3, <3>1, PlaceOf
      <4>3. QED
        BY <1>2, <2>1, <4>1, <4>2, NthStep
    <3>2. CASE ~(lpos' % PerCluster = 0) /\ lpos' < lsize
      <4>1. g.cluster = f.cluster
        BY <3>2
      <4>2. lpos' \div PerCluster = lpos \div PerCluster
        BY <1>2, <1>3, <3>2, PlaceOf
      <4>3. QED
        BY <2>1, <4>1, <4>2
    <3>3. QED
      BY <3>1, <3>2
  <2>5. QED
    BY <1>6, <1>7, <2>2, <2>3, <2>4 DEF Cursor, SameFile
<1>9. Owners' = held /\ InFat' = InFat
  BY <1>1, <1>2 DEF Owners, InFat, Live, Released
<1>10. \A e \in Fds : Open(e)' => Open(e)
  BY <1>1, <1>5, OwnersOpen DEF Open
<1>11. \A e \in Owners : SameFile(fcb'[e], fcb[e])
  BY <1>1, <1>5, <1>6, Kinds DEF SameFile
<1> HIDE DEF g, f
<1>12. FatInv' /\ HolderInv' /\ AccountInv'
  BY <1>1, <1>2, <1>9, <1>10, <1>11, SameFiles
<1>13. PlaceInv'
  BY <1>1, <1>2, <1>9, Kinds DEF Steady, Sane, PlaceInv
<1>14. CursorInv'
  <2>1. Cursor(fat, fcb[cur], lpos, lsize)' /\ fcb'[cur].read /\ lsize' = fcb'[cur].size
    BY <1>2, <1>5, <1>6, <1>7, <1>8 DEF Cursor, SameFile
  <2>2. \A e \in held : e # cur => Cursor(fat, fcb[e], fcb[e].pos, fcb[e].size)'
    <3>1. \A e \in held : e # cur => Cursor(fat, fcb[e], fcb[e].pos, fcb[e].size)
      BY <1>1, Kinds DEF Steady, Sane, CursorInv, At
    <3>2. QED
      BY <1>2, <1>5, <3>1, Kinds DEF Cursor
  <2>3. QED
    BY <1>1, <1>2, <2>1, <2>2 DEF CursorInv, At
<1>15. QED
  BY <1>2, <1>12, <1>13, <1>14 DEF Sane, Steady

LEMMA EndReadSane ==
  ASSUME Steady, EndRead
  PROVE  ~torn' /\ Sane'
<1> DEFINE g == [fcb[cur] EXCEPT !.pos = lpos]
<1>1. /\ pc = "read" /\ op = "read" /\ cur \in held /\ cur \in Fds /\ bad = None /\ fat = card
      /\ Owners = held /\ Released = {}
  BY Kinds DEF EndRead, Steady, Sane, PlaceInv, FatInv, Owners, Released
<1>2. /\ UNCHANGED <<fat, card, loose, dir, hint, valid, held, bad, hurt, torn>>
      /\ op' = "none" /\ cur' = TMP /\ pc' = "idle"
  BY DEF EndRead, Return, disk, hist
<1>3. fcb[cur] \in File /\ fcb' = [fcb EXCEPT ![cur] = g]
  BY <1>1, Kinds DEF EndRead
<1>4. /\ SameFile(g, fcb[cur]) /\ g.pos = lpos /\ g.read = fcb[cur].read
      /\ g.cluster = fcb[cur].cluster /\ g.last = fcb[cur].last
  BY <1>3 DEF File, SameFile
<1> HIDE DEF g
<1>5. fcb'[cur] = g /\ \A e \in Fds \cup {TMP} : e # cur => fcb'[e] = fcb[e]
  BY <1>1, <1>3, OneBlock
<1>6. Owners' = held /\ InFat' = InFat
  BY <1>1, <1>2 DEF Owners, InFat, Live, Released
<1>7. \A e \in Fds : Open(e)' => Open(e)
  BY <1>1, <1>5, OwnersOpen DEF Open
<1>8. \A e \in Owners : SameFile(fcb'[e], fcb[e])
  BY <1>1, <1>4, <1>5, Kinds DEF SameFile
<1>9. FatInv' /\ HolderInv' /\ AccountInv'
  BY <1>1, <1>2, <1>6, <1>7, <1>8, SameFiles
<1>10. PlaceInv'
  BY <1>1, <1>2, <1>6, Kinds DEF Steady, Sane, PlaceInv
<1>11. CursorInv'
  <2>1. Cursor(fat, fcb[cur], lpos, lsize) /\ lsize = fcb[cur].size
    BY <1>1 DEF Steady, Sane, CursorInv
  <2>2. \A e \in held : Cursor(fat, fcb[e], fcb[e].pos, fcb[e].size)'
    <3>1. \A e \in held : e # cur => Cursor(fat, fcb[e], fcb[e].pos, fcb[e].size)
      BY <1>1, Kinds DEF Steady, Sane, CursorInv, At
    <3>2. QED
      BY <1>2, <1>4, <1>5, <2>1, <3>1, Kinds DEF Cursor, SameFile
  <2>3. QED
    BY <1>2, <2>2 DEF CursorInv
<1>12. QED
  BY <1>2, <1>9, <1>10, <1>11 DEF Sane, Steady

(* What lseek and an appending open or write make of a descriptor.           *)
LEMMA Sought ==
  ASSUME Steady, Allowed(None), NEW d \in held, NEW off \in Nat, off <= fcb[d].size
  PROVE  /\ SameFile(SeekTo(fcb[d], off), fcb[d])
         /\ SeekTo(fcb[d], off).pos = off /\ ~SeekTo(fcb[d], off).read
         /\ Cursor(fat, SeekTo(fcb[d], off), off, fcb[d].size)
<1>1. op = "none" /\ bad = None /\ Owners = held
  BY Permitted
<1>2. fcb[d] \in File /\ d # bad
  BY <1>1, Kinds
<1>3. Whole(fat, fcb[d].first, fcb[d].size)
  BY <1>1, <1>2, OwnerWhole DEF At
<1>4. fcb[d].first = EMPTY => fcb[d].last = EMPTY
  BY <1>1, <1>2 DEF Steady, Sane, CursorInv, Cursor, At
<1>5. QED
  BY <1>2, <1>3, <1>4, SeekCursor

LEMMA SeekSane ==
  ASSUME Steady, NEW d \in Fds, NEW off \in 0..fcb[d].size, Seek(d, off)
  PROVE  ~torn' /\ Sane'
<1> DEFINE g == SeekTo(fcb[d], off)
<1>1. /\ pc = "idle" /\ op = "none" /\ cur = TMP /\ bad = None /\ fat = card /\ d \in held
      /\ Owners = held /\ Released = {} /\ InFat = Live /\ Allowed(None)
  BY Permitted DEF Seek
<1>2. fcb[d].size \in Nat
  BY Kinds
<1>3. off \in Nat /\ off <= fcb[d].size
  BY <1>2
<1>4. /\ SameFile(g, fcb[d]) /\ g.pos = off /\ ~g.read /\ Cursor(fat, g, off, fcb[d].size)
  BY <1>1, <1>3, Sought
<1>5. /\ UNCHANGED <<fat, card, loose, dir, hint, valid, pc, op, cur, todo, lpos, lsize, held, bad, hurt, torn>>
      /\ fcb' = [fcb EXCEPT ![d] = g]
  BY DEF Seek, disk, local, hist
<1> HIDE DEF g
<1>6. fcb'[d] = g /\ \A e \in Fds \cup {TMP} : e # d => fcb'[e] = fcb[e]
  BY <1>5, OneBlock
<1>7. Owners' = held /\ InFat' = InFat
  BY <1>1, <1>5 DEF Owners, InFat, Live, Released
<1>8. \A e \in Fds : Open(e)' => Open(e)
  BY <1>1, <1>6, OwnersOpen DEF Open
<1>9. \A e \in Owners : SameFile(fcb'[e], fcb[e])
  BY <1>1, <1>4, <1>6, Kinds DEF SameFile
<1>10. FatInv' /\ HolderInv' /\ AccountInv'
  BY <1>1, <1>5, <1>7, <1>8, <1>9, SameFiles
<1>11. PlaceInv'
  BY <1>1, <1>5, <1>7, Kinds DEF Steady, Sane, PlaceInv
<1>12. CursorInv'
  <2>1. \A e \in held : Cursor(fat, fcb[e], fcb[e].pos, fcb[e].size)'
    <3>1. \A e \in held : Cursor(fat, fcb[e], fcb[e].pos, fcb[e].size)
      BY <1>1, Kinds DEF Steady, Sane, CursorInv, At
    <3>2. QED
      BY <1>4, <1>5, <1>6, <3>1, Kinds DEF Cursor, SameFile
  <2>2. QED
    BY <1>1, <1>5, <2>1 DEF CursorInv
<1>13. QED
  BY <1>5, <1>10, <1>11, <1>12 DEF Sane, Steady

LEMMA RenameSane ==
  ASSUME Steady, NEW n \in Names, NEW new \in Names, Rename(n, new)
  PROVE  ~torn' /\ Sane'
<1>1. /\ pc = "idle" /\ op = "none" /\ cur = TMP /\ bad = None /\ fat = card
      /\ Owners = held /\ Released = {} /\ InFat = Live
  BY Permitted DEF Rename
<1>2. PICK s \in Find(n) : fcb' = [fcb EXCEPT ![TMP] = Fcb(new, s, "r", dir[s])]
  BY DEF Rename
<1> DEFINE g == Fcb(new, s, "r", dir[s])
<1>3. /\ UNCHANGED <<fat, card, loose, dir, hint, valid, todo, lpos, lsize, held, bad, hurt, torn>>
      /\ op' = "rename" /\ cur' = TMP /\ pc' = "dir"
  BY DEF Rename, Call, disk, local, hist
<1>4. s \in Live /\ \A d \in held : SlotOf(d) # s
  BY DEF Rename, Unopened, Steady, Disciplined, Find, Live, Holders, SlotOf
<1>5. g.slot = s /\ g.first = dir[s].first /\ g.size = dir[s].size
  BY DEF Fcb, NoFile
<1> HIDE DEF g
<1>6. fcb'[TMP] = g /\ \A e \in Fds \cup {TMP} : e # TMP => fcb'[e] = fcb[e]
  BY <1>2, OneBlock DEF g
<1>7. Owners' = held /\ InFat' = InFat /\ Live' = Live
  BY <1>1, <1>3 DEF Owners, InFat, Live, Released
<1>8. \A e \in held : fcb'[e] = fcb[e] /\ e \in Fds
  BY <1>1, <1>6, Kinds
<1>9. (\A e \in Owners : SameFile(fcb'[e], fcb[e])) /\ \A e \in Fds : Open(e)' => Open(e)
  BY <1>1, <1>6, <1>8, Kinds DEF SameFile, Open
<1>10. FatInv' /\ HolderInv' /\ AccountInv'
  BY <1>1, <1>3, <1>7, <1>9, SameFiles
<1>11. Detached(SlotOf(TMP))' /\ Claim(SlotOf(TMP), fcb[TMP])' = Claim(SlotOf(TMP), dir[SlotOf(TMP)])'
  BY <1>3, <1>4, <1>5, <1>6, <1>7, <1>8 DEF Detached, SlotOf, Claim
<1>12. PlaceInv'
  BY <1>1, <1>3, <1>7, <1>11, Kinds DEF Steady, Sane, PlaceInv
<1>13. CursorInv'
  BY <1>1, <1>3, <1>8, Kinds DEF Steady, Sane, CursorInv, Cursor, At
<1>14. QED
  BY <1>3, <1>10, <1>12, <1>13 DEF Sane, Steady

LEMMA ReinitSane ==
  ASSUME Steady, Reinit \/ RefuseLookup
  PROVE  ~torn' /\ Sane'
<1>1. /\ pc = "idle" /\ op = "none" /\ cur = TMP /\ fat = card
      /\ Owners = held /\ Released = {} /\ InFat = Live
  <2>1. pc = "idle"
    BY DEF Reinit, RefuseLookup, Allowed, Idle
  <2>2. op = "none"
    BY <2>1 DEF Steady, Sane, PlaceInv
  <2>3. QED
    BY <2>2, Resting
<1>2. /\ UNCHANGED <<fat, card, loose, dir, fcb, pc, op, cur, todo, lpos, lsize, held, torn>>
      /\ (hurt => hurt') /\ (~valid' => hurt')
      /\ bad' = bad \/ (bad = None /\ bad' \in {None} \cup held)
  BY <1>1, Permitted DEF Reinit, RefuseLookup, disk, local, hist
<1>3. Owners' = held /\ InFat' = InFat
  BY <1>1, <1>2 DEF Owners, InFat, Live, Released
<1>4. (\A e \in Owners : SameFile(fcb'[e], fcb[e])) /\ \A e \in Fds : Open(e)' => Open(e)
  BY <1>2 DEF SameFile, Open
<1>5. FatInv' /\ HolderInv' /\ AccountInv'
  BY <1>1, <1>2, <1>3, <1>4, SameFiles
<1>6. PlaceInv'
  BY <1>1, <1>2, <1>3, Kinds DEF Steady, Sane, PlaceInv
<1>7. CursorInv'
  BY <1>1, <1>2, Kinds DEF Steady, Sane, CursorInv, Cursor, At
<1>8. QED
  BY <1>2, <1>5, <1>6, <1>7 DEF Sane, Steady

LEMMA BeginWriteSane ==
  ASSUME Steady, NEW d \in Fds, NEW n \in Counts, BeginWrite(d, n)
  PROVE  ~torn' /\ Sane'
<1>1. /\ pc = "idle" /\ op = "none" /\ cur = TMP /\ bad = None /\ fat = card /\ d \in held
      /\ Owners = held /\ Released = {} /\ InFat = Live /\ OnCard = Live /\ Allowed(None)
  BY Permitted DEF BeginWrite
<1>a. loose = EMPTY
  BY Permitted DEF BeginWrite
<1>2. UNCHANGED <<fat, card, loose, dir, hint, valid, held, hurt, torn>> /\ ~fcb[d].read
  BY DEF BeginWrite, disk, Steady, Disciplined
<1>3. CASE "WRITE" \notin fcb[d].mode
  <2>1. /\ fcb' = fcb /\ bad' = d
        /\ \/ op' = "none" /\ cur' = TMP /\ pc' = "idle"
           \/ op' = "give_up" /\ cur' = d /\ pc' = "dir" /\ "WRITTEN" \in fcb'[d].mode
    BY <1>3 DEF BeginWrite, GiveUp, Call, Return
  <2>2. Owners' = held /\ InFat' = InFat
    BY <1>1, <1>2, <2>1 DEF Owners, InFat, Live, Released
  <2>3. (\A e \in Owners : SameFile(fcb'[e], fcb[e])) /\ \A e \in Fds : Open(e)' => Open(e)
    BY <2>1 DEF SameFile, Open
  <2>4. FatInv' /\ HolderInv' /\ AccountInv'
    BY <1>1, <1>2, <2>1, <2>2, <2>3, SameFiles
  <2>5. PlaceInv'
    BY <1>1, <1>2, <2>1, <2>2, Kinds DEF Steady, Sane, PlaceInv
  <2>6. CursorInv'
    BY <1>1, <1>2, <2>1, Kinds DEF Steady, Sane, CursorInv, Cursor, At
  <2>7. QED
    BY <1>2, <2>4, <2>5, <2>6 DEF Sane, Steady
<1>4. CASE "WRITE" \in fcb[d].mode
  <2> DEFINE g == IF "APPEND" \in fcb[d].mode THEN SeekTo(fcb[d], fcb[d].size) ELSE fcb[d]
  <2>1. /\ fcb' = [fcb EXCEPT ![d] = g] /\ lpos' = g.pos /\ lsize' = g.size
        /\ op' = "write" /\ cur' = d /\ pc' = "write" /\ bad' = bad
    BY <1>4 DEF BeginWrite, Call
  <2>2. Cursor(fat, fcb[d], fcb[d].pos, fcb[d].size) /\ fcb[d].size \in Nat /\ fcb[d] \in File
    BY <1>1, Kinds DEF Steady, Sane, CursorInv, At
  <2>3. SameFile(g, fcb[d]) /\ Cursor(fat, g, g.pos, g.size) /\ ~g.read
    <3>1. CASE "APPEND" \in fcb[d].mode
      <4>1. /\ SameFile(SeekTo(fcb[d], fcb[d].size), fcb[d])
            /\ SeekTo(fcb[d], fcb[d].size).pos = fcb[d].size /\ ~SeekTo(fcb[d], fcb[d].size).read
            /\ Cursor(fat, SeekTo(fcb[d], fcb[d].size), fcb[d].size, fcb[d].size)
        BY <1>1, <2>2, Sought
      <4>2. QED
        BY <3>1, <4>1 DEF SameFile
    <3>2. CASE "APPEND" \notin fcb[d].mode
      BY <1>2, <2>2, <3>2 DEF SameFile
    <3>3. QED
      BY <3>1, <3>2
  <2> HIDE DEF g
  <2>4. fcb'[d] = g /\ \A e \in Fds \cup {TMP} : e # d => fcb'[e] = fcb[e]
    BY <2>1, OneBlock
  <2>5. Owners' = held /\ InFat' = InFat /\ OnCard' = Live /\ Live' = Live
    BY <1>1, <1>2, <2>1 DEF Owners, InFat, Live, Released, OnCard
  <2>6. \A e \in Owners : SameFile(fcb'[e], fcb[e])
    BY <1>1, <2>3, <2>4, Kinds DEF SameFile
  <2>7. \A e \in Fds : Open(e)' => Open(e)
    BY <1>1, <2>4, OwnersOpen DEF Open
  <2>8. HolderInv' /\ AccountInv'
    BY <1>1, <1>2, <2>1, <2>5, <2>6, <2>7, SameHolders
  <2>9. FatInv'
    <3>1. Claims(InFat)' = Claims(InFat)
      BY <1>1, <1>2, <2>5, <2>6, SameClaims
    <3>2. Sound(card, Claims(OnCard)') /\ Sound(fat, Claims(InFat))'
      <4>1. Claims(OnCard)' = Claims(InFat)'
        BY <1>1, <2>5 DEF Claims
      <4>2. QED
        BY <1>1, <1>2, <3>1, <4>1 DEF Steady, Sane, FatInv
    <3>3. SameElsewhere'
      BY <1>1, <1>2 DEF SameElsewhere
    <3>4. Whole(fat, fcb[d].first, fcb[d].size)
      BY <1>1, OwnerWhole, Kinds DEF At
    <3>5. GrowthInv'
      BY <1>1, <1>2, <2>1, <2>3, <2>4, <3>4 DEF GrowthInv, SameFile
    <3>6. loose' = EMPTY /\ Unwritten' = {} /\ Sealed' = card
      BY <1>1, <1>2, <1>a DEF Unwritten, Sealed
    <3>7. BufferInv'
      BY <3>6 DEF BufferInv
    <3>8. QED
      BY <1>2, <2>1, <3>2, <3>3, <3>5, <3>6, <3>7 DEF FatInv
  <2>10. PlaceInv'
    BY <1>1, <1>2, <2>1, <2>5, Kinds DEF Steady, Sane, PlaceInv
  <2>11. CursorInv'
    <3>1. \A e \in held : Cursor(fat, fcb[e], fcb[e].pos, fcb[e].size)'
      <4>1. \A e \in held : Cursor(fat, fcb[e], fcb[e].pos, fcb[e].size)
        BY <1>1, Kinds DEF Steady, Sane, CursorInv, At
      <4>2. QED
        BY <1>2, <2>3, <2>4, <4>1, Kinds DEF Cursor
    <3>2. Cursor(fat, fcb[cur], lpos, lsize)' /\ ~fcb'[d].read
      BY <1>1, <1>2, <2>1, <2>3, <2>4 DEF Cursor
    <3>3. g.pos \in Nat /\ g.size \in Nat /\ (g.size > 0 \/ g.first = EMPTY)
      <4>1. g.size = fcb[d].size /\ g.first = fcb[d].first
        BY <2>3 DEF SameFile
      <4>2. fcb[d].size = 0 => fcb[d].first = EMPTY
        BY <1>1, Kinds DEF Steady, Sane, HolderInv, At
      <4>3. g.pos \in Nat
        <5>1. CASE "APPEND" \in fcb[d].mode
          BY <1>1, <2>2, <5>1, Sought DEF g
        <5>2. CASE "APPEND" \notin fcb[d].mode
          BY <5>2, Kinds DEF g
        <5>3. QED
          BY <5>1, <5>2
      <4>4. QED
        BY <2>2, <4>1, <4>2, <4>3
    <3>4. /\ ~fcb'[cur'].read /\ fcb'[cur'].pos <= lpos' /\ fcb'[cur'].size <= lsize'
          /\ lsize' > 0 \/ fcb'[cur'].first = EMPTY
      BY <2>1, <2>4, <3>2, <3>3
    <3>5. QED
      BY <1>2, <2>1, <3>1, <3>2, <3>4 DEF CursorInv
  <2>12. QED
    BY <1>2, <2>8, <2>9, <2>10, <2>11 DEF Sane, Steady
<1>5. QED
  BY <1>3, <1>4

(* A descriptor is given up, and no other has failed. *)
LEMMA Dropped ==
  ASSUME Steady, op = "none", op' = "none", pc' = "idle", cur' = TMP, NEW d \in held,
         held' = held \ {d}, \A e \in Fds : e # d => fcb'[e] = fcb[e],
         bad \in {None, d}, bad' = None, UNCHANGED <<fat, card, loose, dir, hurt, torn, valid>>,
         hurt \/ (fcb'[d] = NoFile /\ "WRITTEN" \notin fcb[d].mode)
  PROVE  ~torn' /\ Sane'
<1>1. /\ pc = "idle" /\ cur = TMP /\ fat = card /\ d \in Fds
      /\ Owners = held /\ Released = {} /\ InFat = Live /\ OnCard = Live
  BY Resting, Kinds
<1>2. Owners' = held' /\ InFat' = InFat /\ Live' = Live
  BY <1>1 DEF Owners, InFat, Live, Released
<1>3. \A e \in held' : e \in held /\ e \in Fds /\ e # d /\ e # bad /\ fcb'[e] = fcb[e]
  BY <1>1, Kinds
<1>4. FatInv'
  <2>1. \A a \in ClaimsOf(dir', fcb', Owners', InFat') : a \in Claims(InFat)
    BY <1>1, <1>2, <1>3, ClaimsAre DEF ClaimsOf, SlotOf
  <2>2. \A a \in ClaimsOf(dir', fcb', Owners', InFat') : Covered(card, a, Claims(InFat))
    BY <2>1 DEF Covered
  <2>3. Sound(card, Claims(InFat))
    BY <1>1 DEF Steady, Sane, FatInv
  <2>4. Sound(card', ClaimsOf(dir', fcb', Owners', InFat'))
    BY <2>2, <2>3, SoundBy
  <2>5. QED
    BY <1>1, <2>4, QuietFat, NoLoose
<1>5. HolderInv'
  <2>1. \A e, h \in Owners' : SlotOf(e)' \in Slots /\ (SlotOf(e)' = SlotOf(h)' => e = h)
    BY <1>1, <1>2, <1>3 DEF Steady, Sane, HolderInv, SlotOf
  <2>2. \A e \in held' : SlotOf(e)' \in Live'
    BY <1>2, <1>3 DEF Steady, Sane, HolderInv, SlotOf, At
  <2>3. \A e \in Owners' : SlotOf(e)' \in InFat' => dir'[SlotOf(e)'].first \in {EMPTY, fcb'[e].first}
    BY <1>1, <1>2, <1>3 DEF Steady, Sane, HolderInv, SlotOf
  <2>4. \A e \in Owners' : fcb'[e].size = 0 => fcb'[e].first = EMPTY
    BY <1>1, <1>2, <1>3 DEF Steady, Sane, HolderInv, At
  <2>5. \A s \in Live' : dir'[s].size = 0 => dir'[s].first = EMPTY
    BY <1>2 DEF Steady, Sane, HolderInv
  <2>6. ~hurt' => \A e \in Fds : Open(e)' => e \in Owners'
    BY <1>1, <1>2 DEF Steady, Sane, HolderInv, Open
  <2>7. ~hurt' => \A e \in Owners' :
           \/ "WRITTEN" \in fcb'[e].mode
           \/ SlotOf(e)' \in Live' /\ Claim(SlotOf(e), fcb[e])' = Claim(SlotOf(e)', dir'[SlotOf(e)'])
    BY <1>1, <1>2, <1>3 DEF Steady, Sane, HolderInv, SlotOf, At
  <2>8. QED
    BY <1>2, <2>1, <2>2, <2>3, <2>4, <2>5, <2>6, <2>7 DEF HolderInv
<1>6. PlaceInv'
  BY <1>1, <1>2, Kinds DEF Steady, Sane, PlaceInv
<1>7. CursorInv'
  BY <1>1, <1>3 DEF Steady, Sane, CursorInv, Cursor, At
<1>8. AccountInv'
  <2> SUFFICES ASSUME ~hurt, NEW c \in Cluster, fat[c] # EMPTY
               PROVE  \E a \in Claims(InFat)' : c \in Chain(fat, a.first)
    BY DEF AccountInv
  <2>1. PICK a \in Claims(InFat) : c \in Chain(fat, a.first)
    BY DEF Steady, Sane, AccountInv
  <2>2. Claims(InFat)' = ClaimsOf(dir', fcb', held', Live)
    BY <1>1, <1>2 DEF Claims, ClaimsOf, SlotOf
  <2>3. \/ \E s \in Live : a = Claim(s, dir[s])
        \/ \E e \in held' : a = Claim(SlotOf(e), fcb[e])
    <3>1. CASE \E s \in Live : a = Claim(s, dir[s])
      BY <3>1
    <3>2. CASE \E e \in held : a = Claim(SlotOf(e), fcb[e])
      <4>1. PICK e \in held : a = Claim(SlotOf(e), fcb[e])
        BY <3>2
      <4>2. CASE e = d
        <5>1. SlotOf(d) \in Live /\ Claim(SlotOf(d), fcb[d]) = Claim(SlotOf(d), dir[SlotOf(d)])
          BY <1>1 DEF Steady, Sane, HolderInv, At
        <5>2. QED
          BY <4>1, <4>2, <5>1
      <4>3. CASE e # d
        BY <4>1, <4>3
      <4>4. QED
        BY <4>2, <4>3
    <3>3. QED
      BY <1>1, <3>1, <3>2, ClaimsAre
  <2>4. a \in Claims(InFat)'
    BY <1>3, <2>2, <2>3 DEF ClaimsOf, SlotOf
  <2>5. QED
    BY <2>1, <2>4
<1>9. QED
  BY <1>4, <1>5, <1>6, <1>7, <1>8 DEF Sane, Steady

LEMMA CloseSane ==
  ASSUME Steady, NEW d \in Fds, Close(d)
  PROVE  ~torn' /\ Sane'
<1>1. pc = "idle" /\ bad \in {None, d} /\ d \in held
  BY DEF Close, Allowed, Idle, Steady, Disciplined
<1>2. op = "none"
  BY <1>1 DEF Steady, Sane, PlaceInv
<1>3. /\ cur = TMP /\ fat = card /\ Owners = held /\ Released = {} /\ InFat = Live
  BY <1>2, Resting
<1>4. UNCHANGED <<fat, card, loose, dir, hint, valid, todo, lpos, lsize, hurt, torn>> /\ held' = held \ {d}
  BY DEF Close, disk, local
<1>5. CASE "WRITTEN" \in fcb[d].mode
  <2>1. op' = "close" /\ cur' = d /\ pc' = "dir" /\ fcb' = fcb /\ bad' = bad
    BY <1>5 DEF Close, Call
  <2>2. Owners' = held /\ InFat' = InFat
    BY <1>1, <1>3, <1>4, <2>1 DEF Owners, InFat, Live, Released
  <2>3. (\A e \in Owners : SameFile(fcb'[e], fcb[e])) /\ \A e \in Fds : Open(e)' => Open(e)
    BY <2>1 DEF SameFile, Open
  <2>4. FatInv' /\ HolderInv' /\ AccountInv'
    BY <1>2, <1>3, <1>4, <2>1, <2>2, <2>3, SameFiles
  <2>5. PlaceInv'
    BY <1>1, <1>2, <1>3, <1>4, <1>5, <2>1, <2>2, Kinds DEF Steady, Sane, PlaceInv
  <2>6. CursorInv'
    BY <1>1, <1>2, <1>4, <2>1, Kinds DEF Steady, Sane, CursorInv, Cursor, At
  <2>7. QED
    BY <1>4, <2>4, <2>5, <2>6 DEF Sane, Steady
<1>6. CASE "WRITTEN" \notin fcb[d].mode
  <2>1. /\ fcb' = [fcb EXCEPT ![d] = NoFile] /\ bad' = None
        /\ pc' = "idle" /\ op' = "none" /\ cur' = TMP
    BY <1>1, <1>2, <1>3, <1>6 DEF Close
  <2>2. fcb'[d] = NoFile /\ \A e \in Fds \cup {TMP} : e # d => fcb'[e] = fcb[e]
    BY <2>1, OneBlock
  <2>3. QED
    BY <1>1, <1>2, <1>4, <1>6, <2>1, <2>2, Dropped
<1>7. QED
  BY <1>5, <1>6

LEMMA CloseLostSane ==
  ASSUME Steady, NEW d \in Fds, CloseLost(d)
  PROVE  ~torn' /\ Sane'
<1>1. pc = "idle" /\ ~valid /\ d \in held /\ bad \in {None, d}
  BY DEF CloseLost, Steady, Disciplined
<1>2. op = "none" /\ hurt /\ cur = TMP
  BY <1>1, Resting DEF Steady, Sane, PlaceInv
<1>3. /\ held' = held \ {d} /\ fcb' = [fcb EXCEPT ![d] = Taken] /\ bad' = None
      /\ pc' = "idle" /\ op' = "none" /\ cur' = TMP
      /\ UNCHANGED <<fat, card, loose, dir, hurt, torn, valid>>
  BY <1>1, <1>2 DEF CloseLost, disk, local
<1>4. \A e \in Fds \cup {TMP} : e # d => fcb'[e] = fcb[e]
  BY <1>3, OneBlock
<1>5. QED
  BY <1>1, <1>2, <1>3, <1>4, Dropped

-----------------------------------------------------------------------------
(* open and unlink. *)

LEMMA CursorMoved ==
  ASSUME NEW t, NEW u, NEW f, NEW p \in Nat, NEW z, Cursor(t, f, p, z),
         \A x \in Chain(t, f.first) : u[x] = t[x]
  PROVE  Cursor(u, f, p, z)
<1> DEFINE c == f.first
<1>1. \A x \in Chain(t, c) : u[x] = t[x]
  OBVIOUS
<1> HIDE DEF c
<1>2. Chain(u, c) = Chain(t, c) /\ \A k \in Nat : Nth(u, c, k) = Nth(t, c, k)
  BY <1>1, SameWalk
<1>3. p \div PerCluster \in Nat
  BY PlaceOf
<1>4. QED
  BY <1>1, <1>2, <1>3 DEF Cursor, c

(* A file is released that no descriptor has open.                           *)
LEMMA ReleasedFile ==
  ASSUME Steady, op = "none", bad = None, NEW s \in Live, Release(dir[s].first),
         \A e \in held : SlotOf(e) # s,
         UNCHANGED <<card, loose, dir, hurt>>, op' \in {"open", "unlink"}, pc' = "flush", SlotOf(cur)' = s,
         held \subseteq Owners', \A e \in held : fcb'[e] = fcb[e],
         \A e \in Owners' \ held : fcb'[e].slot = s /\ fcb'[e].first = EMPTY /\ fcb'[e].size = 0
  PROVE  /\ FatInv' /\ AccountInv' /\ InFat' = Live \ {s}
         /\ \A e \in held : \A x \in Chain(fat, fcb[e].first) : fat'[x] = fat[x]
<1> DEFINE r == dir[s].first
           L == ClaimsOf(dir', fcb', Owners', Live \ {s})
<1>1. /\ pc = "idle" /\ fat = card /\ Owners = held /\ InFat = Live /\ OnCard = Live
  BY Resting
<1>2. InFat' = Live \ {s} /\ OnCard' = Live /\ Live' = Live
  BY DEF InFat, Live, Released, OnCard
<1>3. Claims(InFat)' = L /\ Claims(OnCard)' = ClaimsOf(dir', fcb', Owners', Live)
  BY <1>2 DEF Claims, ClaimsOf, SlotOf
<1>4. \A x \in Cluster : fat'[x] = IF x \in Chain(fat, r) THEN EMPTY ELSE fat[x]
  BY DEF Release
<1>5. \A a \in L : (a.first = EMPTY /\ a.size = 0) \/ (a \in Claims(InFat) /\ a.slot # s)
  <2>1. \A q \in Live \ {s} : Claim(q, dir'[q]) \in Claims(InFat) /\ Claim(q, dir'[q]).slot # s
    BY <1>1, ClaimsAre, ClaimFields
  <2>2. \A e \in held : /\ Claim(fcb'[e].slot, fcb'[e]) \in Claims(InFat)
                        /\ Claim(fcb'[e].slot, fcb'[e]).slot # s
    BY <1>1, ClaimsAre, ClaimFields DEF SlotOf
  <2>3. \A e \in Owners' \ held : /\ Claim(fcb'[e].slot, fcb'[e]).first = EMPTY
                                  /\ Claim(fcb'[e].slot, fcb'[e]).size = 0
    BY ClaimFields
  <2>4. QED
    BY <2>1, <2>2, <2>3 DEF ClaimsOf
<1>6. \A a \in Claims(InFat) : a.slot # s => \A x \in Chain(fat, a.first) : fat'[x] = fat[x]
  <2> SUFFICES ASSUME NEW a \in Claims(InFat), a.slot # s, NEW x \in Chain(fat, a.first)
               PROVE  fat'[x] = fat[x]
    OBVIOUS
  <2>1. Claim(s, dir[s]) \in Claims(InFat) /\ Claim(s, dir[s]).slot = s /\ Claim(s, dir[s]).first = r
    BY <1>1, ClaimsAre, ClaimFields
  <2>2. Chain(fat, a.first) \cap Chain(fat, r) = {}
    BY <2>1, Separate
  <2>3. x \in Cluster
    BY ChainIsClusters
  <2>4. QED
    BY <1>4, <2>2, <2>3
<1>7. \A a \in L : \A x \in Chain(fat, a.first) : fat'[x] = fat[x]
  BY <1>5, <1>6, NoChain, MarksAre
<1>8. \A a \in L : a.size \in Nat
  BY <1>1, <1>5, Kinds, Sizes
<1> HIDE DEF L, r
<1>9. Sound(fat', L)
  <2>1. \A a \in L : Covered(fat, a, Claims(InFat))
    BY <1>5 DEF Covered
  <2>2. Sound(fat, L)
    BY <2>1, SoundBy DEF Steady, Sane, FatInv
  <2>3. QED
    BY <1>7, <1>8, <2>2, SoundMoved
<1>10. Sound(card', ClaimsOf(dir', fcb', Owners', Live))
  <2>1. ASSUME NEW a \in ClaimsOf(dir', fcb', Owners', Live)
        PROVE  Covered(card, a, Claims(InFat))
    <3>1. a \in L \/ a = Claim(s, dir[s])
      BY DEF L, ClaimsOf
    <3>2. Claim(s, dir[s]) \in Claims(InFat)
      BY <1>1, ClaimsAre
    <3>3. QED
      BY <1>5, <3>1, <3>2 DEF Covered
  <2>2. Sound(card, Claims(InFat))
    BY <1>1 DEF Steady, Sane, FatInv
  <2>3. QED
    BY <2>1, <2>2, SoundBy
<1>11. \A a \in L : Chain(fat', a.first) = Chain(fat, a.first)
  <2>1. ASSUME NEW c, \A x \in Chain(fat, c) : fat'[x] = fat[x]
        PROVE  Chain(fat', c) = Chain(fat, c)
    BY <2>1, SameWalk
  <2>2. QED
    BY <1>7, <2>1
<1>12. SameElsewhere'
  BY <1>1, <1>3, <1>7, <1>11 DEF SameElsewhere
<1>13. FatInv'
  <2>1. GrowthInv'
    BY DEF GrowthInv
  <2>2. BufferInv' /\ Sealed' = card'
    BY NoLoose DEF BufferInv, Sealed
  <2>3. QED
    BY <1>3, <1>9, <1>10, <1>12, <2>1, <2>2 DEF FatInv
<1>14. AccountInv'
  <2> SUFFICES ASSUME ~hurt, NEW c \in Cluster, fat'[c] # EMPTY
               PROVE  \E a \in L : c \in Chain(fat', a.first)
    BY <1>3 DEF AccountInv
  <2>1. c \notin Chain(fat, r) /\ fat[c] # EMPTY
    BY <1>4
  <2>2. PICK a \in Claims(InFat) : c \in Chain(fat, a.first)
    BY <2>1 DEF Steady, Sane, AccountInv
  <2>3. a \in L
    <3>1. CASE \E q \in Live : a = Claim(q, dir[q])
      <4>1. PICK q \in Live : a = Claim(q, dir[q])
        BY <3>1
      <4>2. q # s
        BY <2>1, <2>2, <4>1, ClaimFields DEF r
      <4>3. QED
        BY <4>1, <4>2 DEF L, ClaimsOf
    <3>2. CASE \E e \in held : a = Claim(SlotOf(e), fcb[e])
      <4>1. PICK e \in held : a = Claim(SlotOf(e), fcb[e])
        BY <3>2
      <4>2. a = Claim(fcb'[e].slot, fcb'[e]) /\ e \in Owners'
        BY <4>1 DEF SlotOf
      <4>3. QED
        BY <4>2 DEF L, ClaimsOf
    <3>3. QED
      BY <1>1, <3>1, <3>2, ClaimsAre
  <2>4. QED
    BY <1>11, <2>2, <2>3
<1>15. \A e \in held : \A x \in Chain(fat, fcb[e].first) : fat'[x] = fat[x]
  <2>1. \A e \in held : /\ Claim(SlotOf(e), fcb[e]) \in Claims(InFat)
                        /\ Claim(SlotOf(e), fcb[e]).slot # s
                        /\ Claim(SlotOf(e), fcb[e]).first = fcb[e].first
    BY <1>1, ClaimsAre, ClaimFields
  <2>2. QED
    BY <1>6, <2>1
<1>16. QED
  BY <1>2, <1>13, <1>14, <1>15

(* A descriptor is taken for a slot that no other has. *)
LEMMA Opened ==
  ASSUME Steady, op = "none", bad = None, NEW d \in Fds, d \notin held, NEW s \in Slots,
         fcb'[d].slot = s, \A e \in held : SlotOf(e) # s,
         held' = held \cup {d}, Owners' = held', bad' = bad, UNCHANGED <<dir, hurt>>,
         \A e \in Fds : e # d => fcb'[e] = fcb[e], InFat' \subseteq Live,
         s \in InFat' => dir[s].first = fcb'[d].first,
         fcb'[d].size = 0 => fcb'[d].first = EMPTY,
         \/ op' = "open" /\ cur' = d
         \/ op' = "none" /\ s \in Live /\ fcb'[d].first = dir[s].first /\ fcb'[d].size = dir[s].size,
         \A e \in held : \A x \in Chain(fat, fcb[e].first) : fat'[x] = fat[x],
         Cursor(fat', fcb'[d], fcb'[d].pos, fcb'[d].size)
  PROVE  HolderInv' /\ CursorInv'
<1>1. /\ pc = "idle" /\ Owners = held /\ Released = {} /\ InFat = Live
  BY Resting
<1>2. /\ \A e \in held : e \in Fds /\ e # d /\ e # bad /\ fcb'[e] = fcb[e] /\ SlotOf(e)' = SlotOf(e)
      /\ SlotOf(d)' = s /\ Live' = Live /\ d # bad
  BY Kinds DEF SlotOf, Live
<1>3. HolderInv'
  <2>1. \A e \in held' : SlotOf(e)' \in Slots
    BY <1>1, <1>2 DEF Steady, Sane, HolderInv
  <2>2. \A e, h \in held' : SlotOf(e)' = SlotOf(h)' => e = h
    BY <1>1, <1>2 DEF Steady, Sane, HolderInv
  <2>3. \A e \in held' : SlotOf(e)' \in Live' \/ At("open", e)'
    BY <1>1, <1>2 DEF Steady, Sane, HolderInv, At
  <2>4. \A e \in held' : SlotOf(e)' \in InFat' => dir'[SlotOf(e)'].first \in {EMPTY, fcb'[e].first}
    BY <1>1, <1>2 DEF Steady, Sane, HolderInv
  <2>5. \A e \in held' : fcb'[e].size = 0 => fcb'[e].first = EMPTY
    BY <1>1, <1>2 DEF Steady, Sane, HolderInv, At
  <2>6. \A q \in Live' : dir'[q].size = 0 => dir'[q].first = EMPTY
    BY <1>2 DEF Steady, Sane, HolderInv
  <2>7. ~hurt' => \A e \in Fds : Open(e)' => e \in held'
    BY <1>1 DEF Steady, Sane, HolderInv, Open
  <2>8. ~hurt' => \A e \in held' :
           \/ "WRITTEN" \in fcb'[e].mode \/ At("open", e)'
           \/ SlotOf(e)' \in Live' /\ Claim(SlotOf(e), fcb[e])' = Claim(SlotOf(e)', dir'[SlotOf(e)'])
    <3>1. ASSUME NEW e \in held, ~hurt'
          PROVE  \/ "WRITTEN" \in fcb'[e].mode
                 \/ SlotOf(e)' \in Live' /\ Claim(SlotOf(e), fcb[e])' = Claim(SlotOf(e)', dir'[SlotOf(e)'])
      BY <1>1, <1>2, <3>1 DEF Steady, Sane, HolderInv, At
    <3>2. \/ At("open", d)'
          \/ SlotOf(d)' \in Live' /\ Claim(SlotOf(d), fcb[d])' = Claim(SlotOf(d)', dir'[SlotOf(d)'])
      BY <1>2 DEF At, Claim
    <3>3. QED
      BY <3>1, <3>2
  <2>9. QED
    BY <2>1, <2>2, <2>3, <2>4, <2>5, <2>6, <2>7, <2>8 DEF HolderInv
<1>4. CursorInv'
  <2>1. ASSUME NEW e \in held
        PROVE  Cursor(fat', fcb'[e], fcb'[e].pos, fcb'[e].size)
    <3>1. Cursor(fat, fcb[e], fcb[e].pos, fcb[e].size)
      BY <1>2 DEF Steady, Sane, CursorInv, At
    <3>2. fcb[e].pos \in Nat
      BY <1>2, Kinds
    <3>3. Cursor(fat', fcb[e], fcb[e].pos, fcb[e].size)
      BY <3>1, <3>2, CursorMoved
    <3>4. QED
      BY <1>2, <3>3
  <2>2. QED
    BY <2>1 DEF CursorInv
<1>5. QED
  BY <1>3, <1>4

LEMMA OpenFileSane ==
  ASSUME Steady, NEW n \in Names, NEW m \in OpenModes, OpenFile(n, m)
  PROVE  ~torn' /\ Sane'
<1> DEFINE d == Min({b \in Fds : ~Open(b)})
<1>1. /\ pc = "idle" /\ op = "none" /\ cur = TMP /\ bad = None /\ valid /\ fat = card
      /\ Owners = held /\ Released = {} /\ InFat = Live /\ loose = EMPTY /\ Sealed = card
  BY Permitted DEF OpenFile
<1>2. d \in Fds /\ d \notin held
  <2>1. {b \in Fds : ~Open(b)} # {} /\ {b \in Fds : ~Open(b)} \in SUBSET Nat
    BY RdcfAssumption DEF OpenFile
  <2>2. d \in Fds /\ ~Open(d)
    BY <2>1, MinIs
  <2>3. QED
    BY <1>1, <2>2, OwnersOpen
<1>3. /\ UNCHANGED <<card, loose, dir, valid, todo, lpos, lsize, bad, hurt, torn>>
      /\ held' = held \cup {d}
  BY DEF OpenFile, disk, local, hist
<1>4. \A s \in Find(n) : s \in Live /\ s \in Slots /\ \A e \in held : SlotOf(e) # s
  BY DEF OpenFile, Unopened, Steady, Disciplined, Find, Live, Holders, SlotOf
<1>5. CASE \E s \in Find(n) :
             /\ fcb' = [fcb EXCEPT ![d] = IF m = "a" THEN SeekTo(Fcb(n, s, m, dir[s]), Fcb(n, s, m, dir[s]).size)
                                          ELSE Fcb(n, s, m, dir[s])]
             /\ UNCHANGED <<fat, at, pc, op, cur>>
  <2>1. PICK s \in Find(n) :
             /\ fcb' = [fcb EXCEPT ![d] = IF m = "a" THEN SeekTo(Fcb(n, s, m, dir[s]), Fcb(n, s, m, dir[s]).size)
                                          ELSE Fcb(n, s, m, dir[s])]
             /\ UNCHANGED <<fat, at, pc, op, cur>>
    BY <1>5
  <2> DEFINE f == Fcb(n, s, m, dir[s])
             g == IF m = "a" THEN SeekTo(f, f.size) ELSE f
  <2>2. s \in Live /\ s \in Slots /\ dir[s] \in Entry /\ \A e \in held : SlotOf(e) # s
    BY <1>4, Kinds
  <2>3. f \in File
    BY <2>2, FcbTyped
  <2>4. /\ f.slot = s /\ f.first = dir[s].first /\ f.size = dir[s].size /\ f.pos = 0
        /\ f.cluster = f.first /\ f.last = EMPTY /\ ~f.read
    BY DEF Fcb, NoFile
  <2> HIDE DEF f
  <2>5. Whole(fat, f.first, f.size) /\ f.size \in Nat
    BY <1>1, <2>2, <2>4, EntryWhole, Kinds
  <2>6. Cursor(fat, f, f.pos, f.size)
    <3>1. 0 \div PerCluster = 0 /\ Nth(fat, f.first, 0) = f.first
      BY PlaceOf, NthStep
    <3>2. f.first # LAST
      BY <2>5, WholeFirst, MarksAre
    <3>3. QED
      BY <2>4, <2>5, <3>1, <3>2 DEF Cursor
  <2>7. SameFile(g, f) /\ Cursor(fat, g, g.pos, g.size)
    <3>1. CASE m = "a"
      <4>1. /\ SameFile(SeekTo(f, f.size), f) /\ SeekTo(f, f.size).pos = f.size
            /\ Cursor(fat, SeekTo(f, f.size), f.size, f.size)
        BY <2>3, <2>4, <2>5, SeekCursor
      <4>2. QED
        BY <3>1, <4>1 DEF SameFile
    <3>2. CASE m # "a"
      BY <2>6, <3>2 DEF SameFile
    <3>3. QED
      BY <3>1, <3>2
  <2>8. fcb' = [fcb EXCEPT ![d] = g]
    BY <2>1 DEF f
  <2> HIDE DEF g, d
  <2>9. fcb'[d] = g /\ \A e \in Fds \cup {TMP} : e # d => fcb'[e] = fcb[e]
    BY <1>2, <2>8, OneBlock
  <2>10. g.slot = s /\ g.first = dir[s].first /\ g.size = dir[s].size
    BY <2>4, <2>7 DEF SameFile
  <2>11. Owners' = held' /\ InFat' = Live /\ Live' = Live
    BY <1>1, <1>3, <2>1 DEF Owners, InFat, Live, Released
  <2>12. g.size = 0 => g.first = EMPTY
    BY <2>2, <2>10 DEF Steady, Sane, HolderInv
  <2>13. HolderInv' /\ CursorInv'
    <3>1. Cursor(fat', fcb'[d], fcb'[d].pos, fcb'[d].size)
      BY <2>1, <2>7, <2>9
    <3>2. QED
      BY <1>1, <1>2, <1>3, <2>1, <2>2, <2>9, <2>10, <2>11, <2>12, <3>1, Opened
  <2>14. \A a \in ClaimsOf(dir', fcb', Owners', InFat') : a \in Claims(InFat)
    <3>1. \A e \in held : fcb'[e] = fcb[e]
      BY <1>2, <2>9, Kinds
    <3>2. Claim(fcb'[d].slot, fcb'[d]) = Claim(s, dir[s])
      BY <2>9, <2>10 DEF Claim
    <3>3. QED
      BY <1>1, <1>3, <2>2, <2>11, <3>1, <3>2, ClaimsAre DEF ClaimsOf, SlotOf
  <2>15. \A a \in Claims(InFat) : a \in ClaimsOf(dir', fcb', Owners', InFat')
    <3>1. \A e \in held : fcb'[e] = fcb[e]
      BY <1>2, <2>9, Kinds
    <3>2. QED
      BY <1>1, <1>3, <2>11, <3>1, ClaimsAre DEF ClaimsOf, SlotOf
  <2>16. FatInv'
    <3>1. \A a \in ClaimsOf(dir', fcb', Owners', InFat') : Covered(fat, a, Claims(InFat))
      BY <2>14 DEF Covered
    <3>2. Sound(card', ClaimsOf(dir', fcb', Owners', InFat'))
      BY <1>1, <1>3, <3>1, SoundBy DEF Steady, Sane, FatInv
    <3>3. QED
      BY <1>1, <1>3, <2>1, <3>2, QuietFat
  <2>17. AccountInv'
    <3>1. Claims(InFat)' = ClaimsOf(dir', fcb', Owners', InFat')
      BY DEF Claims, ClaimsOf, SlotOf
    <3>2. QED
      BY <1>3, <2>1, <2>15, <3>1 DEF Steady, Sane, AccountInv
  <2>18. PlaceInv'
    BY <1>1, <1>3, <2>1, <2>11, Kinds DEF Steady, Sane, PlaceInv
  <2>19. QED
    BY <1>3, <2>13, <2>16, <2>17, <2>18 DEF Sane, Steady
<1>6. ASSUME NEW s \in Slots, \A e \in held : SlotOf(e) # s,
             fcb' = [fcb EXCEPT ![d] = Fcb(n, s, m, NoEntry)]
      PROVE  /\ fcb'[d].slot = s /\ fcb'[d].first = EMPTY /\ fcb'[d].size = 0
             /\ \A e \in Fds \cup {TMP} : e # d => fcb'[e] = fcb[e]
             /\ Cursor(fat', fcb'[d], fcb'[d].pos, fcb'[d].size)
  <2> DEFINE f == Fcb(n, s, m, NoEntry)
  <2>1. /\ f.slot = s /\ f.first = EMPTY /\ f.size = 0 /\ f.pos = 0
        /\ f.cluster = EMPTY /\ f.last = EMPTY /\ ~f.read
    BY DEF Fcb, NoFile, NoEntry
  <2> HIDE DEF f, d
  <2>2. fcb'[d] = f /\ \A e \in Fds \cup {TMP} : e # d => fcb'[e] = fcb[e]
    BY <1>2, <1>6, OneBlock DEF f
  <2>3. 0 \div PerCluster = 0 /\ Nth(fat', EMPTY, 0) = EMPTY
    BY PlaceOf, NthStep
  <2>4. Cursor(fat', f, f.pos, f.size)
    BY <2>1, <2>3, MarksAre DEF Cursor
  <2>5. QED
    BY <2>1, <2>2, <2>4
<1>7. CASE \E s \in Find(n) :
             /\ Release(dir[s].first)
             /\ fcb' = [fcb EXCEPT ![d] = Fcb(n, s, m, NoEntry)]
             /\ Call("open", d, "flush")
  <2>1. PICK s \in Find(n) :
             /\ Release(dir[s].first)
             /\ fcb' = [fcb EXCEPT ![d] = Fcb(n, s, m, NoEntry)]
             /\ op' = "open" /\ cur' = d /\ pc' = "flush"
    BY <1>7 DEF Call
  <2>2. s \in Live /\ s \in Slots /\ \A e \in held : SlotOf(e) # s
    BY <1>4
  <2>3. /\ fcb'[d].slot = s /\ fcb'[d].first = EMPTY /\ fcb'[d].size = 0
        /\ \A e \in Fds \cup {TMP} : e # d => fcb'[e] = fcb[e]
        /\ Cursor(fat', fcb'[d], fcb'[d].pos, fcb'[d].size)
    BY <1>6, <2>1, <2>2
  <2> HIDE DEF d
  <2>4. Owners' = held' /\ SlotOf(cur)' = s
    BY <1>3, <2>1, <2>3 DEF Owners, SlotOf
  <2>5. \A e \in held : fcb'[e] = fcb[e]
    BY <1>2, <2>3, Kinds
  <2>6. Owners' \ held = {d} /\ held \subseteq Owners'
    BY <1>2, <1>3, <2>4
  <2>7. /\ FatInv' /\ AccountInv' /\ InFat' = Live \ {s}
        /\ \A e \in held : \A x \in Chain(fat, fcb[e].first) : fat'[x] = fat[x]
    BY <1>1, <1>3, <2>1, <2>2, <2>3, <2>4, <2>5, <2>6, ReleasedFile
  <2>8. HolderInv' /\ CursorInv'
    BY <1>1, <1>2, <1>3, <2>1, <2>2, <2>3, <2>4, <2>7, Opened
  <2>9. PlaceInv'
    <3>1. SlotOf(cur)' \in Live'
      BY <1>3, <2>2, <2>4 DEF Live
    <3>2. QED
      BY <1>1, <1>2, <1>3, <2>1, <2>3, <2>4, <3>1, Kinds DEF Steady, Sane, PlaceInv
  <2>10. QED
    BY <1>3, <2>7, <2>8, <2>9 DEF Sane, Steady
<1>8. CASE /\ Vacant # {}
           /\ fcb' = [fcb EXCEPT ![d] = Fcb(n, Min(Vacant), m, NoEntry)]
           /\ Call("open", d, "dir")
           /\ UNCHANGED <<fat, at>>
  <2> DEFINE s == Min(Vacant)
  <2>1. s \in Slots /\ s \notin Live
    <3>1. Vacant \in SUBSET Nat
      BY RdcfAssumption DEF Vacant
    <3>2. s \in Vacant
      BY <1>8, <3>1, MinIs
    <3>3. QED
      BY <3>2 DEF Vacant, Live
  <2> HIDE DEF s
  <2>2. /\ fcb' = [fcb EXCEPT ![d] = Fcb(n, s, m, NoEntry)]
        /\ op' = "open" /\ cur' = d /\ pc' = "dir" /\ UNCHANGED fat
    BY <1>8 DEF Call, s
  <2>3. \A e \in held : SlotOf(e) # s
    BY <1>1, <2>1, Kinds DEF Steady, Sane, HolderInv, At
  <2>4. /\ fcb'[d].slot = s /\ fcb'[d].first = EMPTY /\ fcb'[d].size = 0
        /\ \A e \in Fds \cup {TMP} : e # d => fcb'[e] = fcb[e]
        /\ Cursor(fat', fcb'[d], fcb'[d].pos, fcb'[d].size)
    BY <1>6, <2>1, <2>2, <2>3
  <2> HIDE DEF d
  <2>5. Owners' = held' /\ SlotOf(cur)' = s /\ Live' = Live /\ InFat' = Live
    BY <1>3, <2>1, <2>2, <2>4 DEF Owners, SlotOf, Live, InFat, Released
  <2>6. \A e \in held : fcb'[e] = fcb[e]
    BY <1>2, <2>4, Kinds
  <2>7. HolderInv' /\ CursorInv'
    BY <1>1, <1>2, <1>3, <2>1, <2>2, <2>3, <2>4, <2>5, Opened
  <2>8. FatInv'
    <3>1. ASSUME NEW a \in ClaimsOf(dir', fcb', Owners', InFat')
          PROVE  Covered(fat, a, Claims(InFat))
      <4>1. a \in Claims(InFat) \/ (a.first = EMPTY /\ a.size = 0)
        <5>1. CASE \E q \in Live : a = Claim(q, dir[q])
          BY <1>1, <5>1, ClaimsAre
        <5>2. CASE \E e \in held : a = Claim(fcb'[e].slot, fcb'[e])
          BY <1>1, <2>6, <5>2, ClaimsAre DEF SlotOf
        <5>3. CASE a = Claim(fcb'[d].slot, fcb'[d])
          BY <2>4, <5>3, ClaimFields
        <5>4. QED
          BY <1>3, <2>5, <5>1, <5>2, <5>3 DEF ClaimsOf
      <4>2. QED
        BY <4>1 DEF Covered
    <3>2. Sound(card', ClaimsOf(dir', fcb', Owners', InFat'))
      BY <1>1, <1>3, <3>1, SoundBy DEF Steady, Sane, FatInv
    <3>3. QED
      BY <1>1, <1>3, <2>2, <3>2, QuietFat
  <2>9. AccountInv'
    <3>1. Claims(InFat)' = ClaimsOf(dir', fcb', Owners', InFat')
      BY DEF Claims, ClaimsOf, SlotOf
    <3>2. \A a \in Claims(InFat) : a \in ClaimsOf(dir', fcb', Owners', InFat')
      BY <1>1, <1>3, <2>5, <2>6, ClaimsAre DEF ClaimsOf, SlotOf
    <3>3. QED
      BY <1>3, <2>2, <3>1, <3>2 DEF Steady, Sane, AccountInv
  <2>10. PlaceInv'
    BY <1>1, <1>2, <1>3, <2>2, <2>4, <2>5, Kinds DEF Steady, Sane, PlaceInv
  <2>11. QED
    BY <1>3, <2>7, <2>8, <2>9, <2>10 DEF Sane, Steady
<1>9. QED
  BY <1>5, <1>7, <1>8 DEF OpenFile

LEMMA UnlinkSane ==
  ASSUME Steady, NEW n \in Names, Unlink(n)
  PROVE  ~torn' /\ Sane'
<1>1. /\ pc = "idle" /\ op = "none" /\ cur = TMP /\ bad = None /\ valid /\ fat = card
      /\ Owners = held /\ Released = {} /\ InFat = Live
  BY Permitted DEF Unlink
<1>2. PICK s \in Find(n) :
        /\ Release(dir[s].first)
        /\ fcb' = [fcb EXCEPT ![TMP] = Fcb(n, s, "r", dir[s])]
  BY DEF Unlink
<1>3. /\ UNCHANGED <<card, loose, dir, valid, todo, lpos, lsize, held, bad, hurt, torn>>
      /\ op' = "unlink" /\ cur' = TMP /\ pc' = "flush"
  BY DEF Unlink, Call, disk, local, hist
<1>4. s \in Live /\ \A e \in held : SlotOf(e) # s
  BY DEF Unlink, Unopened, Steady, Disciplined, Find, Live, Holders, SlotOf
<1> DEFINE f == Fcb(n, s, "r", dir[s])
<1>5. f.slot = s
  BY DEF Fcb, NoFile
<1> HIDE DEF f
<1>6. fcb'[TMP] = f /\ \A e \in Fds \cup {TMP} : e # TMP => fcb'[e] = fcb[e]
  BY <1>2, OneBlock DEF f
<1>7. Owners' = held /\ SlotOf(cur)' = s /\ Live' = Live
  BY <1>3, <1>5, <1>6 DEF Owners, SlotOf, Live
<1>8. \A e \in held : e \in Fds /\ fcb'[e] = fcb[e] /\ e # bad /\ SlotOf(e)' = SlotOf(e)
  BY <1>1, <1>6, Kinds DEF SlotOf
<1>9. /\ FatInv' /\ AccountInv' /\ InFat' = Live \ {s}
      /\ \A e \in held : \A x \in Chain(fat, fcb[e].first) : fat'[x] = fat[x]
  BY <1>1, <1>2, <1>3, <1>4, <1>7, <1>8, ReleasedFile
<1>10. HolderInv'
  <2>1. \A e \in held : SlotOf(e)' \in Slots /\ SlotOf(e)' \in Live'
    BY <1>1, <1>7, <1>8 DEF Steady, Sane, HolderInv, At
  <2>2. \A e, h \in held : SlotOf(e)' = SlotOf(h)' => e = h
    BY <1>1, <1>8 DEF Steady, Sane, HolderInv
  <2>3. \A e \in held : SlotOf(e)' \in InFat' => dir'[SlotOf(e)'].first \in {EMPTY, fcb'[e].first}
    BY <1>1, <1>3, <1>8, <1>9 DEF Steady, Sane, HolderInv
  <2>4. \A e \in held : fcb'[e].size = 0 => fcb'[e].first = EMPTY
    BY <1>1, <1>8 DEF Steady, Sane, HolderInv, At
  <2>5. \A q \in Live' : dir'[q].size = 0 => dir'[q].first = EMPTY
    BY <1>3, <1>7 DEF Steady, Sane, HolderInv
  <2>6. ~hurt' => \A e \in Fds : Open(e)' => e \in held
    BY <1>1, <1>3, <1>6, Kinds DEF Steady, Sane, HolderInv, Open
  <2>7. ~hurt' => \A e \in held :
           \/ "WRITTEN" \in fcb'[e].mode
           \/ SlotOf(e)' \in Live' /\ Claim(SlotOf(e), fcb[e])' = Claim(SlotOf(e)', dir'[SlotOf(e)'])
    BY <1>1, <1>3, <1>7, <1>8 DEF Steady, Sane, HolderInv, At
  <2>8. QED
    BY <1>3, <1>7, <2>1, <2>2, <2>3, <2>4, <2>5, <2>6, <2>7 DEF HolderInv
<1>11. CursorInv'
  <2>1. ASSUME NEW e \in held
        PROVE  Cursor(fat', fcb'[e], fcb'[e].pos, fcb'[e].size)
    <3>1. Cursor(fat, fcb[e], fcb[e].pos, fcb[e].size) /\ fcb[e].pos \in Nat
      BY <1>1, <1>8, Kinds DEF Steady, Sane, CursorInv, At
    <3>2. Cursor(fat', fcb[e], fcb[e].pos, fcb[e].size)
      BY <1>9, <3>1, CursorMoved
    <3>3. QED
      BY <1>8, <3>2
  <2>2. QED
    BY <1>3, <2>1 DEF CursorInv
<1>12. PlaceInv'
  <2>1. Detached(SlotOf(TMP))' /\ SlotOf(cur)' \in Live'
    BY <1>3, <1>4, <1>5, <1>6, <1>7, <1>8 DEF Detached, SlotOf
  <2>2. QED
    BY <1>1, <1>3, <1>7, <2>1, Kinds DEF Steady, Sane, PlaceInv
<1>13. QED
  BY <1>3, <1>9, <1>10, <1>11, <1>12 DEF Sane, Steady

-----------------------------------------------------------------------------
(* Sectors are written. *)

LEMMA Writing ==
  ASSUME Steady, pc = "write"
  PROVE  /\ op = "write" /\ cur \in held /\ cur \in Fds /\ cur \in Owners /\ bad = None
         /\ Owners = held /\ Released = {} /\ InFat = Live /\ OnCard = Live
         /\ Cursor(fat, fcb[cur], lpos, lsize) /\ ~fcb[cur].read
         /\ fcb[cur].pos <= lpos /\ fcb[cur].size <= lsize
         /\ Whole(fat, fcb[cur].first, lsize)
         /\ \A c \in Cluster : fat[c] = EMPTY => card[c] = EMPTY
         /\ \A e \in held : e # cur => Cursor(fat, fcb[e], fcb[e].pos, fcb[e].size)
<1>1. op = "write"
  BY DEF Steady, Sane, PlaceInv
<1>2. cur \in held /\ cur \in Fds /\ bad = None
  BY <1>1, Kinds DEF Steady, Sane, PlaceInv
<1>3. Owners = held /\ Released = {} /\ InFat = Live /\ OnCard = Live
  BY <1>1 DEF Owners, Released, InFat, OnCard
<1>4. /\ Cursor(fat, fcb[cur], lpos, lsize) /\ ~fcb[cur].read
      /\ fcb[cur].pos <= lpos /\ fcb[cur].size <= lsize
  BY <1>1 DEF Steady, Sane, CursorInv
<1>5. /\ Whole(fat, fcb[cur].first, lsize)
      /\ \A c \in Cluster : fat[c] = EMPTY => card[c] = EMPTY
  BY <1>1 DEF Steady, Sane, FatInv, GrowthInv
<1>6. \A e \in held : e # cur => Cursor(fat, fcb[e], fcb[e].pos, fcb[e].size)
  BY <1>1, <1>2, Kinds DEF Steady, Sane, CursorInv, At
<1>7. QED
  BY <1>1, <1>2, <1>3, <1>4, <1>5, <1>6

LEMMA WriteSectorSane ==
  ASSUME Steady, WriteSector
  PROVE  ~torn' /\ Sane'
<1> DEFINE f == fcb[cur]
           g == IF lpos' % PerCluster = 0
                  THEN [f EXCEPT !.cluster = fat[f.cluster],
                                 !.last = IF fat[f.cluster] = LAST THEN f.cluster ELSE f.last]
                  ELSE f
<1>1. /\ pc = "write" /\ op = "write" /\ cur \in held /\ cur \in Fds /\ cur \in Owners /\ bad = None
      /\ Owners = held /\ Released = {} /\ InFat = Live /\ OnCard = Live
      /\ Cursor(fat, f, lpos, lsize) /\ ~f.read /\ f.pos <= lpos /\ f.size <= lsize
      /\ Whole(fat, f.first, lsize)
      /\ \A e \in held : e # cur => Cursor(fat, fcb[e], fcb[e].pos, fcb[e].size)
  BY Writing DEF WriteSector
<1>2. /\ UNCHANGED <<fat, card, loose, dir, hint, valid, pc, op, cur, held, bad, hurt, torn>>
      /\ lpos' = lpos + 1 /\ todo' = todo - 1 /\ f.cluster \in Cluster
      /\ lsize' = IF lpos' > lsize THEN lpos' ELSE lsize
  BY DEF WriteSector, disk, hist
<1>3. f \in File /\ lpos \in Nat /\ lsize \in Nat /\ f.size \in Nat /\ f.pos \in Nat
  BY <1>1, Kinds
<1>4. fcb' = [fcb EXCEPT ![cur] = g]
  <2>1. CASE lpos' % PerCluster = 0
    BY <1>1, <2>1 DEF WriteSector, Steady, IInv, TypeOK
  <2>2. CASE lpos' % PerCluster # 0
    BY <1>1, <2>2 DEF WriteSector, Steady, IInv, TypeOK
  <2>3. QED
    BY <2>1, <2>2
<1>5. fcb'[cur] = g /\ \A e \in Fds \cup {TMP} : e # cur => fcb'[e] = fcb[e]
  <2> HIDE DEF g, f
  <2>1. QED
    BY <1>1, <1>4, OneBlock
<1>6. SameFile(g, f) /\ g.pos = f.pos /\ g.read = f.read
  BY <1>3 DEF File, SameFile
<1>7. f.cluster = Nth(fat, f.first, lpos \div PerCluster) /\ lpos \div PerCluster \in Nat
  BY <1>1, <1>3, PlaceOf DEF Cursor
<1>8. Whole(fat, f.first, lsize') /\ f.first # EMPTY /\ lsize' \in Nat /\ lsize' > 0
      /\ lpos' <= lsize' /\ lsize <= lsize' /\ lpos <= lpos'
  <2> HIDE DEF g, f
  <2>1. Whole(fat, f.first, lpos + 1) /\ f.first # EMPTY
    BY <1>1, <1>2, <1>3, <1>7, WholeMore
  <2>2. QED
    BY <1>1, <1>2, <1>3, <2>1
<1>9. Cursor(fat, g, lpos', lsize')
  <2>1. /\ g.cluster = Nth(fat, f.first, lpos' \div PerCluster)
        /\ g.cluster = LAST => g.last \in Chain(fat, f.first) /\ fat[g.last] = LAST
    <3>1. CASE lpos' % PerCluster = 0
      <4>1. g.cluster = fat[f.cluster] /\ g.last = IF fat[f.cluster] = LAST THEN f.cluster ELSE f.last
        BY <1>3, <3>1 DEF File
      <4>2. lpos' \div PerCluster = lpos \div PerCluster + 1
        BY <1>2, <1>3, <3>1, PlaceOf
      <4>3. f.cluster \in Chain(fat, f.first)
        BY <1>2, <1>7, NthInChain
      <4>4. Nth(fat, f.first, lpos' \div PerCluster) = fat[f.cluster]
        BY <1>2, <1>7, <4>2, NthStep
      <4>5. QED
        BY <4>1, <4>3, <4>4
    <3>2. CASE lpos' % PerCluster # 0
      <4>1. g.cluster = f.cluster
        BY <3>2
      <4>2. lpos' \div PerCluster = lpos \div PerCluster
        BY <1>2, <1>3, <3>2, PlaceOf
      <4>3. QED
        BY <1>2, <1>7, <4>1, <4>2, MarksAre
    <3>3. QED
      BY <3>1, <3>2
  <2> HIDE DEF g, f
  <2>2. QED
    BY <1>1, <1>6, <1>8, <2>1 DEF Cursor, SameFile
<1>10. Owners' = held /\ InFat' = InFat /\ OnCard' = Live
  BY <1>1, <1>2 DEF Owners, InFat, Live, Released, OnCard
<1>11. \A e \in Fds : Open(e)' => Open(e)
  BY <1>1, <1>5, OwnersOpen DEF Open
<1>12. \A e \in Owners : SameFile(fcb'[e], fcb[e])
  BY <1>1, <1>5, <1>6, Kinds DEF SameFile
<1> HIDE DEF g, f
<1>13. HolderInv' /\ AccountInv'
  BY <1>1, <1>2, <1>10, <1>11, <1>12, SameHolders
<1>14. FatInv'
  <2>1. Claims(InFat)' = Claims(InFat)
    BY <1>1, <1>2, <1>10, <1>12, SameClaims
  <2>2. Claims(OnCard)' = Claims(OnCard) /\ Claims(OnCard) = Claims(InFat)
    <3>1. Claims(OnCard)' = Claims(InFat)' /\ Claims(OnCard) = Claims(InFat)
      BY <1>1, <1>10 DEF Claims
    <3>2. QED
      BY <2>1, <3>1
  <2>3. SlotOf(cur)' = SlotOf(cur)
    BY <1>1, <1>2, <1>12 DEF SlotOf, SameFile
  <2>4. SameElsewhere'
    BY <1>2, <2>1, <2>3 DEF SameElsewhere, Steady, Sane, FatInv
  <2>5. GrowthInv'
    <3>1. fcb'[cur'].first = f.first
      BY <1>2, <1>5, <1>6 DEF SameFile
    <3>2. QED
      BY <1>1, <1>2, <1>8, <3>1 DEF GrowthInv, Steady, Sane, FatInv
  <2>6. BufferInv'
    <3>1. Unwritten' = Unwritten
      BY <1>2 DEF Unwritten
    <3>2. ASSUME Unwritten # {}
          PROVE  /\ fcb'[cur'].last \in Unwritten /\ fat[fcb'[cur'].last] = LAST
                 /\ fcb'[cur'].cluster \in {fcb'[cur'].last, LAST}
      <4>1. f.last \in Unwritten /\ fat[f.last] = LAST /\ f.cluster = f.last
        BY <1>1, <1>2, <3>2, MarksAre DEF Steady, Sane, FatInv, BufferInv, f
      <4>2. g.last = f.last /\ g.cluster \in {f.last, LAST}
        <5>1. CASE lpos' % PerCluster = 0
          BY <1>3, <4>1, <5>1 DEF g, File
        <5>2. CASE lpos' % PerCluster # 0
          BY <4>1, <5>2 DEF g
        <5>3. QED
          BY <5>1, <5>2
      <4>3. QED
        BY <1>2, <1>5, <4>1, <4>2
    <3>3. QED
      BY <1>1, <1>2, <3>1, <3>2 DEF Steady, Sane, FatInv, BufferInv
  <2>7. Sealed' = Sealed
    BY <1>2 DEF Sealed
  <2>8. QED
    BY <1>1, <1>2, <2>1, <2>2, <2>4, <2>5, <2>6, <2>7 DEF FatInv, Steady, Sane
<1>15. PlaceInv'
  BY <1>1, <1>2, <1>10, Kinds DEF Steady, Sane, PlaceInv
<1>16. CursorInv'
  <2>1. \A e \in held : e # cur => Cursor(fat, fcb[e], fcb[e].pos, fcb[e].size)'
    BY <1>1, <1>2, <1>5, Kinds
  <2>2. /\ Cursor(fat, fcb[cur], lpos, lsize)' /\ ~fcb'[cur'].read
        /\ fcb'[cur'].pos <= lpos' /\ fcb'[cur'].size <= lsize' /\ lsize' > 0
    BY <1>1, <1>2, <1>3, <1>5, <1>6, <1>8, <1>9 DEF SameFile, f
  <2>3. QED
    BY <1>1, <1>2, <2>1, <2>2 DEF CursorInv, At
<1>17. QED
  BY <1>2, <1>13, <1>14, <1>15, <1>16 DEF Sane, Steady

(* The file grows by the first free cluster.                                 *)
LEMMA Grown ==
  ASSUME Steady, pc = "write", NeedsCluster, NEW c \in Cluster, fat[c] = EMPTY,
         NEW u, u = Linked(fat, fcb[cur].last, c),
         NEW h, h = IF fcb[cur].first = EMPTY THEN c ELSE fcb[cur].first
  PROVE  /\ Whole(u, h, lsize) /\ h # EMPTY /\ Nth(u, h, lpos \div PerCluster) = c
         /\ c \in Chain(u, h) /\ u[c] = LAST
         /\ Chain(fat, fcb[cur].first) \subseteq Chain(u, h)
         /\ Chain(u, h) \subseteq Chain(fat, fcb[cur].first) \cup {c}
         /\ \A x \in Cluster : u[x] # fat[x] => x \in Chain(fat, fcb[cur].first) \cup {c}
         /\ \A x \in Cluster : u[x] = EMPTY => fat[x] = EMPTY
         /\ \A z \in Nat : fcb[cur].first # EMPTY /\ Whole(fat, fcb[cur].first, z) => Whole(u, h, z)
         /\ fcb[cur].first = EMPTY => lsize = 0
<1> DEFINE f == fcb[cur]
           k == lpos \div PerCluster
<1>1. /\ Cursor(fat, f, lpos, lsize) /\ ~f.read /\ Whole(fat, f.first, lsize)
      /\ lpos \in Nat /\ lsize \in Nat /\ f.cluster \in {EMPTY, LAST}
  BY Writing, Kinds DEF NeedsCluster
<1>2. k \in Nat /\ k <= ClustersOf(lsize) /\ f.cluster = Nth(fat, f.first, k)
  BY <1>1, PlaceOf, InFile DEF Cursor
<1> HIDE DEF k
<1>3. u[c] = LAST /\ c # EMPTY
  BY MarksAre DEF Linked
<1>4. CASE f.first = EMPTY
  <2>1. f.last = EMPTY /\ lsize = 0
    BY <1>1, <1>4, WholeIs DEF Cursor
  <2>2. lpos = 0 /\ k = 0 /\ h = c
    BY <1>1, <1>4, <2>1, PlaceOf DEF Cursor, k
  <2>3. Nth(u, c, 0) = c /\ Ends(u, c, 1) /\ Chain(u, c) = {c}
    BY <2>1, LinkedFirst
  <2>4. Chain(fat, f.first) = {}
    BY <1>4, NoChain, MarksAre
  <2>5. Whole(u, c, 0)
    BY <2>3, ClustersNeeded, WholeWhen
  <2>6. \A x \in Cluster : x # c => u[x] = fat[x]
    BY <2>1, MarksAre DEF Linked
  <2>7. QED
    BY <1>3, <1>4, <2>1, <2>2, <2>3, <2>4, <2>5, <2>6, MarksAre DEF k
<1>5. CASE f.first # EMPTY
  <2>1. PICK n \in Nat : n >= 1 /\ Ends(fat, f.first, n) /\ ClustersOf(lsize) <= n
    BY <1>1, <1>5, WholeIs
  <2>2. ClustersOf(lsize) \in Nat /\ k <= n
    BY <1>1, <1>2, <2>1, ClustersNeeded
  <2>3. f.cluster \notin Cluster
    BY <1>1, MarksAre
  <2>4. k = n /\ f.cluster = LAST
    <3>1. ~(k < n)
      BY <1>2, <2>1, <2>3, EndsShape
    <3>2. k = n
      BY <1>2, <2>2, <3>1
    <3>3. QED
      BY <1>2, <2>1, <3>2 DEF Ends
  <2>5. f.last \in Chain(fat, f.first) /\ fat[f.last] = LAST
    BY <1>1, <2>4 DEF Cursor
  <2>6. f.last = Nth(fat, f.first, n - 1)
    BY <2>1, <2>5, TailIs
  <2>7. h = f.first
    BY <1>5
  <2>8. /\ Nth(u, h, n) = c /\ Ends(u, h, n + 1)
        /\ Chain(fat, f.first) \subseteq Chain(u, h) /\ c \in Chain(u, h)
        /\ Chain(u, h) \subseteq Chain(fat, f.first) \cup {c}
    BY <2>1, <2>6, <2>7, LinkedLast
  <2>9. ASSUME NEW z \in Nat, Whole(fat, f.first, z)
        PROVE  Whole(u, h, z)
    <3>1. PICK m \in Nat : Ends(fat, f.first, m) /\ ClustersOf(z) <= m
      BY <1>5, <2>9, WholeIs
    <3>2. m = n
      BY <2>1, <3>1, EndsShape DEF Ends
    <3>3. n + 1 \in Nat /\ n + 1 >= 1 /\ ClustersOf(z) <= n + 1
      BY <3>1, <3>2, ClustersNeeded
    <3>4. QED
      BY <2>8, <3>3, WholeWhen
  <2>10. \A x \in Cluster : x # c /\ x # f.last => u[x] = fat[x]
    BY DEF Linked
  <2>11. \A x \in Cluster : x = f.last => fat[x] # EMPTY
    BY <2>5, MarksAre
  <2>12. u[f.last] # EMPTY
    <3>1. f.last \in Cluster
      BY <2>5, ChainIsClusters
    <3>2. QED
      BY <1>3, <3>1, MarksAre DEF Linked
  <2>13. Whole(u, h, lsize)
    BY <1>1, <2>9
  <2>14. QED
    BY <1>3, <1>5, <2>4, <2>5, <2>7, <2>8, <2>9, <2>10, <2>12, <2>13, MarksAre DEF k
<1>6. QED
  BY <1>4, <1>5

LEMMA WholeLess ==
  ASSUME NEW t, NEW c, NEW z \in Nat, NEW y \in Nat, y <= z, Whole(t, c, z), c # EMPTY
  PROVE  Whole(t, c, y)
<1>1. PICK n \in Nat : n >= 1 /\ Ends(t, c, n) /\ ClustersOf(z) <= n
  BY WholeIs
<1>2. ClustersOf(y) <= n
  BY <1>1, ClustersMonotone, ClustersNeeded
<1>3. QED
  BY <1>1, <1>2, WholeWhen

LEMMA AllocateSane ==
  ASSUME Steady, Allocate
  PROVE  ~torn' /\ Sane'
<1> DEFINE f == fcb[cur]
           c == Min(Free)
           h == IF f.first = EMPTY THEN c ELSE f.first
           g == [f EXCEPT !.cluster = c, !.last = c, !.first = h]
           o == SlotOf(cur)
           L == ClaimsOf(dir', fcb', held, Live)
<1>1. /\ pc = "write" /\ op = "write" /\ cur \in held /\ cur \in Fds /\ cur \in Owners /\ bad = None
      /\ Owners = held /\ Released = {} /\ InFat = Live /\ OnCard = Live
      /\ Cursor(fat, f, lpos, lsize) /\ ~f.read /\ f.pos <= lpos /\ f.size <= lsize
      /\ \A x \in Cluster : fat[x] = EMPTY => card[x] = EMPTY
      /\ \A e \in held : e # cur => Cursor(fat, fcb[e], fcb[e].pos, fcb[e].size)
  BY Writing DEF Allocate, Allocates
<1>2. c \in Cluster /\ fat[c] = EMPTY /\ c >= hint /\ NeedsCluster /\ todo > 0
  <2>1. Free # {} /\ NeedsCluster /\ todo > 0
    BY Zenon DEF Allocate, Allocates
  <2>2. Free \in SUBSET Nat
    BY RdcfAssumption DEF Free, Cluster
  <2>3. c \in Free
    BY <2>1, <2>2, MinIs
  <2>4. QED
    BY <2>1, <2>3 DEF Free
<1>3. f \in File /\ lpos \in Nat /\ lsize \in Nat /\ f.size \in Nat /\ f.pos \in Nat
  BY <1>1, Kinds
<1>4. /\ fat' = Linked(fat, f.last, c)
      /\ fcb' = [fcb EXCEPT ![cur] = g]
      /\ UNCHANGED <<dir, valid, pc, op, cur, todo, lpos, lsize, held, bad, hurt, torn>>
  BY <1>1 DEF Allocate, local, hist, Steady, IInv, TypeOK
<1>a. \/ ~TwoSectors(f.last, c) /\ UNCHANGED <<card, loose>>
      \/ TwoSectors(f.last, c) /\ card' = [card EXCEPT ![f.last] = c] /\ loose' = c
  BY DEF Allocate
<1>b. \A x \in Unwritten : SectorOf(x) = SectorOf(c)
  <2>1. hint \in Int /\ c \in Int
    BY <1>2 DEF Steady, IInv, TypeOK, Cluster
  <2>2. c \in hint..c
    BY <1>2, <2>1
  <2>3. QED
    BY <2>2 DEF Allocate, Leaves
<1> HIDE DEF c
<1>5. g.slot = f.slot /\ g.first = h /\ g.size = f.size /\ g.mode = f.mode /\ g.pos = f.pos
      /\ g.read = f.read /\ g.cluster = c /\ g.last = c
  BY <1>3 DEF File
<1> HIDE DEF g, f
<1>6. fcb'[cur] = g /\ \A e \in Fds \cup {TMP} : e # cur => fcb'[e] = fcb[e]
  BY <1>1, <1>4, OneBlock
<1>7. /\ Whole(fat', h, lsize) /\ h # EMPTY /\ Nth(fat', h, lpos \div PerCluster) = c
      /\ c \in Chain(fat', h) /\ fat'[c] = LAST
      /\ Chain(fat, f.first) \subseteq Chain(fat', h)
      /\ Chain(fat', h) \subseteq Chain(fat, f.first) \cup {c}
      /\ \A x \in Cluster : fat'[x] # fat[x] => x \in Chain(fat, f.first) \cup {c}
      /\ \A x \in Cluster : fat'[x] = EMPTY => fat[x] = EMPTY
      /\ \A z \in Nat : f.first # EMPTY /\ Whole(fat, f.first, z) => Whole(fat', h, z)
      /\ f.first = EMPTY => lsize = 0
  BY <1>1, <1>2, <1>4, Grown DEF f
(* The FAT as the card has it, and the buffer. *)
<1>c. /\ loose # EMPTY => loose \in Cluster /\ card[loose] = EMPTY /\ fat[loose] # EMPTY
      /\ Unwritten # {} => f.last \in Unwritten
  BY <1>1 DEF Steady, Sane, FatInv, BufferInv, f
<1>d. /\ fat \in [Cluster -> 0..LAST] /\ card \in [Cluster -> 0..LAST]
      /\ fat' = [x \in Cluster |-> IF x = c THEN LAST ELSE IF x = f.last THEN c ELSE fat[x]]
  BY <1>4 DEF Steady, IInv, TypeOK, Linked
<1>e. ASSUME TwoSectors(f.last, c)
      PROVE  /\ loose' = c /\ c # EMPTY /\ card'[c] = EMPTY /\ Sealed' = fat'
             /\ \A x \in Cluster : x # c => card'[x] = fat'[x]
  <2>1. card = fat
    <3>1. Unwritten = {}
      BY <1>b, <1>c, <1>e DEF TwoSectors
    <3>2. QED
      BY <1>d, <3>1 DEF Unwritten
  <2>2. c # f.last /\ c # EMPTY /\ card' = [card EXCEPT ![f.last] = c] /\ loose' = c
    BY <1>2, <1>a, <1>e, MarksAre DEF TwoSectors
  <2>3. \A x \in Cluster : x # c => card'[x] = fat'[x]
    BY <1>d, <2>1, <2>2
  <2>4. card'[c] = EMPTY
    BY <1>1, <1>2, <1>d, <2>2
  <2>5. Sealed' = fat'
    BY <1>2, <1>d, <2>1, <2>2 DEF Sealed
  <2>6. QED
    BY <2>2, <2>3, <2>4, <2>5
<1>f. ASSUME ~TwoSectors(f.last, c)
      PROVE  /\ card' = card /\ loose' = loose /\ Sealed' = Sealed
             /\ card[c] = EMPTY /\ Sealed[c] = EMPTY
             /\ \A x \in Cluster : card[x] = fat[x] => Sealed[x] = fat[x]
  <2>1. card' = card /\ loose' = loose /\ Sealed' = Sealed
    BY <1>a, <1>f DEF Sealed
  <2>2. \A x \in Cluster : card[x] = fat[x] => Sealed[x] = fat[x]
    BY <1>c, <1>d DEF Sealed
  <2>3. card[c] = EMPTY /\ Sealed[c] = EMPTY
    BY <1>1, <1>2, <1>c, <1>d DEF Sealed
  <2>4. QED
    BY <2>1, <2>2, <2>3
<1>g. /\ card'[c] = EMPTY
      /\ \A x \in Cluster : x # c /\ card[x] = fat[x] /\ fat'[x] = fat[x] => card'[x] = fat'[x]
      /\ \A x \in Cluster : fat'[x] = EMPTY => card'[x] = EMPTY
  <2>1. CASE TwoSectors(f.last, c)
    BY <1>7, <1>e, <2>1, MarksAre
  <2>2. CASE ~TwoSectors(f.last, c)
    BY <1>1, <1>7, <1>f, <2>2
  <2>3. QED
    BY <2>1, <2>2
<1>8. Owners' = held /\ Live' = Live /\ InFat' = Live /\ OnCard' = Live /\ SlotOf(cur)' = o
  BY <1>1, <1>4, <1>5, <1>6 DEF Owners, InFat, Live, Released, OnCard, SlotOf, f
<1> HIDE DEF h, o
<1>9. Claims(InFat)' = L /\ Claims(OnCard)' = L
  BY <1>8 DEF Claims, ClaimsOf, SlotOf
<1>10. Claim(o, f) \in Claims(InFat) /\ Claim(o, f).slot = o /\ Claim(o, f).first = f.first
  BY <1>1, ClaimsAre, ClaimFields DEF o, f
(* The files that are not being written. *)
<1>11. ASSUME NEW a \in Claims(InFat), a.slot # o
       PROVE  /\ c \notin Chain(fat, a.first)
              /\ \A x \in Chain(fat, a.first) : fat'[x] = fat[x]
              /\ Chain(fat, a.first) \cap Chain(fat, f.first) = {}
  <2>1. a.size \in Nat
    BY <1>1, Kinds, Sizes
  <2>2. Whole(fat, a.first, a.size)
    BY <1>1, <1>11, ClaimWhole DEF o
  <2>3. \A x \in Chain(fat, a.first) : fat[x] # EMPTY /\ x \in Cluster
    BY <2>1, <2>2, WholeFull, ChainIsClusters
  <2>4. Chain(fat, a.first) \cap Chain(fat, f.first) = {}
    BY <1>10, <1>11, Separate
  <2>5. QED
    BY <1>2, <1>7, <2>3, <2>4
<1>12. ASSUME NEW a \in Claims(InFat), a.slot # o
       PROVE  Chain(fat', a.first) = Chain(fat, a.first)
  <2> DEFINE b == a.first
  <2>1. \A x \in Chain(fat, b) : fat'[x] = fat[x]
    BY <1>11, <1>12
  <2> HIDE DEF b
  <2>2. Chain(fat', b) = Chain(fat, b)
    BY <2>1, SameWalk
  <2>3. QED
    BY <2>2 DEF b
(* The claims after the step. *)
<1>13. ASSUME NEW a \in L
       PROVE  \/ a \in Claims(InFat) /\ a.slot # o
              \/ /\ a.slot = o /\ a.first \in {EMPTY, h}
                 /\ a.size > 0 => Whole(fat', a.first, a.size)
                 /\ a \in Claims(InFat) \/ (a.first = h /\ a.size = f.size)
  <2>1. CASE \E q \in Live : a = Claim(q, dir[q])
    <3>1. PICK q \in Live : a = Claim(q, dir[q])
      BY <2>1
    <3>2. a \in Claims(InFat) /\ a.slot = q /\ a.first = dir[q].first /\ a.size = dir[q].size
      BY <1>1, <3>1, ClaimsAre, ClaimFields
    <3>3. CASE q = o
      <4>1. a.first \in {EMPTY, f.first}
        BY <1>1, <3>2, <3>3 DEF Steady, Sane, HolderInv, o, f
      <4>2. Whole(fat, a.first, a.size) /\ a.size \in Nat
        BY <1>1, <3>2, EntryWhole, Kinds
      <4>3. CASE a.first = EMPTY
        <5>1. a.size = 0
          BY <4>2, <4>3, WholeIs
        <5>2. QED
          BY <3>2, <3>3, <4>3, <5>1
      <4>4. CASE a.first # EMPTY
        <5>1. a.first = f.first /\ f.first # EMPTY /\ h = f.first
          BY <4>1, <4>4 DEF h
        <5>2. Whole(fat', h, a.size)
          BY <1>7, <4>2, <5>1
        <5>3. QED
          BY <3>2, <3>3, <5>1, <5>2
      <4>5. QED
        BY <4>3, <4>4
    <3>4. QED
      BY <3>2, <3>3
  <2>2. CASE \E e \in held : a = Claim(fcb'[e].slot, fcb'[e])
    <3>1. PICK e \in held : a = Claim(fcb'[e].slot, fcb'[e])
      BY <2>2
    <3>2. CASE e = cur
      <4>1. a.slot = o /\ a.first = h /\ a.size = f.size
        BY <1>5, <1>6, <3>1, <3>2, ClaimFields DEF o, SlotOf, f
      <4>2. Whole(fat', h, f.size)
        BY <1>1, <1>3, <1>7, WholeLess
      <4>3. QED
        BY <4>1, <4>2
    <3>3. CASE e # cur
      <4>1. fcb'[e] = fcb[e]
        BY <1>6, <3>3, Kinds
      <4>2. a = Claim(SlotOf(e), fcb[e]) /\ a.slot = SlotOf(e)
        BY <3>1, <4>1, ClaimFields DEF SlotOf
      <4>3. SlotOf(e) # o
        BY <1>1, <3>3 DEF Steady, Sane, HolderInv, o
      <4>4. QED
        BY <1>1, <4>2, <4>3, ClaimsAre
    <3>4. QED
      BY <3>2, <3>3
  <2>3. QED
    BY <1>4, <2>1, <2>2 DEF L, ClaimsOf
<1> HIDE DEF L
<1>14. Sound(fat', L)
  <2>1. ASSUME NEW a \in L, NEW b \in L, a.slot # o, b.slot # a.slot
        PROVE  Chain(fat', a.first) \cap Chain(fat', b.first) = {}
    <3>1. a \in Claims(InFat)
      BY <1>13, <2>1
    <3>2. CASE b.slot = o
      <4>1. b.first = EMPTY \/ b.first = h
        BY <1>13, <3>2
      <4>2. Chain(fat', b.first) \subseteq Chain(fat, f.first) \cup {c}
        BY <1>7, <4>1, NoChain, MarksAre
      <4>3. QED
        BY <1>11, <1>12, <2>1, <3>1, <4>2
    <3>3. CASE b.slot # o
      <4>1. b \in Claims(InFat)
        BY <1>13, <3>3
      <4>2. Chain(fat, a.first) \cap Chain(fat, b.first) = {}
        BY <2>1, <3>1, <4>1, Separate
      <4>3. QED
        BY <1>12, <2>1, <3>1, <3>3, <4>1, <4>2
    <3>4. QED
      BY <3>2, <3>3
  <2>2. Apart(fat', L)
    BY <2>1 DEF Apart
  <2>3. ASSUME NEW a \in L, a.size > 0
        PROVE  Whole(fat', a.first, a.size)
    <3>1. CASE a.slot = o
      BY <1>13, <2>3, <3>1
    <3>2. CASE a.slot # o
      <4>1. a \in Claims(InFat)
        BY <1>13, <3>2
      <4>2. a.size \in Nat /\ Whole(fat, a.first, a.size)
        BY <1>1, <2>3, <4>1, Kinds, Sizes DEF Steady, Sane, FatInv, Sound, Sized
      <4> DEFINE b == a.first
      <4>3. \A x \in Chain(fat, b) : fat'[x] = fat[x]
        BY <1>11, <3>2, <4>1
      <4> HIDE DEF b
      <4>4. \A k \in Nat : Nth(fat', b, k) = Nth(fat, b, k)
        BY <4>3, SameWalk
      <4>5. Whole(fat', b, a.size)
        BY <4>2, <4>4, WholeSame DEF b
      <4>6. QED
        BY <4>5 DEF b
    <3>3. QED
      BY <3>1, <3>2
  <2>4. QED
    BY <2>2, <2>3 DEF Sound, Sized
<1>15. ASSUME ~TwoSectors(f.last, c)
       PROVE  Sound(Sealed, L)
  <2>1. Sound(Sealed, Claims(InFat))
    <3>1. Claims(OnCard) = Claims(InFat)
      BY <1>1
    <3>2. QED
      BY <3>1 DEF Steady, Sane, FatInv
  <2>2. CASE f.first # EMPTY
    <3>1. h = f.first
      BY <2>2 DEF h
    <3>2. ASSUME NEW a \in L
          PROVE  Covered(Sealed, a, Claims(InFat))
      <4>1. CASE a \in Claims(InFat)
        BY <4>1 DEF Covered
      <4>2. CASE a.slot = o /\ a.first = h /\ a.size = f.size
        BY <1>10, <3>1, <4>2, ClaimFields DEF Covered
      <4>3. QED
        BY <1>13, <4>1, <4>2
    <3>3. QED
      BY <2>1, <3>2, SoundBy
  <2>3. CASE f.first = EMPTY
    <3>1. h = c /\ f.size = 0
      BY <1>1, <1>3, <1>7, <2>3 DEF h
    <3>2. Chain(Sealed, c) = {c}
      BY <1>2, <1>15, <1>f, OneLink, MarksAre
    <3>3. ASSUME NEW a \in Claims(InFat), a.slot # o
          PROVE  c \notin Chain(Sealed, a.first)
      <4> DEFINE b == a.first
      <4>1. \A x \in Chain(fat, b) : Sealed[x] = fat[x]
        <5>1. \A x \in Chain(fat, b) : card[x] = fat[x] /\ x \in Cluster
          BY <3>3, ChainIsClusters DEF Steady, Sane, FatInv, SameElsewhere, o
        <5>2. QED
          BY <1>15, <1>f, <5>1
      <4> HIDE DEF b
      <4>2. Chain(Sealed, b) = Chain(fat, b)
        BY <4>1, SameWalk
      <4>3. QED
        BY <1>11, <3>3, <4>2 DEF b
    <3>4. ASSUME NEW a \in L, a \notin Claims(InFat)
          PROVE  a.slot = o /\ a.first = c /\ a.size = 0
      BY <1>13, <3>1, <3>4
    <3>5. Apart(Sealed, L)
      <4>1. ASSUME NEW a \in L, NEW b \in L, a.slot # b.slot, a \notin Claims(InFat)
            PROVE  Chain(Sealed, a.first) \cap Chain(Sealed, b.first) = {}
        <5>1. b \in Claims(InFat) /\ b.slot # o /\ a.first = c
          BY <3>4, <4>1
        <5>2. QED
          BY <3>2, <3>3, <5>1
      <4>2. ASSUME NEW a \in L, NEW b \in L, a.slot # b.slot, a \in Claims(InFat), b \in Claims(InFat)
            PROVE  Chain(Sealed, a.first) \cap Chain(Sealed, b.first) = {}
        BY <2>1, <4>2 DEF Sound, Apart
      <4>3. QED
        BY <4>1, <4>2 DEF Apart
    <3>6. Sized(Sealed, L)
      BY <2>1, <3>4 DEF Sound, Sized
    <3>7. QED
      BY <3>5, <3>6 DEF Sound
  <2>4. QED
    BY <2>2, <2>3
<1>16. FatInv'
  <2>1. SameElsewhere'
    <3>1. ASSUME NEW a \in L, a.slot # o, NEW x \in Chain(fat', a.first)
          PROVE  card'[x] = fat'[x]
      <4>1. a \in Claims(InFat)
        BY <1>13, <3>1
      <4>2. x \in Chain(fat, a.first) /\ fat'[x] = fat[x] /\ x # c /\ x \in Cluster
        BY <1>11, <1>12, <3>1, <4>1, ChainIsClusters
      <4>3. card[x] = fat[x]
        BY <3>1, <4>1, <4>2 DEF Steady, Sane, FatInv, SameElsewhere, o
      <4>4. QED
        BY <1>g, <4>2, <4>3
    <3>2. QED
      BY <1>4, <1>8, <1>9, <3>1 DEF SameElsewhere
  <2>2. GrowthInv'
    BY <1>1, <1>4, <1>5, <1>6, <1>7, <1>g DEF GrowthInv
  <2>3. Sound(Sealed', L)
    BY <1>14, <1>15, <1>e, <1>f
  <2>4. BufferInv'
    <3>1. loose' # EMPTY => loose' \in Cluster /\ card'[loose'] = EMPTY /\ fat'[loose'] # EMPTY
      BY <1>2, <1>7, <1>c, <1>e, <1>f, MarksAre
    <3>2. c \in Unwritten' /\ fcb'[cur].last = c /\ fcb'[cur].cluster = c
      BY <1>2, <1>5, <1>6, <1>7, <1>g, MarksAre DEF Unwritten
    <3>3. ASSUME NEW x \in Unwritten'
          PROVE  SectorOf(x) = SectorOf(c)
      <4>1. x \in Cluster /\ fat'[x] # card'[x]
        BY <3>3 DEF Unwritten
      <4>2. CASE TwoSectors(f.last, c)
        BY <1>e, <4>1, <4>2
      <4>3. CASE ~TwoSectors(f.last, c)
        <5>1. CASE x = c
          BY <5>1
        <5>2. CASE x = f.last
          BY <4>1, <4>3, <5>2, MarksAre DEF TwoSectors
        <5>3. CASE x # c /\ x # f.last
          <6>1. fat'[x] = fat[x] /\ card'[x] = card[x]
            BY <1>d, <1>f, <4>1, <4>3, <5>3
          <6>2. x \in Unwritten
            BY <4>1, <6>1 DEF Unwritten
          <6>3. QED
            BY <1>b, <6>2
        <5>4. QED
          BY <5>1, <5>2, <5>3
      <4>4. QED
        BY <4>2, <4>3
    <3>4. QED
      BY <1>1, <1>4, <1>7, <3>1, <3>2, <3>3 DEF BufferInv
  <2>5. QED
    BY <1>1, <1>4, <1>9, <1>14, <2>1, <2>2, <2>3, <2>4 DEF FatInv
<1>17. \A e \in held : e # cur => e \in Fds /\ fcb'[e] = fcb[e] /\ SlotOf(e)' = SlotOf(e) /\ SlotOf(e) # o
  BY <1>1, <1>6, Kinds DEF SlotOf, Steady, Sane, HolderInv, o
<1>18. HolderInv'
  <2>1. \A e \in held : SlotOf(e)' = SlotOf(e) /\ fcb'[e].size = fcb[e].size /\ fcb'[e].mode = fcb[e].mode
    BY <1>5, <1>6, <1>8, <1>17, <1>4 DEF o, f
  <2>2. \A e \in held : SlotOf(e)' \in Slots
    BY <1>1, <2>1 DEF Steady, Sane, HolderInv
  <2>3. \A d, e \in held : SlotOf(d)' = SlotOf(e)' => d = e
    BY <1>1, <2>1 DEF Steady, Sane, HolderInv
  <2>4. \A d \in held : SlotOf(d)' \in Live'
    BY <1>1, <1>8, <2>1, Kinds DEF Steady, Sane, HolderInv, At
  <2>5. \A d \in held : SlotOf(d)' \in InFat' => dir'[SlotOf(d)'].first \in {EMPTY, fcb'[d].first}
    <3>1. ASSUME NEW d \in held, SlotOf(d) \in Live
          PROVE  dir[SlotOf(d)].first \in {EMPTY, fcb'[d].first}
      <4>1. dir[SlotOf(d)].first \in {EMPTY, fcb[d].first}
        BY <1>1, <3>1 DEF Steady, Sane, HolderInv
      <4>2. fcb[d].first = EMPTY \/ fcb'[d].first = fcb[d].first
        BY <1>5, <1>6, <1>17 DEF h, f
      <4>3. QED
        BY <4>1, <4>2
    <3>2. QED
      BY <1>4, <1>8, <2>1, <3>1
  <2>6. \A d \in held : fcb'[d].size = 0 => fcb'[d].first = EMPTY \/ At("write", d)'
    BY <1>1, <1>4, <1>17, Kinds DEF Steady, Sane, HolderInv, At
  <2>7. \A s \in Live' : dir'[s].size = 0 => dir'[s].first = EMPTY
    BY <1>4, <1>8 DEF Steady, Sane, HolderInv
  <2>8. ~hurt' => \A d \in Fds : Open(d)' => d \in held
    BY <1>1, <1>4, <1>6 DEF Steady, Sane, HolderInv, Open
  <2>9. ~hurt' => \A d \in held :
           \/ "WRITTEN" \in fcb'[d].mode \/ At("write", d)'
           \/ SlotOf(d)' \in Live' /\ Claim(SlotOf(d), fcb[d])' = Claim(SlotOf(d)', dir'[SlotOf(d)'])
    BY <1>1, <1>4, <1>8, <1>17 DEF Steady, Sane, HolderInv, At
  <2>10. QED
    BY <1>4, <1>8, <2>2, <2>3, <2>4, <2>5, <2>6, <2>7, <2>8, <2>9 DEF HolderInv
<1>19. CursorInv'
  <2>1. ASSUME NEW e \in held, e # cur
        PROVE  Cursor(fat', fcb'[e], fcb'[e].pos, fcb'[e].size)
    <3>1. Cursor(fat, fcb[e], fcb[e].pos, fcb[e].size) /\ fcb[e].pos \in Nat
      BY <1>1, <1>17, <2>1, Kinds
    <3>2. Claim(SlotOf(e), fcb[e]) \in Claims(InFat) /\ Claim(SlotOf(e), fcb[e]).slot # o
          /\ Claim(SlotOf(e), fcb[e]).first = fcb[e].first
      BY <1>1, <1>17, <2>1, ClaimsAre, ClaimFields
    <3>3. \A x \in Chain(fat, fcb[e].first) : fat'[x] = fat[x]
      BY <1>11, <3>2
    <3>4. Cursor(fat', fcb[e], fcb[e].pos, fcb[e].size)
      BY <3>1, <3>3, CursorMoved
    <3>5. QED
      BY <1>17, <2>1, <3>4
  <2>2. Cursor(fat', g, lpos, lsize)
    <3>1. c # LAST /\ lpos <= lsize
      BY <1>1, <1>2, MarksAre DEF Cursor
    <3>2. QED
      BY <1>5, <1>7, <3>1 DEF Cursor
  <2>3. /\ Cursor(fat, fcb[cur], lpos, lsize)' /\ ~fcb'[cur'].read
        /\ fcb'[cur'].pos <= lpos' /\ fcb'[cur'].size <= lsize'
        /\ fcb'[cur'].cluster \in Cluster /\ todo' > 0
    BY <1>1, <1>2, <1>4, <1>5, <1>6, <2>2
  <2>4. QED
    BY <1>1, <1>4, <2>1, <2>3 DEF CursorInv, At
<1>20. PlaceInv'
  BY <1>1, <1>4, <1>8, Kinds DEF Steady, Sane, PlaceInv
<1>21. AccountInv'
  <2> SUFFICES ASSUME ~hurt, NEW x \in Cluster, fat'[x] # EMPTY
               PROVE  \E a \in L : x \in Chain(fat', a.first)
    BY <1>4, <1>9 DEF AccountInv
  <2>1. CASE x \in Chain(fat', h)
    <3>1. Claim(fcb'[cur].slot, fcb'[cur]) \in L /\ Claim(fcb'[cur].slot, fcb'[cur]).first = h
      BY <1>1, <1>5, <1>6, ClaimFields DEF L, ClaimsOf
    <3>2. QED
      BY <2>1, <3>1
  <2>2. CASE x \notin Chain(fat', h)
    <3>1. fat'[x] = fat[x]
      BY <1>7, <2>2
    <3>2. PICK a \in Claims(InFat) : x \in Chain(fat, a.first)
      BY <3>1 DEF Steady, Sane, AccountInv
    <3>3. CASE \E q \in Live : a = Claim(q, dir[q])
      <4>1. PICK q \in Live : a = Claim(q, dir[q])
        BY <3>3
      <4>2. a \in L
        BY <1>4, <4>1 DEF L, ClaimsOf
      <4>3. CASE q = o
        <5>1. a.first \in {EMPTY, f.first}
          BY <1>1, <4>1, <4>3, ClaimFields DEF Steady, Sane, HolderInv, o, f
        <5>2. QED
          BY <1>7, <2>2, <3>2, <5>1, NoChain, MarksAre
      <4>4. CASE q # o
        BY <1>12, <3>2, <4>1, <4>2, <4>4, ClaimFields
      <4>5. QED
        BY <4>3, <4>4
    <3>4. CASE \E e \in held : a = Claim(SlotOf(e), fcb[e])
      <4>1. PICK e \in held : a = Claim(SlotOf(e), fcb[e])
        BY <3>4
      <4>2. e # cur
        BY <1>7, <2>2, <3>2, <4>1, ClaimFields DEF f
      <4>3. a \in L /\ a.slot # o
        BY <1>17, <4>1, <4>2, ClaimFields DEF L, ClaimsOf, SlotOf
      <4>4. QED
        BY <1>12, <3>2, <4>3
    <3>5. QED
      BY <1>1, <3>3, <3>4, ClaimsAre
  <2>3. QED
    BY <2>1, <2>2
<1>22. QED
  BY <1>4, <1>16, <1>18, <1>19, <1>20, <1>21 DEF Sane, Steady

LEMMA LeaveSectorSane ==
  ASSUME Steady, LeaveSector
  PROVE  ~torn' /\ Sane'
<1>1. /\ card' = fat /\ loose' = EMPTY
      /\ UNCHANGED <<fat, dir, valid, fcb, pc, op, cur, todo, lpos, lsize, held, bad, hurt, torn>>
  BY DEF LeaveSector, local, hist
<1>2. /\ pc = "write" /\ op = "write" /\ InFat = Live /\ OnCard = Live
      /\ Whole(fat, fcb[cur].first, lsize)
  BY Writing DEF LeaveSector, Allocates
<1>3. Owners' = Owners /\ Live' = Live /\ InFat' = InFat /\ OnCard' = OnCard
  BY <1>1, <1>2 DEF Owners, InFat, Live, Released, SlotOf, OnCard
<1>4. Claims(InFat)' = Claims(InFat) /\ Claims(OnCard)' = Claims(InFat)
  BY <1>1, <1>2, <1>3 DEF Claims, SlotOf
<1>5. FatInv'
  <2>1. Sealed' = fat /\ Unwritten' = {}
    BY <1>1 DEF Sealed, Unwritten
  <2>2. Sound(fat, Claims(InFat))
    BY DEF Steady, Sane, FatInv
  <2>3. SameElsewhere' /\ GrowthInv' /\ BufferInv'
    BY <1>1, <1>2, <2>1 DEF SameElsewhere, GrowthInv, BufferInv
  <2>4. QED
    BY <1>1, <1>4, <2>1, <2>2, <2>3 DEF FatInv
<1>6. PlaceInv'
  <2>1. SlotOf(cur)' = SlotOf(cur) /\ Detached(SlotOf(TMP))' = Detached(SlotOf(TMP))
    BY <1>1, <1>3 DEF SlotOf, Detached
  <2>2. QED
    BY <1>1, <1>2, <1>3, <2>1 DEF Steady, Sane, PlaceInv
<1>7. HolderInv'
  BY <1>1, <1>3 DEF Steady, Sane, HolderInv, SlotOf, At, Open
<1>8. CursorInv' /\ AccountInv'
  BY <1>1, <1>4 DEF Steady, Sane, CursorInv, AccountInv, At
<1>9. QED
  BY <1>1, <1>5, <1>6, <1>7, <1>8 DEF Sane, Steady

(* A release reaches the card sector by sector: what it changes there is no  *)
(* file's any more.                                                          *)
LEMMA ReleaseSectorSane ==
  ASSUME Steady, ReleaseSector
  PROVE  ~torn' /\ Sane'
<1> DEFINE R == Run(card, at)
<1>1. /\ pc \in {"flush", "rest"} /\ pc' = "rest" /\ op # "write" /\ op \in {"open", "unlink"}
      /\ card' = [x \in Cluster |-> IF x \in R THEN fat[x] ELSE card[x]]
      /\ UNCHANGED <<fat, dir, valid, fcb, op, cur, todo, lpos, lsize, held, bad, hurt, torn>>
      /\ loose' = loose
  BY DEF ReleaseSector, hist, Steady, Sane, PlaceInv
<1>2. loose = EMPTY
  BY <1>1, NoLoose
<1>3. Owners' = Owners /\ Live' = Live /\ InFat' = InFat /\ OnCard' = InFat
  BY <1>1 DEF Owners, InFat, Live, Released, SlotOf, OnCard
<1>4. Claims(InFat)' = Claims(InFat) /\ Claims(OnCard)' = Claims(InFat)
  BY <1>1, <1>3 DEF Claims, SlotOf
<1> HIDE DEF R
<1>5. ASSUME NEW a \in Claims(InFat), NEW x \in Chain(fat, a.first)
      PROVE  card'[x] = fat[x]
  <2>1. x \in Cluster
    BY <1>5, ChainIsClusters
  <2>2. CASE a.slot # SlotOf(cur)
    <3>1. card[x] = fat[x]
      BY <2>2 DEF Steady, Sane, FatInv, SameElsewhere
    <3>2. QED
      BY <1>1, <2>1, <3>1
  <2>3. CASE a.slot = SlotOf(cur)
    <3>1. SlotOf(cur) \notin InFat
      BY <1>1 DEF InFat, Released
    <3>2. PICK d \in Owners : a = Claim(SlotOf(d), fcb[d]) /\ SlotOf(d) = SlotOf(cur)
      BY <2>3, <3>1, ClaimsAre, ClaimFields
    <3>3. op = "open" /\ d = cur
      <4>1. op = "unlink" => cur = TMP /\ \A e \in Owners : SlotOf(e) # SlotOf(TMP)
        BY DEF Steady, Sane, PlaceInv, Detached
      <4>2. op = "open" => cur \in Owners
        BY DEF Steady, Sane, PlaceInv, Owners
      <4>3. QED
        BY <1>1, <3>2, <4>1, <4>2 DEF Steady, Sane, HolderInv
    <3>4. a.first = EMPTY
      BY <3>2, <3>3, ClaimFields DEF Steady, Sane, PlaceInv
    <3>5. QED
      BY <1>5, <3>4, NoChain, MarksAre
  <2>4. QED
    BY <2>2, <2>3
<1>6. FatInv'
  <2>1. Sound(fat, Claims(InFat))
    BY DEF Steady, Sane, FatInv
  <2>2. \A a \in Claims(InFat) : a.size \in Nat
    BY Kinds, Sizes
  <2>3. Sound(card', Claims(InFat))
    BY <1>5, <2>1, <2>2, SoundMoved
  <2>4. SameElsewhere'
    BY <1>1, <1>4, <1>5 DEF SameElsewhere
  <2>5. GrowthInv' /\ BufferInv' /\ Sealed' = card'
    BY <1>1, <1>2 DEF GrowthInv, BufferInv, Sealed
  <2>6. QED
    BY <1>1, <1>4, <2>1, <2>3, <2>4, <2>5 DEF FatInv
<1>7. PlaceInv'
  <2>1. SlotOf(cur)' = SlotOf(cur) /\ Detached(SlotOf(TMP))' = Detached(SlotOf(TMP))
    BY <1>1, <1>3 DEF SlotOf, Detached
  <2>2. QED
    BY <1>1, <1>3, <2>1 DEF Steady, Sane, PlaceInv
<1>8. HolderInv'
  BY <1>1, <1>3 DEF Steady, Sane, HolderInv, SlotOf, At, Open
<1>9. CursorInv' /\ AccountInv'
  BY <1>1, <1>4 DEF Steady, Sane, CursorInv, AccountInv, At
<1>10. QED
  BY <1>1, <1>6, <1>7, <1>8, <1>9 DEF Sane, Steady

LEMMA FlushSane ==
  ASSUME Steady, Flush
  PROVE  ~torn' /\ Sane'
<1>1. /\ AtFlush /\ card' = fat /\ loose' = EMPTY
      /\ UNCHANGED <<fat, dir, valid, held, hurt, torn>>
  BY DEF Flush, FlushStep
<1>2. CASE pc \in {"flush", "rest"}
  <2>1. op \in {"open", "unlink"} /\ op # "write"
    BY <1>2 DEF Steady, Sane, PlaceInv
  <2>2. pc' = "dir" /\ UNCHANGED <<fcb, op, cur, todo, lpos, lsize, bad>>
    BY <2>1 DEF Flush, FlushStep
  <2>3. Owners' = Owners /\ InFat' = InFat /\ Live' = Live
    BY <1>1, <2>2 DEF Owners, InFat, Live, Released, SlotOf
  <2>4. \A e \in Owners : SameFile(fcb'[e], fcb[e])
    BY <2>2 DEF SameFile
  <2>5. Claims(InFat)' = Claims(InFat) /\ ClaimsOf(dir', fcb', Owners', InFat') = Claims(InFat)
    BY <1>1, <2>3, <2>4, SameClaims
  <2>6. FatInv'
    <3>1. Sound(card', ClaimsOf(dir', fcb', Owners', InFat'))
      BY <1>1, <2>5 DEF Steady, Sane, FatInv
    <3>2. QED
      BY <1>1, <2>1, <2>2, <3>1, QuietFat
  <2>7. HolderInv'
    BY <1>1, <2>2, <2>3 DEF Steady, Sane, HolderInv, SlotOf, At, Open
  <2>8. PlaceInv'
    <3>1. SlotOf(cur)' = SlotOf(cur) /\ Detached(SlotOf(TMP))' = Detached(SlotOf(TMP))
      BY <2>2, <2>3 DEF SlotOf, Detached
    <3>2. QED
      BY <1>1, <2>1, <2>2, <2>3, <3>1 DEF Steady, Sane, PlaceInv
  <2>9. CursorInv' /\ AccountInv'
    BY <1>1, <2>1, <2>2, <2>5 DEF Steady, Sane, CursorInv, AccountInv, At
  <2>10. QED
    BY <1>1, <2>6, <2>7, <2>8, <2>9 DEF Sane, Steady
<1>3. CASE pc = "write"
  <2> DEFINE f == fcb[cur]
             g == [f EXCEPT !.pos = lpos, !.size = lsize, !.mode = @ \cup {"WRITTEN"}]
  <2>1. /\ op = "write" /\ cur \in held /\ cur \in Fds /\ cur \in Owners /\ bad = None
        /\ Owners = held /\ Released = {} /\ InFat = Live
        /\ Cursor(fat, f, lpos, lsize) /\ ~f.read
        /\ Whole(fat, f.first, lsize)
        /\ \A e \in held : e # cur => Cursor(fat, fcb[e], fcb[e].pos, fcb[e].size)
    BY <1>3, Writing
  <2>2. f \in File /\ lpos \in Nat /\ lsize \in Nat
    BY <2>1, Kinds
  <2>3. /\ fcb' = [fcb EXCEPT ![cur] = g]
        /\ \/ op' = "none" /\ cur' = TMP /\ pc' = "idle" /\ bad' = None
           \/ op' = "none" /\ cur' = TMP /\ pc' = "idle" /\ bad' = cur
           \/ op' = "give_up" /\ cur' = cur /\ pc' = "dir" /\ bad' = cur
    <3>1. fcb' = [fcb EXCEPT ![cur].pos = lpos, ![cur].size = lsize, ![cur].mode = @ \cup {"WRITTEN"}]
      BY <2>1 DEF Flush, FlushStep
    <3>2. fcb' = [fcb EXCEPT ![cur] = g]
      BY <2>1, <3>1 DEF Steady, IInv, TypeOK
    <3>3. GiveUp(cur) \/ (Return /\ UNCHANGED bad)
      BY <2>1 DEF Flush, FlushStep
    <3>4. QED
      BY <2>1, <3>2, <3>3 DEF GiveUp, Call, Return
  <2>4. g.slot = f.slot /\ g.first = f.first /\ g.size = lsize /\ g.pos = lpos /\ g.read = f.read
        /\ g.cluster = f.cluster /\ g.last = f.last /\ "WRITTEN" \in g.mode
    BY <2>2 DEF File
  <2>5. lsize = 0 => f.first = EMPTY
    <3>1. todo = 0 \/ f.cluster \notin Cluster
      BY <1>1, <1>3, MarksAre DEF AtFlush, NeedsCluster
    <3>2. lsize > 0 \/ f.first = EMPTY \/ (f.cluster \in Cluster /\ todo > 0)
      BY <2>1 DEF Steady, Sane, CursorInv
    <3>3. QED
      BY <3>1, <3>2
  <2> HIDE DEF g, f
  <2>6. fcb'[cur] = g /\ \A e \in Fds \cup {TMP} : e # cur => fcb'[e] = fcb[e]
    BY <2>1, <2>3, OneBlock
  <2>7. \A e \in held : e # cur => e \in Fds /\ fcb'[e] = fcb[e]
    BY <2>6, Kinds
  <2>8. \A e \in held : SlotOf(e)' = SlotOf(e) /\ fcb'[e].first = fcb[e].first
    BY <2>4, <2>6, <2>7 DEF SlotOf, f
  <2>9. Owners' = held /\ InFat' = Live /\ Live' = Live
    BY <1>1, <2>1, <2>3 DEF Owners, InFat, Live, Released
  <2>10. \A e \in held : e # cur => Claim(fcb'[e].slot, fcb'[e]) = Claim(SlotOf(e), fcb[e])
    BY <2>7 DEF SlotOf
  <2>11. FatInv'
    <3>1. ASSUME NEW a \in ClaimsOf(dir', fcb', Owners', InFat')
          PROVE  Covered(fat, a, Claims(InFat))
      <4>1. CASE a \in Claims(InFat)
        BY <4>1 DEF Covered
      <4>2. CASE a = Claim(fcb'[cur].slot, fcb'[cur])
        <5>1. a.slot = SlotOf(cur) /\ a.first = f.first /\ a.size = lsize
          BY <2>4, <2>6, <4>2, ClaimFields DEF SlotOf, f
        <5>2. /\ Claim(SlotOf(cur), fcb[cur]) \in Claims(InFat)
              /\ Claim(SlotOf(cur), fcb[cur]).slot = SlotOf(cur)
              /\ Claim(SlotOf(cur), fcb[cur]).first = f.first
          BY <2>1, ClaimsAre, ClaimFields DEF f
        <5>3. QED
          BY <2>1, <5>1, <5>2 DEF Covered
      <4>3. a \in Claims(InFat) \/ a = Claim(fcb'[cur].slot, fcb'[cur])
        BY <1>1, <2>1, <2>9, <2>10, ClaimsAre DEF ClaimsOf
      <4>4. QED
        BY <4>1, <4>2, <4>3
    <3>2. Sound(fat, Claims(InFat))
      BY DEF Steady, Sane, FatInv
    <3>3. Sound(card', ClaimsOf(dir', fcb', Owners', InFat'))
      BY <1>1, <3>1, <3>2, SoundBy
    <3>4. QED
      BY <1>1, <2>3, <3>3, QuietFat
  <2>12. HolderInv'
    <3>1. \A e \in held : SlotOf(e)' \in Slots /\ SlotOf(e)' \in Live'
      BY <2>1, <2>8, <2>9, Kinds DEF Steady, Sane, HolderInv, At
    <3>2. \A e, d \in held : SlotOf(e)' = SlotOf(d)' => e = d
      BY <2>1, <2>8 DEF Steady, Sane, HolderInv
    <3>3. \A e \in held : SlotOf(e)' \in InFat' => dir'[SlotOf(e)'].first \in {EMPTY, fcb'[e].first}
      BY <1>1, <2>1, <2>8, <2>9 DEF Steady, Sane, HolderInv
    <3>4. \A e \in held : fcb'[e].size = 0 => fcb'[e].first = EMPTY
      <4>1. \A e \in held : e # cur => (fcb[e].size = 0 => fcb[e].first = EMPTY)
        BY <2>1, Kinds DEF Steady, Sane, HolderInv, At
      <4>2. QED
        BY <2>4, <2>5, <2>6, <2>7, <4>1
    <3>5. \A s \in Live' : dir'[s].size = 0 => dir'[s].first = EMPTY
      BY <1>1, <2>9 DEF Steady, Sane, HolderInv
    <3>6. ~hurt' => \A e \in Fds : Open(e)' => e \in held
      BY <1>1, <2>1, <2>6 DEF Steady, Sane, HolderInv, Open
    <3>7. ~hurt' => \A e \in held :
             \/ "WRITTEN" \in fcb'[e].mode
             \/ SlotOf(e)' \in Live' /\ Claim(SlotOf(e), fcb[e])' = Claim(SlotOf(e)', dir'[SlotOf(e)'])
      BY <1>1, <2>1, <2>4, <2>6, <2>7, <2>8, <2>9 DEF Steady, Sane, HolderInv, At
    <3>8. QED
      BY <1>1, <2>9, <3>1, <3>2, <3>3, <3>4, <3>5, <3>6, <3>7 DEF HolderInv
  <2>13. PlaceInv'
    BY <1>1, <2>1, <2>3, <2>4, <2>6, <2>9, Kinds DEF Steady, Sane, PlaceInv
  <2>14. CursorInv'
    <3>1. Cursor(fat, g, lpos, lsize)
      BY <2>1, <2>4 DEF Cursor
    <3>2. \A e \in held : Cursor(fat, fcb[e], fcb[e].pos, fcb[e].size)'
      BY <1>1, <2>1, <2>4, <2>6, <2>7, <3>1
    <3>3. QED
      BY <1>1, <2>3, <3>2 DEF CursorInv
  <2>15. AccountInv'
    <3> SUFFICES ASSUME ~hurt, NEW c \in Cluster, fat[c] # EMPTY
                 PROVE  \E a \in ClaimsOf(dir', fcb', Owners', InFat') : c \in Chain(fat, a.first)
      BY <1>1 DEF AccountInv, Claims, ClaimsOf, SlotOf
    <3>1. PICK a \in Claims(InFat) : c \in Chain(fat, a.first)
      BY DEF Steady, Sane, AccountInv
    <3>2. CASE \E q \in Live : a = Claim(q, dir[q])
      BY <1>1, <2>9, <3>1, <3>2 DEF ClaimsOf
    <3>3. CASE \E e \in held : a = Claim(SlotOf(e), fcb[e])
      <4>1. PICK e \in held : a = Claim(SlotOf(e), fcb[e])
        BY <3>3
      <4>2. Claim(fcb'[e].slot, fcb'[e]).first = a.first
        BY <2>8, <4>1, ClaimFields
      <4>3. QED
        BY <2>9, <3>1, <4>2 DEF ClaimsOf
    <3>4. QED
      BY <2>1, <3>1, <3>2, <3>3, ClaimsAre
  <2>16. QED
    BY <1>1, <2>11, <2>12, <2>13, <2>14, <2>15 DEF Sane, Steady
<1>4. QED
  BY <1>1, <1>2, <1>3 DEF AtFlush

LEMMA DirWriteSane ==
  ASSUME Steady, DirWrite
  PROVE  ~torn' /\ Sane'
<1> DEFINE f == fcb[cur]
           s == f.slot
           gone == op = "unlink" \/ (op \in {"close", "give_up"} /\ f.size = 0)
           ne == IF gone THEN NoEntry
                 ELSE [live |-> TRUE, name |-> f.name, first |-> f.first, size |-> f.size]
<1>1. pc = "dir" /\ op \in {"open", "give_up", "close", "unlink", "rename"} /\ fat = card
  BY DEF DirWrite, Steady, Sane, PlaceInv, FatInv, IInv, TypeOK
<1>a. loose = EMPTY /\ loose' = EMPTY /\ Sealed = card /\ OnCard = InFat
  BY <1>1, NoLoose DEF DirWrite, OnCard
<1>2. /\ dir' = [dir EXCEPT ![s] = ne] /\ op' = "none" /\ cur' = TMP /\ pc' = "idle"
      /\ bad' = (IF op = "close" THEN None ELSE bad)
      /\ UNCHANGED <<fat, card, hint, valid, held, hurt, torn>>
  BY DEF DirWrite, Return, local
<1>3. /\ cur \in Fds \cup {TMP} /\ s \in Slots /\ s = SlotOf(cur)
      /\ op \in {"open", "give_up"} => cur \in held /\ cur \in Owners
      /\ op = "close" => cur \in Owners /\ cur \notin held /\ bad \in {None, cur}
      /\ op \in {"unlink", "rename"} =>
           cur = TMP /\ cur \notin held /\ s \in Live /\ \A d \in Owners : SlotOf(d) # s
      /\ held \subseteq Owners /\ held \subseteq Fds /\ None \notin Fds
      /\ Owners \subseteq held \cup {cur}
  <2>1. cur \in Fds \cup {TMP} /\ held \subseteq Owners /\ held \subseteq Fds /\ None \notin Fds
        /\ Owners \subseteq held \cup {cur}
    BY Kinds DEF Steady, IInv, TypeOK, Owners
  <2>2. op \in {"open", "give_up"} => cur \in held /\ cur \in Owners
    BY <2>1 DEF Steady, Sane, PlaceInv
  <2>3. op = "close" => cur \in Owners /\ cur \notin held /\ bad \in {None, cur}
    BY DEF Steady, Sane, PlaceInv, Owners
  <2>4. op \in {"unlink", "rename"} =>
          cur = TMP /\ cur \notin held /\ s \in Live /\ \A d \in Owners : SlotOf(d) # s
    BY Kinds DEF Steady, Sane, PlaceInv, Detached, SlotOf
  <2>5. s \in Slots
    BY <1>1, <2>2, <2>3, <2>4, Kinds DEF Steady, Sane, HolderInv, SlotOf
  <2>6. QED
    BY <2>1, <2>2, <2>3, <2>4, <2>5 DEF SlotOf
<1>4. /\ f.size \in Nat /\ dir'[s] = ne /\ \A q \in Slots : q # s => dir'[q] = dir[q]
  BY <1>2, <1>3, Kinds DEF Steady, IInv, TypeOK
<1>5. ~gone => /\ Claim(s, ne) = Claim(s, f) /\ ne.live
               /\ ne.first = f.first /\ ne.size = f.size
  BY DEF Claim
<1>6. gone => ~ne.live
  BY DEF NoEntry
<1>7. \A e \in held : e = cur => op \in {"open", "give_up"}
  BY <1>1, <1>3
<1>8. \A e \in held : SlotOf(e) = s => e = cur
  BY <1>1, <1>3 DEF Steady, Sane, HolderInv
<1> DEFINE Keeps(g, h) == /\ g.slot = h.slot /\ g.first = h.first /\ g.size = h.size
                          /\ g.pos = h.pos /\ g.cluster = h.cluster /\ g.last = h.last
                          /\ g.read = h.read /\ ("WRITTEN" \in h.mode => "WRITTEN" \in g.mode)
<1>9. /\ \A e \in held : Keeps(fcb'[e], fcb[e])
      /\ op = "open" => "WRITTEN" \in fcb'[cur].mode
      /\ op = "close" => fcb'[cur] = NoFile
      /\ \A e \in Fds : e # cur => fcb'[e] = fcb[e]
  <2>1. CASE op = "open"
    <3> DEFINE g == [f EXCEPT !.mode = @ \cup {"WRITTEN"}]
    <3>1. fcb' = [fcb EXCEPT ![cur] = g]
      BY <2>1 DEF DirWrite, Done
    <3>2. f \in File
      BY <1>3, Kinds
    <3>3. Keeps(g, f) /\ "WRITTEN" \in g.mode
      BY <3>2 DEF File
    <3> HIDE DEF g
    <3>4. fcb'[cur] = g /\ \A e \in Fds : e # cur => fcb'[e] = fcb[e]
      BY <1>3, <3>1, OneBlock
    <3>5. \A e \in held : Keeps(fcb'[e], fcb[e])
      BY <1>3, <3>3, <3>4
    <3>6. QED
      BY <2>1, <3>3, <3>4, <3>5
  <2>2. CASE op = "give_up"
    BY <2>2 DEF DirWrite, Done
  <2>3. CASE op \in {"close", "unlink", "rename"}
    <3>1. fcb' = [fcb EXCEPT ![cur] = NoFile]
      BY <2>3 DEF DirWrite, Done
    <3>2. fcb'[cur] = NoFile /\ \A e \in Fds : e # cur => fcb'[e] = fcb[e]
      BY <1>3, <3>1, OneBlock
    <3>3. \A e \in held : e # cur /\ e \in Fds
      BY <1>3, <2>3
    <3>4. QED
      BY <2>3, <3>2, <3>3
  <2>4. QED
    BY <1>1, <2>1, <2>2, <2>3
<1> HIDE DEF ne
<1>10. \A q \in Slots : /\ q # s => (q \in Live' <=> q \in Live)
                        /\ q = s => (q \in Live' <=> ~gone)
  BY <1>4, <1>5, <1>6 DEF Live
<1>11. Owners' = held /\ InFat' = Live' /\ Live' \subseteq Slots /\ Live \subseteq Slots
  BY <1>2 DEF Owners, InFat, Released, Live
<1>12. \A q \in Live : q # s => q \in InFat
  BY <1>3 DEF InFat, Released
<1>13. op \in {"give_up", "close", "rename"} => InFat = Live
  BY DEF InFat, Released
<1>14. \A e \in held : Claim(fcb'[e].slot, fcb'[e]) = Claim(SlotOf(e), fcb[e]) /\ SlotOf(e)' = SlotOf(e)
  BY <1>9 DEF Claim, SlotOf
<1>15. \A e \in held : e = bad => e = bad'
  BY <1>2, <1>3
<1> HIDE DEF Keeps, gone
<1>16. ~gone => Claim(s, f) \in Claims(InFat)
  <2>1. CASE op \in {"open", "give_up", "close"}
    BY <1>3, <2>1, ClaimsAre DEF SlotOf
  <2>2. CASE op = "rename"
    <3>1. Claim(s, f) = Claim(s, dir[s])
      BY <1>3, <2>2 DEF Steady, Sane, PlaceInv, SlotOf
    <3>2. s \in InFat
      BY <1>3, <1>13, <2>2
    <3>3. QED
      BY <3>1, <3>2, ClaimsAre
  <2>3. QED
    BY <1>1, <2>1, <2>2 DEF gone
<1>17. FatInv'
  <2>1. ASSUME NEW a \in ClaimsOf(dir', fcb', Owners', InFat')
        PROVE  a \in Claims(InFat)
    <3>1. CASE \E e \in held : a = Claim(fcb'[e].slot, fcb'[e])
      BY <1>3, <1>14, <3>1, ClaimsAre
    <3>2. CASE \E q \in Live' : a = Claim(q, dir'[q])
      <4>1. PICK q \in Live' : a = Claim(q, dir'[q])
        BY <3>2
      <4>2. CASE q = s
        BY <1>4, <1>5, <1>10, <1>11, <1>16, <4>1, <4>2
      <4>3. CASE q # s
        BY <1>4, <1>10, <1>11, <1>12, <4>1, <4>3, ClaimsAre
      <4>4. QED
        BY <4>2, <4>3
    <3>3. QED
      BY <1>11, <3>1, <3>2 DEF ClaimsOf
  <2>2. Sound(card, Claims(InFat))
    BY <1>1 DEF Steady, Sane, FatInv
  <2>3. \A a \in ClaimsOf(dir', fcb', Owners', InFat') : Covered(card, a, Claims(InFat))
    BY <2>1 DEF Covered
  <2>4. Sound(card', ClaimsOf(dir', fcb', Owners', InFat'))
    BY <1>2, <2>2, <2>3, SoundBy
  <2>5. QED
    BY <1>1, <1>2, <1>a, <2>4, QuietFat
<1>18. HolderInv'
  <2>1. \A e, h \in held : SlotOf(e)' \in Slots /\ (SlotOf(e)' = SlotOf(h)' => e = h)
    BY <1>3, <1>14 DEF Steady, Sane, HolderInv
  <2>2. \A e \in held : SlotOf(e)' \in Live' \/ e = bad'
    <3>1. ASSUME NEW e \in held, SlotOf(e) = s
          PROVE  s \in Live' \/ e = bad'
      <4>1. e = cur
        BY <1>8, <3>1
      <4>2. CASE op = "open"
        BY <1>3, <1>10, <4>2 DEF gone
      <4>3. CASE op = "give_up"
        BY <1>2, <4>1, <4>3 DEF Steady, Sane, PlaceInv
      <4>4. QED
        BY <1>7, <4>1, <4>2, <4>3
    <3>2. ASSUME NEW e \in held, SlotOf(e) # s
          PROVE  SlotOf(e) \in Live' \/ e = bad'
      <4>1. SlotOf(e) \in Live \/ e = bad
        BY <1>3, <3>2 DEF Steady, Sane, HolderInv, At
      <4>2. QED
        BY <1>10, <1>11, <1>15, <3>2, <4>1
    <3>3. QED
      BY <1>14, <3>1, <3>2
  <2>3. \A e \in held : SlotOf(e)' \in Live' => dir'[SlotOf(e)'].first \in {EMPTY, fcb'[e].first}
    <3>1. ASSUME NEW e \in held, SlotOf(e) \in Live'
          PROVE  dir'[SlotOf(e)].first \in {EMPTY, fcb[e].first}
      <4>1. CASE SlotOf(e) = s
        BY <1>4, <1>5, <1>8, <1>10, <1>11, <3>1, <4>1
      <4>2. CASE SlotOf(e) # s
        <5>1. SlotOf(e) \in InFat /\ dir'[SlotOf(e)] = dir[SlotOf(e)]
          BY <1>4, <1>10, <1>11, <1>12, <3>1, <4>2
        <5>2. QED
          BY <1>3, <5>1 DEF Steady, Sane, HolderInv
      <4>3. QED
        BY <4>1, <4>2
    <3>2. QED
      BY <1>9, <1>14, <3>1 DEF Keeps
  <2>4. \A e \in held : fcb'[e].size = 0 => fcb'[e].first = EMPTY \/ (e = bad' /\ hurt')
    <3>1. \A e \in held : fcb[e].size = 0 => fcb[e].first = EMPTY \/ (e = bad /\ hurt)
      BY <1>1, <1>3 DEF Steady, Sane, HolderInv, At
    <3>2. QED
      BY <1>2, <1>9, <1>15, <3>1 DEF Keeps
  <2>5. \A q \in Live' : dir'[q].size = 0 => dir'[q].first = EMPTY
    <3>1. ASSUME ~gone, f.size = 0
          PROVE  f.first = EMPTY
      <4>1. CASE op = "open"
        BY <4>1 DEF Steady, Sane, PlaceInv
      <4>2. CASE op = "rename"
        <5>1. Claim(s, f) = Claim(s, dir[s]) /\ s \in Live
          BY <1>3, <4>2 DEF Steady, Sane, PlaceInv, SlotOf
        <5>2. f.size = dir[s].size /\ f.first = dir[s].first
          BY <5>1, ClaimFields
        <5>3. QED
          BY <3>1, <5>1, <5>2 DEF Steady, Sane, HolderInv
      <4>3. QED
        BY <1>1, <3>1, <4>1, <4>2 DEF gone
    <3>2. QED
      BY <1>4, <1>5, <1>10, <1>11, <3>1 DEF Steady, Sane, HolderInv
  <2>6. ~hurt' => \A e \in Fds : Open(e)' => e \in held
    <3>1. ASSUME NEW e \in Fds, ~hurt, fcb'[e] # NoFile
          PROVE  e \in held
      <4>1. CASE e = cur
        BY <1>1, <1>3, <1>9, <3>1, <4>1, Kinds
      <4>2. CASE e # cur
        <5>1. e \in Owners
          BY <1>9, <3>1, <4>2 DEF Steady, Sane, HolderInv, Open
        <5>2. QED
          BY <1>3, <4>2, <5>1
      <4>3. QED
        BY <4>1, <4>2
    <3>2. QED
      BY <1>2, <3>1 DEF Open
  <2>7. ~hurt' => \A e \in held :
           \/ "WRITTEN" \in fcb'[e].mode
           \/ SlotOf(e)' \in Live' /\ Claim(SlotOf(e), fcb[e])' = Claim(SlotOf(e)', dir'[SlotOf(e)'])
    <3>1. ASSUME NEW e \in held, ~hurt, e = cur
          PROVE  "WRITTEN" \in fcb'[e].mode
      <4>1. CASE op = "open"
        BY <1>9, <3>1, <4>1
      <4>2. CASE op = "give_up"
        <5>1. "WRITTEN" \in fcb[cur].mode
          BY <4>2 DEF Steady, Sane, PlaceInv
        <5>2. QED
          BY <1>9, <3>1, <5>1 DEF Keeps
      <4>3. QED
        BY <1>7, <3>1, <4>1, <4>2
    <3>2. ASSUME NEW e \in held, ~hurt, e # cur
          PROVE  \/ "WRITTEN" \in fcb'[e].mode
                 \/ SlotOf(e)' \in Live' /\ Claim(fcb'[e].slot, fcb'[e]) = Claim(SlotOf(e)', dir'[SlotOf(e)'])
      <4>1. \/ "WRITTEN" \in fcb[e].mode
            \/ SlotOf(e) \in Live /\ Claim(SlotOf(e), fcb[e]) = Claim(SlotOf(e), dir[SlotOf(e)])
        BY <1>1, <1>3, <3>2 DEF Steady, Sane, HolderInv, At
      <4>2. SlotOf(e) # s
        BY <1>8, <3>2
      <4>3. QED
        BY <1>4, <1>9, <1>10, <1>11, <1>14, <4>1, <4>2 DEF Keeps
    <3>3. \A e \in held : Claim(SlotOf(e), fcb[e])' = Claim(fcb'[e].slot, fcb'[e])
      BY DEF SlotOf
    <3>4. QED
      BY <1>2, <3>1, <3>2, <3>3
  <2>8. QED
    BY <1>2, <1>11, <2>1, <2>2, <2>3, <2>4, <2>5, <2>6, <2>7 DEF HolderInv
<1>19. CursorInv'
  <2>1. \A e \in held : Cursor(fat, fcb[e], fcb[e].pos, fcb[e].size) \/ e = bad
    BY <1>1 DEF Steady, Sane, CursorInv, At
  <2>2. \A e \in held : Cursor(fat, fcb'[e], fcb'[e].pos, fcb'[e].size) \/ e = bad'
    BY <1>9, <1>15, <2>1 DEF Keeps, Cursor
  <2>3. QED
    BY <1>2, <2>2 DEF CursorInv
<1>20. AccountInv'
  <2> SUFFICES ASSUME ~hurt, NEW c \in Cluster, fat[c] # EMPTY
               PROVE  \E a \in ClaimsOf(dir', fcb', Owners', InFat') : c \in Chain(fat, a.first)
    BY <1>2 DEF AccountInv, Claims, ClaimsOf, SlotOf
  <2>1. PICK a \in Claims(InFat) : c \in Chain(fat, a.first)
    BY DEF Steady, Sane, AccountInv
  <2>2. a.first # EMPTY
    BY <2>1, NoChain, MarksAre
  <2>3. \A q \in Live' : Claim(q, dir'[q]) \in ClaimsOf(dir', fcb', Owners', InFat')
    BY <1>11 DEF ClaimsOf
  <2>4. \A e \in held : Claim(SlotOf(e), fcb[e]) \in ClaimsOf(dir', fcb', Owners', InFat')
    BY <1>11, <1>14 DEF ClaimsOf
  <2>5. ASSUME a.first = f.first, cur \in Owners
        PROVE  \E b \in ClaimsOf(dir', fcb', Owners', InFat') : b.first = f.first
    <3>1. CASE cur \in held
      BY <2>4, <3>1, ClaimFields DEF SlotOf
    <3>2. CASE cur \notin held
      <4>1. f.size = 0 => f.first = EMPTY
        BY <1>1, <2>5 DEF Steady, Sane, HolderInv, At
      <4>2. ~gone
        BY <1>1, <1>3, <2>2, <2>5, <3>2, <4>1, Kinds DEF gone
      <4>3. s \in Live' /\ Claim(s, dir'[s]).first = f.first
        BY <1>3, <1>4, <1>5, <1>10, <4>2, ClaimFields
      <4>4. QED
        BY <2>3, <4>3
    <3>3. QED
      BY <3>1, <3>2
  <2>6. CASE \E e \in Owners : a = Claim(SlotOf(e), fcb[e])
    <3>1. PICK e \in Owners : a = Claim(SlotOf(e), fcb[e])
      BY <2>6
    <3>2. CASE e \in held
      BY <2>1, <2>4, <3>1, <3>2
    <3>3. CASE e = cur
      BY <2>1, <2>5, <3>1, <3>3, ClaimFields
    <3>4. QED
      BY <1>3, <3>2, <3>3
  <2>7. CASE \E q \in InFat : a = Claim(q, dir[q])
    <3>1. PICK q \in InFat : a = Claim(q, dir[q])
      BY <2>7
    <3>2. CASE q # s
      <4>1. q \in Live' /\ dir'[q] = dir[q]
        BY <1>4, <1>10, <1>11, <3>1, <3>2 DEF InFat
      <4>2. QED
        BY <2>1, <2>3, <3>1, <4>1
    <3>3. CASE q = s
      <4>1. op \notin {"open", "unlink"}
        BY <1>3, <3>1, <3>3 DEF InFat, Released
      <4>2. CASE op = "rename"
        <5>1. Claim(s, f) = Claim(s, dir[s]) /\ ~gone
          BY <1>3, <4>2 DEF Steady, Sane, PlaceInv, SlotOf, gone
        <5>2. s \in Live' /\ Claim(s, dir'[s]) = a
          BY <1>3, <1>4, <1>5, <1>10, <3>1, <3>3, <5>1
        <5>3. QED
          BY <2>1, <2>3, <5>2
      <4>3. CASE op \in {"give_up", "close"}
        <5>1. cur \in Owners
          BY <1>3, <4>3
        <5>2. dir[s].first \in {EMPTY, f.first}
          BY <1>3, <3>1, <3>3, <5>1 DEF Steady, Sane, HolderInv
        <5>3. a.first = f.first
          BY <2>2, <3>1, <3>3, <5>2, ClaimFields
        <5>4. QED
          BY <2>1, <2>5, <5>1, <5>3
      <4>4. QED
        BY <1>1, <4>1, <4>2, <4>3
    <3>4. QED
      BY <3>2, <3>3
  <2>8. QED
    BY <2>6, <2>7, ClaimsAre
<1>21. PlaceInv'
  <2>1. bad' \in {None} \cup held
    BY <1>1, <1>2, <1>3 DEF Steady, Sane, PlaceInv
  <2>2. ~valid' => hurt'
    BY <1>2 DEF Steady, Sane, PlaceInv
  <2>3. QED
    BY <1>2, <1>11, <2>1, <2>2 DEF PlaceInv
<1>22. QED
  BY <1>2, <1>17, <1>18, <1>19, <1>20, <1>21 DEF Sane, Steady

-----------------------------------------------------------------------------
(* Failures. *)

LEMMA RefuseKeptSane ==
  ASSUME Steady, RefuseKept
  PROVE  ChainInv'
<1>1. /\ op \in {"read", "write", "give_up"} /\ ~hurt /\ hurt'
      /\ UNCHANGED <<dir, fcb, held>> /\ fat' = card' /\ loose' = EMPTY
  BY DEF RefuseKept, Refused
<1>2. cur \in held /\ bad \in {None, cur} /\ Owners = held /\ InFat = Live /\ OnCard = Live /\ Released = {}
  BY <1>1 DEF Steady, Sane, PlaceInv, Owners, InFat, Released, OnCard
<1>3. /\ bad' = cur
      /\ \/ op' = "none" /\ cur' = TMP /\ pc' = "idle"
         \/ op' = "give_up" /\ cur' = cur /\ pc' = "dir" /\ "WRITTEN" \in fcb[cur].mode
  BY <1>1 DEF RefuseKept, GiveUp, Call, Return
<1>a. CASE torn'
  BY <1>1, <1>3, <1>a DEF ChainInv, Broken
<1>b. SUFFICES ASSUME ~torn' PROVE Sane'
  BY <1>a DEF ChainInv
<1>4. card' = fat \/ (card' = card /\ loose = EMPTY)
  BY <1>b DEF RefuseKept
<1>5. Owners' = held /\ InFat' = Live /\ Live' = Live
  BY <1>1, <1>3 DEF Owners, InFat, Live, Released
<1>6. FatInv'
  <2>1. ClaimsOf(dir', fcb', Owners', InFat') = Claims(InFat)
    BY <1>1, <1>2, <1>5 DEF ClaimsOf, Claims, SlotOf
  <2>2. (loose = EMPTY => Sound(card, Claims(InFat))) /\ Sound(fat, Claims(InFat))
    <3>1. Claims(OnCard) = Claims(InFat)
      BY <1>2 DEF Claims
    <3>2. QED
      BY <3>1 DEF Steady, Sane, FatInv, Sealed
  <2>3. Sound(card', ClaimsOf(dir', fcb', Owners', InFat'))
    BY <1>4, <2>1, <2>2
  <2>4. QED
    BY <1>1, <1>3, <2>3, QuietFat
<1>7. HolderInv'
  <2>1. \A d \in held : d = bad => d = bad'
    BY <1>2, <1>3, Kinds
  <2>2. \A d \in held : SlotOf(d)' = SlotOf(d)
    BY <1>1 DEF SlotOf
  <2>3. \A d \in held : At("write", d) => d = bad'
    BY <1>3 DEF At
  <2>4. \A d \in held : SlotOf(d)' \in Slots /\ \A e \in held : SlotOf(d)' = SlotOf(e)' => d = e
    BY <1>2, <2>2 DEF Steady, Sane, HolderInv
  <2>5. \A d \in held : SlotOf(d)' \in Live' \/ d = bad'
    BY <1>1, <1>5, <2>1, <2>2 DEF Steady, Sane, HolderInv, At
  <2>6. \A d \in held : SlotOf(d)' \in Live => dir'[SlotOf(d)'].first \in {EMPTY, fcb'[d].first}
    BY <1>1, <1>2, <2>2 DEF Steady, Sane, HolderInv
  <2>7. \A d \in held : fcb'[d].size = 0 => fcb'[d].first = EMPTY \/ d = bad'
    BY <1>1, <1>2, <2>1, <2>3 DEF Steady, Sane, HolderInv
  <2>8. \A s \in Live : dir'[s].size = 0 => dir'[s].first = EMPTY
    BY <1>1 DEF Steady, Sane, HolderInv
  <2>9. QED
    BY <1>1, <1>5, <2>4, <2>5, <2>6, <2>7, <2>8 DEF HolderInv
<1>8. CursorInv'
  <2>1. ASSUME NEW d \in held, d # cur
        PROVE  Cursor(fat', fcb[d], fcb[d].pos, fcb[d].size)
    <3>1. Cursor(fat, fcb[d], fcb[d].pos, fcb[d].size) /\ fcb[d].pos \in Nat
      BY <1>2, <2>1, Kinds DEF Steady, Sane, CursorInv, At
    <3>2. Claim(SlotOf(d), fcb[d]) \in Claims(InFat) /\ SlotOf(d) # SlotOf(cur)
      BY <1>2, <2>1, ClaimsAre DEF Steady, Sane, HolderInv
    <3>3. \A x \in Chain(fat, fcb[d].first) : card[x] = fat[x]
      BY <3>2, ClaimFields DEF Steady, Sane, FatInv, SameElsewhere
    <3>4. \A x \in Chain(fat, fcb[d].first) : fat'[x] = fat[x]
      BY <1>1, <1>4, <3>3
    <3>5. QED
      BY <3>1, <3>4, CursorMoved
  <2>2. \A d \in held : Cursor(fat', fcb'[d], fcb'[d].pos, fcb'[d].size) \/ d = bad'
    BY <1>1, <1>3, <2>1
  <2>3. QED
    BY <1>1, <1>3, <2>2 DEF CursorInv
<1>9. PlaceInv'
  BY <1>1, <1>2, <1>3, <1>5 DEF PlaceInv, At
<1>10. AccountInv'
  BY <1>1 DEF AccountInv
<1>11. QED
  BY <1>6, <1>7, <1>8, <1>9, <1>10 DEF Sane

LEMMA RefuseDroppedSane ==
  ASSUME Steady, RefuseDropped, ~torn'
  PROVE  Sane'
<1>1. /\ op \in {"open", "unlink", "rename", "close"} /\ ~hurt /\ hurt'
      /\ UNCHANGED dir /\ fat' = card /\ card' = card /\ held' = held \ {cur} /\ ~Releasing
      /\ loose' = EMPTY
      /\ op' = "none" /\ cur' = TMP /\ pc' = "idle"
      /\ bad' = IF op = "close" THEN None ELSE bad
  BY DEF RefuseDropped, Refused, Return
<1>2. /\ cur \in Fds \cup {TMP} /\ OnCard = Live /\ bad' = None /\ bad \in {None, cur}
      /\ Owners \subseteq held \cup {cur} /\ held \subseteq Owners /\ held \subseteq Fds
      /\ None \notin held
  BY <1>1, Settled, Kinds DEF Steady, Sane, PlaceInv, IInv, TypeOK, Owners
<1>a. Sealed = card
  BY <1>1, NoLoose
<1>3. Owners' = held' /\ InFat' = Live /\ Live' = Live
  BY <1>1 DEF Owners, InFat, Live, Released
<1>4. \A e \in held' : /\ e \in held /\ e \in Owners /\ e # cur /\ e # bad
                       /\ fcb'[e] = fcb[e] /\ SlotOf(e)' = SlotOf(e)
  <2>1. fcb' = [fcb EXCEPT ![cur] = NoFile]
    BY DEF RefuseDropped
  <2>2. \A e \in Fds \cup {TMP} : e # cur => fcb'[e] = fcb[e]
    BY <1>2, <2>1, OneBlock
  <2>3. QED
    BY <1>1, <1>2, <2>2 DEF SlotOf
<1>5. \A e \in held' : SlotOf(e) # SlotOf(cur)
  <2>1. CASE op \in {"open", "close"}
    <3>1. cur \in Owners
      BY <2>1 DEF Steady, Sane, PlaceInv, Owners
    <3>2. QED
      BY <1>4, <3>1 DEF Steady, Sane, HolderInv
  <2>2. CASE op \in {"unlink", "rename"}
    <3>1. cur = TMP /\ Detached(SlotOf(TMP))
      BY <2>2 DEF Steady, Sane, PlaceInv
    <3>2. QED
      BY <1>4, <3>1 DEF Detached
  <2>3. QED
    BY <1>1, <2>1, <2>2
<1>6. FatInv'
  <2>1. \A a \in ClaimsOf(dir', fcb', Owners', InFat') : a \in Claims(OnCard)
    BY <1>1, <1>2, <1>3, <1>4, ClaimsAre DEF ClaimsOf, SlotOf
  <2>2. \A a \in ClaimsOf(dir', fcb', Owners', InFat') : Covered(card, a, Claims(OnCard))
    BY <2>1 DEF Covered
  <2>3. Sound(card, Claims(OnCard))
    BY <1>a DEF Steady, Sane, FatInv
  <2>4. Sound(card', ClaimsOf(dir', fcb', Owners', InFat'))
    BY <1>1, <2>2, <2>3, SoundBy
  <2>5. QED
    BY <1>1, <2>4, QuietFat
<1>7. HolderInv'
  <2>1. \A d, e \in held' : SlotOf(d)' \in Slots /\ (SlotOf(d)' = SlotOf(e)' => d = e)
    BY <1>4 DEF Steady, Sane, HolderInv
  <2>2. \A d \in held' : SlotOf(d)' \in Live'
    BY <1>3, <1>4 DEF Steady, Sane, HolderInv, At
  <2>3. \A d \in held' : SlotOf(d)' \in Live => dir'[SlotOf(d)'].first \in {EMPTY, fcb'[d].first}
    <3>1. \A s \in Live : s # SlotOf(cur) => s \in InFat
      BY DEF InFat, Released
    <3>2. QED
      BY <1>1, <1>4, <1>5, <3>1 DEF Steady, Sane, HolderInv
  <2>4. \A d \in held' : fcb'[d].size = 0 => fcb'[d].first = EMPTY
    BY <1>1, <1>4 DEF Steady, Sane, HolderInv, At
  <2>5. \A s \in Live : dir'[s].size = 0 => dir'[s].first = EMPTY
    BY <1>1 DEF Steady, Sane, HolderInv
  <2>6. QED
    BY <1>1, <1>3, <2>1, <2>2, <2>3, <2>4, <2>5 DEF HolderInv
<1>8. CursorInv'
  <2>1. ASSUME NEW d \in held'
        PROVE  Cursor(fat', fcb'[d], fcb'[d].pos, fcb'[d].size)
    <3>1. Cursor(fat, fcb[d], fcb[d].pos, fcb[d].size) /\ fcb[d].pos \in Nat
      BY <1>1, <1>2, <1>4, Kinds DEF Steady, Sane, CursorInv, At
    <3>2. Claim(SlotOf(d), fcb[d]) \in Claims(InFat)
      BY <1>4, ClaimsAre
    <3>3. \A x \in Chain(fat, fcb[d].first) : card[x] = fat[x]
      BY <1>5, <3>2, ClaimFields DEF Steady, Sane, FatInv, SameElsewhere
    <3>4. Cursor(fat', fcb[d], fcb[d].pos, fcb[d].size)
      BY <1>1, <3>1, <3>3, CursorMoved
    <3>5. QED
      BY <1>4, <3>4
  <2>2. QED
    BY <1>1, <2>1 DEF CursorInv
<1>9. PlaceInv'
  BY <1>1, <1>2 DEF PlaceInv
<1>10. AccountInv'
  BY <1>1 DEF AccountInv
<1>11. QED
  BY <1>6, <1>7, <1>8, <1>9, <1>10 DEF Sane

LEMMA PowerFailsSane ==
  ASSUME Steady, PowerFails, ~torn'
  PROVE  Sane'
<1>1. /\ hurt' /\ UNCHANGED <<card, dir>> /\ fat' = card /\ held' = {} /\ bad' = None
      /\ op' = "none" /\ cur' = TMP /\ pc' = "idle" /\ ~Releasing
      /\ loose' = EMPTY /\ loose = EMPTY
  BY DEF PowerFails, Return
<1>2. Owners' = {} /\ InFat' = Live /\ Live' = Live /\ OnCard = Live
  BY <1>1, Settled DEF Owners, InFat, Live, Released
<1>3. FatInv'
  <2>1. \A a \in ClaimsOf(dir', fcb', Owners', InFat') : a \in Claims(OnCard)
    BY <1>1, <1>2, ClaimsAre DEF ClaimsOf
  <2>2. \A a \in ClaimsOf(dir', fcb', Owners', InFat') : Covered(card, a, Claims(OnCard))
    BY <2>1 DEF Covered
  <2>3. Sound(card, Claims(OnCard))
    BY <1>1 DEF Steady, Sane, FatInv, Sealed
  <2>4. Sound(card', ClaimsOf(dir', fcb', Owners', InFat'))
    BY <1>1, <2>2, <2>3, SoundBy
  <2>5. QED
    BY <1>1, <2>4, QuietFat
<1>4. \A s \in Live : dir'[s].size = 0 => dir'[s].first = EMPTY
  BY <1>1 DEF Steady, Sane, HolderInv
<1>5. HolderInv' /\ CursorInv' /\ AccountInv'
  BY <1>1, <1>2, <1>4 DEF HolderInv, CursorInv, AccountInv
<1>6. PlaceInv'
  BY <1>1 DEF PlaceInv
<1>7. QED
  BY <1>3, <1>5, <1>6 DEF Sane

-----------------------------------------------------------------------------
(* A formatted card. *)

Blank ==
  /\ fat = [c \in Cluster |-> EMPTY] /\ card = fat /\ dir = [s \in Slots |-> NoEntry]
  /\ fcb = [d \in Fds \cup {TMP} |-> NoFile]
  /\ held = {} /\ bad = None /\ valid /\ loose = EMPTY /\ ~torn
  /\ pc = "idle" /\ op = "none" /\ cur = TMP

LEMMA BlankSane == Blank => ChainInv
<1> SUFFICES ASSUME Blank PROVE ChainInv
  OBVIOUS
<1>1. Live = {} /\ Owners = {} /\ InFat = {} /\ OnCard = {}
  BY DEF Blank, Live, NoEntry, Owners, InFat, OnCard
<1>2. \A E \in {{}} : Claims(E) = {}
  BY <1>1 DEF Claims
<1>3. FatInv
  <2>1. Claims(InFat) = {} /\ Claims(OnCard) = {}
    BY <1>1, <1>2
  <2>2. QED
    BY <2>1 DEF FatInv, Blank, Sound, Apart, Sized, SameElsewhere, GrowthInv, BufferInv
<1>4. PlaceInv /\ CursorInv
  BY DEF PlaceInv, CursorInv, Blank
<1>5. HolderInv
  BY <1>1 DEF HolderInv, Blank, Open
<1>6. AccountInv
  BY DEF AccountInv, Blank
<1>7. QED
  BY <1>3, <1>4, <1>5, <1>6 DEF ChainInv, Sane, Blank

LEMMA BlankNext == Blank' => ChainInv'
BY BlankSane, PTL

-----------------------------------------------------------------------------
(* Every step. *)

LEMMA TornStays ==
  ASSUME IInv, torn, ChainInv, [Next]_vars
  PROVE  ChainInv'
<1>1. /\ hurt /\ loose = EMPTY
      /\ \/ pc = "idle" /\ op = "none" /\ cur = TMP
         \/ pc = "dir" /\ op = "give_up"
  BY DEF ChainInv, Broken
<1>2. CASE Begin
  <2>1. PICK d \in Fds : CloseLost(d)
    BY <1>2 DEF Begin, OpenFile, OpenRefused, BeginRead, BeginWrite, Seek, Close, Unlink, Rename,
                Allowed, Idle
  <2>2. UNCHANGED <<hurt, loose, pc, op, cur, torn>>
    BY <2>1 DEF CloseLost, disk
  <2>3. QED
    BY <1>1, <2>2 DEF ChainInv, Broken
<1>3. CASE Work
  <2>1. DirWrite
    BY <1>1, <1>3 DEF Work, ReadSector, EndRead, LeaveSector, Allocate, Allocates, WriteSector,
                      ReleaseSector, Flush, FlushStep, AtFlush
  <2>2. UNCHANGED <<hurt, loose, torn>> /\ Return
    BY <2>1 DEF DirWrite
  <2>3. QED
    BY <1>1, <2>2 DEF ChainInv, Broken, Return
<1>4. CASE Failure
  BY <1>1, <1>4 DEF Failure, RefuseLookup, RefuseKept, RefuseDropped, PowerFails, Refused
<1>5. CASE Reinit \/ UNCHANGED vars
  BY <1>1, <1>5 DEF Reinit, disk, hist, vars, ChainInv, Broken
<1>6. CASE NewCard
  <2>1. Blank'
    BY <1>1, <1>6 DEF NewCard, Blank
  <2>2. QED
    BY <2>1, BlankNext
<1>7. QED
  BY <1>2, <1>3, <1>4, <1>5, <1>6 DEF Next

LEMMA StutterSane ==
  ASSUME ChainInv, UNCHANGED vars
  PROVE  ChainInv'
<1>1. UNCHANGED <<fat, card, dir, valid, fcb, pc, op, cur>>
      /\ UNCHANGED <<todo, lpos, lsize, at, held, bad, hurt, loose, torn>>
  BY DEF vars
<1>2. /\ Live' = Live /\ Owners' = Owners /\ Released' = Released /\ InFat' = InFat /\ OnCard' = OnCard
      /\ Claims(InFat)' = Claims(InFat) /\ Claims(OnCard)' = Claims(OnCard)
  BY <1>1 DEF Live, Owners, Released, InFat, OnCard, SlotOf, Claims
<1>3. FatInv => FatInv'
  BY <1>1, <1>2 DEF FatInv, SameElsewhere, GrowthInv, BufferInv, Unwritten, Sealed, SlotOf
<1>4. (PlaceInv => PlaceInv') /\ (HolderInv => HolderInv')
  BY <1>1, <1>2 DEF PlaceInv, HolderInv, SlotOf, Detached, At, Open
<1>5. (CursorInv => CursorInv') /\ (AccountInv => AccountInv')
  BY <1>1, <1>2 DEF CursorInv, At, AccountInv
<1>6. QED
  BY <1>1, <1>3, <1>4, <1>5 DEF ChainInv, Broken, Sane

LEMMA ChainInvKept == Disciplined /\ IInv /\ ChainInv /\ [Next]_vars => ChainInv'
<1> SUFFICES ASSUME Disciplined, IInv, ChainInv, [Next]_vars PROVE ChainInv'
  OBVIOUS
<1>1. CASE torn
  BY <1>1, TornStays
<1>2. CASE ~torn
  <2>1. Steady
    BY <1>2 DEF Steady, ChainInv
  <2>2. SUFFICES (~torn' /\ Sane') \/ ChainInv'
    BY DEF ChainInv
  <2>3. CASE Begin
    <3>1. CASE \E n \in Names, m \in OpenModes : OpenFile(n, m)
      BY <2>1, <3>1, OpenFileSane
    <3>2. CASE \E d \in Fds, n \in Counts : BeginRead(d, n) \/ BeginWrite(d, n)
      BY <2>1, <3>2, BeginReadSane, BeginWriteSane
    <3>3. CASE \E d \in Fds : \E off \in 0..fcb[d].size : Seek(d, off)
      BY <2>1, <3>3, SeekSane
    <3>4. CASE \E d \in Fds : Close(d) \/ CloseLost(d)
      BY <2>1, <3>4, CloseSane, CloseLostSane
    <3>5. CASE \E n \in Names : Unlink(n)
      BY <2>1, <3>5, UnlinkSane
    <3>6. CASE \E n, new \in Names : Rename(n, new)
      BY <2>1, <3>6, RenameSane
    <3>7. CASE OpenRefused
      <4>1. UNCHANGED vars
        BY <3>7 DEF OpenRefused
      <4>2. ChainInv'
        BY <4>1, StutterSane
      <4>3. QED
        BY <4>2
    <3>8. QED
      BY <2>3, <3>1, <3>2, <3>3, <3>4, <3>5, <3>6, <3>7 DEF Begin
  <2>4. CASE Work
    BY <2>1, <2>4, ReadSectorSane, EndReadSane, LeaveSectorSane, AllocateSane, WriteSectorSane,
       ReleaseSectorSane, FlushSane, DirWriteSane DEF Work
  <2>5. CASE Failure
    <3>1. CASE RefuseLookup \/ RefuseKept
      BY <2>1, <3>1, ReinitSane, RefuseKeptSane
    <3>2. CASE RefuseDropped \/ PowerFails
      <4>1. hurt' /\ loose' = EMPTY /\ pc' = "idle" /\ op' = "none" /\ cur' = TMP
        BY <3>2 DEF RefuseDropped, PowerFails, Refused, Return
      <4>2. ~torn' => Sane'
        BY <2>1, <3>2, RefuseDroppedSane, PowerFailsSane
      <4>3. ChainInv'
        BY <4>1, <4>2 DEF ChainInv, Broken
      <4>4. QED
        BY <4>3
    <3>3. QED
      BY <2>5, <3>1, <3>2 DEF Failure
  <2>6. CASE Reinit
    BY <2>1, <2>6, ReinitSane
  <2>7. CASE NewCard \/ UNCHANGED vars
    BY <1>2, <2>7, StutterSane DEF NewCard
  <2>8. QED
    BY <2>3, <2>4, <2>5, <2>6, <2>7 DEF Next
<1>3. QED
  BY <1>1, <1>2

-----------------------------------------------------------------------------
(* What it says of the card, the descriptors and the chains. *)

(* The clusters and chains of the card are those of Sealed. *)
LEMMA CardWalks ==
  ASSUME Steady, NEW c
  PROVE  /\ \A k \in Nat : Nth(Sealed, c, k) \in Cluster => Nth(card, c, k) \in Cluster
         /\ Chain(card, c) = Chain(Sealed, c)
<1>1. CASE loose = EMPTY
  BY <1>1 DEF Sealed
<1>2. CASE loose # EMPTY
  <2> DEFINE u == Sealed
  <2>1. loose \in Cluster /\ card[loose] = EMPTY
    BY <1>2 DEF Steady, Sane, FatInv, BufferInv
  <2>2. u[loose] = LAST /\ \A x \in Cluster : x # loose => u[x] = card[x]
    BY <1>2, <2>1 DEF Sealed, Steady, IInv, TypeOK
  <2> HIDE DEF u
  <2>3. /\ \A k \in Nat : Nth(u, c, k) \in Cluster => Nth(card, c, k) = Nth(u, c, k)
        /\ Chain(card, c) = Chain(u, c)
    BY <2>1, <2>2, SealedWalk
  <2>4. QED
    BY <2>3 DEF u
<1>3. QED
  BY <1>1, <1>2

LEMMA SaneCard ==
  ASSUME IInv, Disciplined, ChainInv
  PROVE  CardSound
<1> SUFFICES ASSUME ~torn, ~Releasing
             PROVE  /\ \A s \in Live : Reaches(card, dir[s].first, dir[s].size)
                    /\ \A s, r \in Live :
                         s # r => Chain(card, dir[s].first) \cap Chain(card, dir[r].first) = {}
                    /\ loose = EMPTY => \A s \in Live : Ended(card, dir[s].first)
  <2>1. \A s, r \in Live : s < r => s # r
    BY RdcfAssumption DEF Live
  <2>2. QED
    BY <2>1 DEF CardSound
<1>1. Steady
  BY DEF Steady, ChainInv
<1>2. OnCard = Live
  BY <1>1, Settled
<1>3. Sound(Sealed, Claims(OnCard)) /\ \A s \in Live : Claim(s, dir[s]) \in Claims(OnCard)
  BY <1>1, <1>2, ClaimsAre DEF Steady, Sane, FatInv
<1>4. ASSUME NEW s \in Live
      PROVE  Whole(Sealed, dir[s].first, dir[s].size) /\ dir[s].size \in Nat
  <2>1. dir[s].size > 0 => Whole(Sealed, dir[s].first, dir[s].size)
    BY <1>3, ClaimFields DEF Sound, Sized
  <2>2. dir[s].size \in Nat /\ (dir[s].size = 0 => dir[s].first = EMPTY)
    BY <1>1, Kinds DEF Steady, Sane, HolderInv
  <2>3. QED
    BY <2>1, <2>2, NothingWhole
<1>5. ASSUME NEW s \in Live
      PROVE  Reaches(card, dir[s].first, dir[s].size)
  <2> DEFINE c == dir[s].first
             z == dir[s].size
  <2>1. Reaches(Sealed, c, z) /\ 0..ClustersOf(z) - 1 \subseteq Nat
    BY <1>4, <1>5, ClustersNeeded DEF Whole
  <2> HIDE DEF c, z
  <2>2. \A k \in Nat : Nth(Sealed, c, k) \in Cluster => Nth(card, c, k) \in Cluster
    BY <1>1, CardWalks
  <2>3. Reaches(card, c, z)
    BY <2>1, <2>2 DEF Reaches
  <2>4. QED
    BY <2>3 DEF c, z
<1>6. ASSUME NEW s \in Live, NEW r \in Live, s # r
      PROVE  Chain(card, dir[s].first) \cap Chain(card, dir[r].first) = {}
  <2>1. Chain(Sealed, dir[s].first) \cap Chain(Sealed, dir[r].first) = {}
    BY <1>3, <1>6, ClaimFields DEF Sound, Apart
  <2>2. \A c : Chain(card, c) = Chain(Sealed, c)
    BY <1>1, CardWalks
  <2>3. QED
    BY <2>1, <2>2
<1>7. ASSUME loose = EMPTY, NEW s \in Live
      PROVE  Ended(card, dir[s].first)
  BY <1>4, <1>7 DEF Whole, Sealed
<1>8. QED
  BY <1>5, <1>6, <1>7

LEMMA SaneOpen ==
  ASSUME IInv, Disciplined, ChainInv
  PROVE  OpenSound
<1> SUFFICES ASSUME pc = "idle", ~torn
             PROVE  /\ \A d \in Fds : IF hurt THEN d \in held => Open(d) ELSE d \in held <=> Open(d)
                    /\ \A d \in Good :
                         /\ Whole(fat, fcb[d].first, fcb[d].size)
                         /\ \A s \in Kept \ {fcb[d].slot} :
                              Chain(fat, fcb[d].first) \cap Clusters(s) = {}
  BY DEF OpenSound
<1>1. Steady
  BY DEF Steady, ChainInv
<1>2. op = "none" /\ Owners = held /\ InFat = Live
  BY <1>1, Resting DEF Steady, Sane, PlaceInv
<1>3. ASSUME NEW d \in Fds
      PROVE  IF hurt THEN d \in held => Open(d) ELSE d \in held <=> Open(d)
  BY <1>1, <1>2, OwnersOpen DEF Steady, Sane, HolderInv
<1>4. ASSUME NEW d \in Good
      PROVE  Whole(fat, fcb[d].first, fcb[d].size)
  BY <1>1, <1>2, OwnerWhole DEF Good, At
<1>5. ASSUME NEW d \in Good, NEW s, s # fcb[d].slot, NEW c \in Clusters(s)
      PROVE  c \notin Chain(fat, fcb[d].first)
  <2>1. /\ Claim(SlotOf(d), fcb[d]) \in Claims(InFat) /\ Claim(SlotOf(d), fcb[d]).slot = fcb[d].slot
        /\ Claim(SlotOf(d), fcb[d]).first = fcb[d].first
    BY <1>2, ClaimsAre, ClaimFields DEF Good, SlotOf
  <2>2. \E a \in Claims(InFat) : a.slot = s /\ c \in Chain(fat, a.first)
    <3>1. CASE s \in Live /\ c \in Chain(fat, dir[s].first)
      BY <1>2, <3>1, ClaimsAre, ClaimFields
    <3>2. CASE \E e \in Holders(s) : c \in Chain(fat, fcb[e].first)
      <4>1. PICK e \in held : SlotOf(e) = s /\ c \in Chain(fat, fcb[e].first)
        BY <3>2 DEF Holders, SlotOf
      <4>2. QED
        BY <1>2, <4>1, ClaimsAre, ClaimFields
    <3>3. QED
      BY <1>5, <3>1, <3>2 DEF Clusters
  <2>3. QED
    BY <1>1, <1>5, <2>1, <2>2, Separate
<1>6. QED
  BY <1>3, <1>4, <1>5

LEMMA SaneSector ==
  ASSUME IInv, Disciplined, ChainInv
  PROVE  SectorOfPosition
<1> DEFINE f == fcb[cur]
<1> SUFFICES ASSUME pc \in {"read", "write"}, todo > 0, ~torn, pc = "read" => lpos < lsize
             PROVE  /\ f.cluster = Nth(fat, f.first, lpos \div PerCluster)
                    /\ pc = "read" => f.cluster \in Cluster
                    /\ f.cluster = LAST => f.last \in Chain(fat, f.first) /\ fat[f.last] = LAST
  BY DEF SectorOfPosition
<1>1. Steady /\ lpos \in Nat /\ lsize \in Nat
  BY Kinds DEF Steady, ChainInv
<1>2. op = pc /\ cur \in held /\ bad = None /\ cur \in Owners /\ Cursor(fat, f, lpos, lsize)
  BY <1>1 DEF Steady, Sane, PlaceInv, CursorInv, Owners
<1>3. pc = "write" => ~f.read
  BY <1>1, <1>2 DEF Steady, Sane, CursorInv
<1>4. f.cluster = Nth(fat, f.first, lpos \div PerCluster)
  BY <1>1, <1>2, <1>3 DEF Cursor
<1>5. ASSUME pc = "read"
      PROVE  f.cluster \in Cluster
  <2>1. lsize = f.size /\ lpos < f.size /\ f.size \in Nat
    BY <1>1, <1>2, <1>5 DEF Steady, Sane, CursorInv
  <2>2. Whole(fat, f.first, f.size)
    BY <1>1, <1>2, <1>5, OwnerWhole, Kinds DEF At
  <2>3. lpos \div PerCluster \in 0..ClustersOf(f.size) - 1
    <3>1. lpos \div PerCluster \in Nat /\ ClustersOf(f.size) \in Nat
      BY <1>1, <2>1, PlaceOf, ClustersNeeded
    <3>2. lpos \div PerCluster < ClustersOf(f.size)
      BY <1>1, <2>1, InFile
    <3>3. QED
      BY <3>1, <3>2
  <2>4. QED
    BY <1>4, <2>2, <2>3 DEF Whole, Reaches
<1>6. f.cluster = LAST => f.last \in Chain(fat, f.first) /\ fat[f.last] = LAST
  BY <1>2, <1>3, <1>5, MarksAre DEF Cursor
<1>7. QED
  BY <1>4, <1>5, <1>6

LEMMA SaneAccount ==
  ASSUME IInv, Disciplined, ChainInv
  PROVE  ClustersAccounted
<1>1. NoDanglingChains
  <2> SUFFICES ASSUME pc = "idle", ~hurt, NEW c \in Cluster, fat[c] # EMPTY
               PROVE  \E s \in Kept : c \in Clusters(s)
    BY DEF NoDanglingChains
  <2>1. Steady
    BY DEF Steady, ChainInv, Broken
  <2>2. Owners = held /\ InFat = Live
    BY <2>1, Resting DEF Steady, Sane, PlaceInv
  <2>3. PICK a \in Claims(InFat) : c \in Chain(fat, a.first)
    BY <2>1 DEF Steady, Sane, AccountInv
  <2>4. CASE \E s \in Live : a = Claim(s, dir[s])
    BY <2>3, <2>4, ClaimFields DEF Kept, Clusters
  <2>5. CASE \E d \in held : a = Claim(SlotOf(d), fcb[d])
    BY <2>3, <2>5, ClaimFields DEF Kept, Clusters, Holders, SlotOf
  <2>6. QED
    BY <2>2, <2>4, <2>5, ClaimsAre
<1>2. TypeOK /\ FullIsFull
  BY FullFromHint DEF IInv
<1>3. OneBuffer
  BY DEF OneBuffer, ChainInv, Broken, Sane, FatInv, PlaceInv, BufferInv
<1>4. QED
  BY <1>1, <1>2, <1>3 DEF ClustersAccounted

(* Directory, descriptors and FAT make claims on the card's clusters that    *)
(* never meet, through every call of a program that keeps the rules, and     *)
(* every failure, whatever sectors the FAT is in; only a release or a link   *)
(* that is cut in two ends that, until the card is formatted.                *)
THEOREM ChainInvHolds ==
  ASSUME Disciplined
  PROVE  Spec => [](IInv /\ ChainInv)
<1>1. Init => ChainInv
  BY BlankSane DEF Init, Blank
<1>2. IInv /\ ChainInv /\ [Next]_vars => ChainInv'
  BY ChainInvKept
<1>3. QED
  BY <1>1, <1>2, IInvInvariant, PTL DEF Spec

(* Whenever power fails, the files in the directory have their clusters and  *)
(* are apart, but for the moments within a release and within a link.        *)
THEOREM CardSoundHolds ==
  ASSUME Disciplined
  PROVE  Spec => []CardSound
<1>1. IInv /\ ChainInv => CardSound
  BY SaneCard
<1>2. QED
  BY <1>1, ChainInvHolds, PTL

(* Between calls a descriptor's file is whole and apart from every other.    *)
THEOREM OpenSoundHolds ==
  ASSUME Disciplined
  PROVE  Spec => []OpenSound
<1>1. IInv /\ ChainInv => OpenSound
  BY SaneOpen
<1>2. QED
  BY <1>1, ChainInvHolds, PTL

(* Reads and writes transfer the sector of their position, and the chain     *)
(* grows at its end.                                                         *)
THEOREM SectorOfPositionHolds ==
  ASSUME Disciplined
  PROVE  Spec => []SectorOfPosition
<1>1. IInv /\ ChainInv => SectorOfPosition
  BY SaneSector
<1>2. QED
  BY <1>1, ChainInvHolds, PTL

(* Without a failure no cluster is lost, and no write ends short while one   *)
(* is free.                                                                  *)
THEOREM ClustersAccountedHolds ==
  ASSUME Disciplined
  PROVE  Spec => []ClustersAccounted
<1>1. IInv /\ ChainInv => ClustersAccounted
  BY SaneAccount
<1>2. QED
  BY <1>1, ChainInvHolds, PTL
=============================================================================
