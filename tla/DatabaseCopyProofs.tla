--------------------------- MODULE DatabaseCopyProofs --------------------------
(***************************************************************************)
(* Proofs about DatabaseCopy: the files keep their types, what a call      *)
(* hands out is one committed state of the database, and a call fails only *)
(* for a cause.                                                            *)
(***************************************************************************)
EXTENDS DatabaseCopy, WellFoundedInduction, SequenceTheorems, TLAPS

-----------------------------------------------------------------------------
(* Pages with frames over them *)

Commits(F, m) == m = 0 \/ F[m].size > 0

(* d is what the first m of the frames F make of the pages P: the newest    *)
(* frame of each page, and the page itself where there is none.             *)
Covers(P, F, m, d) ==
  IF m = 0 THEN d = P
  ELSE /\ Len(d) = F[m].size
       /\ \A q \in 1..F[m].size :
            \/ \E i \in 1..m : /\ F[i].page = q /\ d[q] = F[i].val
                               /\ \A j \in i + 1..m : F[j].page # q
            \/ /\ \A i \in 1..m : F[i].page # q
               /\ d[q] = IF q \in DOMAIN P THEN P[q] ELSE 0

-----------------------------------------------------------------------------
(* Least and greatest members *)

LEMMA LeastExists ==
    ASSUME NEW S \in SUBSET Nat, S # {}
    PROVE  \E x \in S : \A y \in S : x <= y
<1>1. PICK x \in S : \A y \in S : ~(<<y, x>> \in OpToRel(<, Nat))
  BY NatLessThanWellFounded, WFMin
<1>2. ASSUME NEW y \in S PROVE x <= y
  <2>1. <<y, x>> \in OpToRel(<, Nat) <=> (<<y, x>> \in Nat \X Nat /\ <<y, x>>[1] < <<y, x>>[2])
    BY DEF OpToRel
  <2>2. x \in Nat /\ y \in Nat
    OBVIOUS
  <2>3. ~(y < x)
    BY <1>1, <2>1, <2>2
  <2> QED
    BY <2>2, <2>3
<1> QED
  BY <1>2

LEMMA GreatestExists ==
    ASSUME NEW n \in Nat, NEW S \in SUBSET (1..n), S # {}
    PROVE  \E x \in S : \A y \in S : y <= x
<1> DEFINE T == {n - x : x \in S}
<1>1. T \in SUBSET Nat /\ T # {}
  <2>1. \A x \in S : n - x \in Nat
    OBVIOUS
  <2>2. PICK x \in S : TRUE
    OBVIOUS
  <2>3. n - x \in T
    OBVIOUS
  <2> QED
    BY <2>1, <2>3
<1>2. PICK t \in T : \A y \in T : t <= y
  BY <1>1, LeastExists
<1>3. PICK x \in S : t = n - x
  BY <1>2
<1>4. ASSUME NEW y \in S PROVE y <= x
  <2>1. n - y \in T
    OBVIOUS
  <2> QED
    BY <1>2, <1>3, <2>1
<1> QED
  BY <1>4

-----------------------------------------------------------------------------
(* Frames *)

LEMMA FrameFields ==
    ASSUME NEW f \in FrameSet
    PROVE  /\ f.gen \in -1..MaxWrites /\ f.page \in 1..MaxPages /\ f.val \in Val
           /\ f.size \in 0..MaxPages /\ f.prev \in (0..MaxPages) \X Val
BY DEF FrameSet

LEMMA Bounds ==
    /\ MaxWrites \in Nat /\ MaxPages \in Nat /\ MaxFrames \in Nat
    /\ MaxPages >= 2 /\ MaxFrames >= 2
    /\ Val \subseteq Int /\ 0 \in Val
BY CopyAssumption DEF Val

LEMMA LastCommitIs ==
    ASSUME NEW F \in Seq(FrameSet)
    PROVE  /\ LastCommit(F) \in 0..Len(F)
           /\ Commits(F, LastCommit(F))
           /\ \A i \in 1..Len(F) : F[i].size > 0 => i <= LastCommit(F)
<1> DEFINE C == {i \in DOMAIN F : F[i].size > 0}
<1>0. Len(F) \in Nat /\ DOMAIN F = 1..Len(F)
  OBVIOUS
<1>1. CASE C = {}
  <2>1. LastCommit(F) = 0
    BY <1>1 DEF LastCommit
  <2>2. \A i \in 1..Len(F) : ~(F[i].size > 0)
    BY <1>0, <1>1
  <2> QED
    BY <1>0, <2>1, <2>2 DEF Commits
<1>2. CASE C # {}
  <2>1. LastCommit(F) = CHOOSE i \in C : \A j \in C : j <= i
    BY <1>2 DEF LastCommit
  <2>2. C \in SUBSET (1..Len(F))
    BY <1>0
  <2>3. \E i \in C : \A j \in C : j <= i
    BY <1>0, <1>2, <2>2, GreatestExists
  <2>4. LastCommit(F) \in C /\ \A j \in C : j <= LastCommit(F)
    BY <2>1, <2>3
  <2>5. \A i \in 1..Len(F) : F[i].size > 0 => i \in C
    BY <1>0
  <2> QED
    BY <1>0, <2>2, <2>4, <2>5 DEF Commits
<1> QED
  BY <1>1, <1>2

(* The last commit is the one with no commit after it.                      *)
LEMMA LastCommitAt ==
    ASSUME NEW F \in Seq(FrameSet), NEW m \in 0..Len(F), Commits(F, m),
           \A i \in m + 1..Len(F) : ~(F[i].size > 0)
    PROVE  LastCommit(F) = m
<1>0. Len(F) \in Nat
  OBVIOUS
<1>1. LastCommit(F) \in 0..Len(F) /\ Commits(F, LastCommit(F))
  BY LastCommitIs
<1>2. m > 0 => m <= LastCommit(F)
  BY LastCommitIs DEF Commits
<1>3. ~(LastCommit(F) > m)
  BY <1>0, <1>1 DEF Commits
<1> QED
  BY <1>0, <1>1, <1>2, <1>3

LEMMA ApplyCovers ==
    ASSUME NEW P \in Seq(Val), NEW F \in Seq(FrameSet)
    PROVE  Apply(P, F) \in Seq(Val) /\ Covers(P, F, LastCommit(F), Apply(P, F))
<1> DEFINE last == LastCommit(F)
           Newest(p) == {i \in 1..last : F[i].page = p /\
                            \A j \in 1..last : F[j].page = p => j <= i}
           Put1(p) == IF Newest(p) = {}
                      THEN IF p \in DOMAIN P THEN P[p] ELSE 0
                      ELSE F[CHOOSE i \in Newest(p) : TRUE].val
<1>1. last \in 0..Len(F) /\ Len(F) \in Nat /\ Commits(F, last)
  BY LastCommitIs
<1>2. CASE last = 0
  BY <1>2 DEF Apply, Covers
<1>3. CASE last # 0
  <2> DEFINE n == F[last].size
  <2>1. Apply(P, F) = [p \in 1..n |-> Put1(p)]
    BY <1>3 DEF Apply
  <2>2. n \in Nat
    BY <1>1, <1>3, FrameFields, Bounds
  <2>3. ASSUME NEW p \in 1..n, Newest(p) # {}
        PROVE  /\ Put1(p) \in Val
               /\ \E i \in 1..last : /\ F[i].page = p /\ Put1(p) = F[i].val
                                     /\ \A j \in i + 1..last : F[j].page # p
    <3>1. PICK i \in Newest(p) : Put1(p) = F[i].val
      BY <2>3
    <3>2. i \in 1..Len(F)
      BY <1>1
    <3>3. F[i].val \in Val
      BY <3>2, FrameFields
    <3>4. \A j \in i + 1..last : F[j].page # p
      BY <1>1, <3>1
    <3> QED
      BY <3>1, <3>3, <3>4
  <2>4. ASSUME NEW p \in 1..n, Newest(p) = {}
        PROVE  /\ Put1(p) \in Val
               /\ Put1(p) = IF p \in DOMAIN P THEN P[p] ELSE 0
               /\ \A i \in 1..last : F[i].page # p
    <3>1. Put1(p) = IF p \in DOMAIN P THEN P[p] ELSE 0
      BY <2>4
    <3>2. Put1(p) \in Val
      BY <3>1, Bounds
    <3> DEFINE D == {i \in 1..last : F[i].page = p}
    <3>3. ASSUME D # {} PROVE FALSE
      <4>1. last \in Nat /\ D \in SUBSET (1..last)
        BY <1>1
      <4>2. PICK i \in D : \A j \in D : j <= i
        BY <3>3, <4>1, GreatestExists
      <4>3. i \in Newest(p)
        BY <4>2
      <4> QED
        BY <2>4, <4>3
    <3> QED
      BY <3>1, <3>2, <3>3
  <2>5. \A p \in 1..n : Put1(p) \in Val
    BY <2>3, <2>4
  <2> HIDE DEF Put1, Newest
  <2>6. Apply(P, F) \in Seq(Val)
    BY <2>1, <2>2, <2>5, IsASeq, SMTT(30)
  <2>7. Len(Apply(P, F)) = n /\ \A p \in 1..n : Apply(P, F)[p] = Put1(p)
    BY <2>1, <2>2
  <2>8. \A q \in 1..n :
            \/ \E i \in 1..last : /\ F[i].page = q /\ Apply(P, F)[q] = F[i].val
                                  /\ \A j \in i + 1..last : F[j].page # q
            \/ /\ \A i \in 1..last : F[i].page # q
               /\ Apply(P, F)[q] = IF q \in DOMAIN P THEN P[q] ELSE 0
    BY <2>3, <2>4, <2>7, ZenonT(40)
  <2> QED
    BY <1>3, <2>6, <2>7, <2>8 DEF Covers
<1> QED
  BY <1>2, <1>3

(* What the frames make of the pages is determined, and depends on the      *)
(* frames up to m only.                                                     *)
LEMMA CoversOnce ==
    ASSUME NEW P \in Seq(Val), NEW F \in Seq(FrameSet), NEW m \in 0..Len(F),
           NEW d \in Seq(Val), NEW e \in Seq(Val), Covers(P, F, m, d), Covers(P, F, m, e)
    PROVE  d = e
<1>1. CASE m = 0
  BY <1>1 DEF Covers
<1>2. CASE m # 0
  <2>1. Len(d) = F[m].size /\ Len(e) = F[m].size
    BY <1>2 DEF Covers
  <2>2. ASSUME NEW q \in 1..F[m].size PROVE d[q] = e[q]
    <3> DEFINE On(x) == \E i \in 1..m : /\ F[i].page = q /\ x[q] = F[i].val
                                        /\ \A j \in i + 1..m : F[j].page # q
               Off(x) == /\ \A i \in 1..m : F[i].page # q
                         /\ x[q] = IF q \in DOMAIN P THEN P[q] ELSE 0
    <3>1. (On(d) \/ Off(d)) /\ (On(e) \/ Off(e))
      BY <1>2 DEF Covers
    <3>2. CASE Off(d) \/ Off(e)
      BY <3>1, <3>2
    <3>3. CASE On(d) /\ On(e)
      <4>1. PICK i \in 1..m : /\ F[i].page = q /\ d[q] = F[i].val
                              /\ \A j \in i + 1..m : F[j].page # q
        BY <3>3
      <4>2. PICK k \in 1..m : /\ F[k].page = q /\ e[q] = F[k].val
                              /\ \A j \in k + 1..m : F[j].page # q
        BY <3>3
      <4>3. ~(i < k) /\ ~(k < i)
        BY <4>1, <4>2
      <4> QED
        BY <4>1, <4>2, <4>3
    <3> QED
      BY <3>1, <3>2, <3>3
  <2> QED
    BY <2>1, <2>2, SeqEqual
<1> QED
  BY <1>1, <1>2

LEMMA CommitsSame ==
    ASSUME NEW F, NEW G, NEW m \in Nat, \A i \in 1..m : F[i] = G[i], Commits(F, m)
    PROVE  Commits(G, m)
<1>1. CASE m = 0
  BY <1>1 DEF Commits
<1>2. CASE m # 0
  <2>1. F[m] = G[m]
    BY <1>2
  <2> QED
    BY <2>1 DEF Commits
<1> QED
  BY <1>1, <1>2

LEMMA CoversSame ==
    ASSUME NEW P, NEW F, NEW G, NEW m \in Nat, NEW d,
           \A i \in 1..m : F[i] = G[i], Covers(P, F, m, d)
    PROVE  Covers(P, G, m, d)
<1>1. CASE m = 0
  BY <1>1 DEF Covers
<1>2. CASE m # 0
  <2>1. F[m] = G[m]
    BY <1>2
  <2>2. \A q \in 1..F[m].size :
            \/ \E i \in 1..m : /\ F[i].page = q /\ d[q] = F[i].val
                               /\ \A j \in i + 1..m : F[j].page # q
            \/ /\ \A i \in 1..m : F[i].page # q
               /\ d[q] = IF q \in DOMAIN P THEN P[q] ELSE 0
    BY <1>2 DEF Covers
  <2>3. \A q \in 1..F[m].size :
            \/ \E i \in 1..m : /\ G[i].page = q /\ d[q] = G[i].val
                               /\ \A j \in i + 1..m : G[j].page # q
            \/ /\ \A i \in 1..m : G[i].page # q
               /\ d[q] = IF q \in DOMAIN P THEN P[q] ELSE 0
    BY <2>2
  <2> QED
    BY <1>2, <2>1, <2>3 DEF Covers
<1> QED
  BY <1>1, <1>2

(* Two main files that the same frames make equal stay so under a commit    *)
(* that brings a frame for every page it adds.                              *)
LEMMA CommitCovers ==
    ASSUME NEW P, NEW Q, NEW F \in Seq(FrameSet), NEW m \in 0..Len(F),
           NEW k \in m + 1..Len(F), NEW d \in Seq(Val), NEW e,
           Covers(P, F, m, d), Covers(Q, F, m, d), Covers(P, F, k, e),
           m = 0 \/ F[m].size > 0, P \in Seq(Val), Q \in Seq(Val),
           \A q \in Len(d) + 1..F[k].size : \E i \in m + 1..k : F[i].page = q
    PROVE  Covers(Q, F, k, e)
<1>0. m \in Nat /\ k \in Nat /\ k # 0 /\ Len(d) \in Nat /\ F[k].size \in Nat
  BY FrameFields, Bounds
<1>1. Len(e) = F[k].size
  BY <1>0 DEF Covers
<1>2. ASSUME NEW q \in 1..F[k].size
      PROVE  \/ \E i \in 1..k : /\ F[i].page = q /\ e[q] = F[i].val
                                /\ \A j \in i + 1..k : F[j].page # q
             \/ /\ \A i \in 1..k : F[i].page # q
                /\ e[q] = IF q \in DOMAIN Q THEN Q[q] ELSE 0
  <2>1. \/ \E i \in 1..k : /\ F[i].page = q /\ e[q] = F[i].val
                           /\ \A j \in i + 1..k : F[j].page # q
        \/ /\ \A i \in 1..k : F[i].page # q
           /\ e[q] = IF q \in DOMAIN P THEN P[q] ELSE 0
    BY <1>0 DEF Covers
  <2>2. ASSUME \A i \in 1..k : F[i].page # q
        PROVE  (IF q \in DOMAIN P THEN P[q] ELSE 0) = (IF q \in DOMAIN Q THEN Q[q] ELSE 0)
    <3>1. q \in 1..Len(d)
      <4>1. \A i \in m + 1..k : i \in 1..k
        BY <1>0
      <4>2. q \notin Len(d) + 1..F[k].size
        BY <2>2, <4>1
      <4> QED
        BY <1>0, <4>2
    <3>2. CASE m = 0
      <4>1. d = P /\ d = Q
        BY <3>2 DEF Covers
      <4> QED
        BY <4>1
    <3>3. CASE m # 0
      <4>1. Len(d) = F[m].size /\ \A i \in 1..m : F[i].page # q
        BY <1>0, <2>2, <3>3 DEF Covers
      <4>2. d[q] = (IF q \in DOMAIN P THEN P[q] ELSE 0)
        BY <3>1, <3>3, <4>1 DEF Covers
      <4>3. d[q] = (IF q \in DOMAIN Q THEN Q[q] ELSE 0)
        BY <3>1, <3>3, <4>1 DEF Covers
      <4> QED
        BY <4>2, <4>3
    <3> QED
      BY <3>2, <3>3
  <2> QED
    BY <2>1, <2>2
<1> QED
  BY <1>0, <1>1, <1>2 DEF Covers

(* A checkpoint of one page, and of all of them.                            *)
LEMMA PageCovers ==
    ASSUME NEW P \in Seq(Val), NEW F \in Seq(FrameSet), NEW m \in 0..Len(F),
           NEW d \in Seq(Val), Covers(P, F, m, d), NEW p \in 1..Len(d), p <= Len(P) + 1,
           m = 0 => p \notin DOMAIN P \/ P[p] # d[p]
    PROVE  LET P2 == [i \in 1..(IF p > Len(P) THEN p ELSE Len(P)) |->
                        IF i = p THEN d[p] ELSE P[i]]
           IN P2 \in Seq(Val) /\ Covers(P2, F, m, d)
<1> DEFINE n == IF p > Len(P) THEN p ELSE Len(P)
           P2 == [i \in 1..n |-> IF i = p THEN d[p] ELSE P[i]]
<1>0. Len(P) \in Nat /\ p \in Nat /\ n \in Nat /\ d[p] \in Val
  OBVIOUS
<1>1. \A i \in 1..n : (IF i = p THEN d[p] ELSE P[i]) \in Val
  BY <1>0
<1>2. P2 \in Seq(Val)
  BY <1>0, <1>1, IsASeq
<1>3. m # 0
  BY DEF Covers
<1>4. DOMAIN P2 = 1..n /\ \A i \in 1..n : P2[i] = IF i = p THEN d[p] ELSE P[i]
  OBVIOUS
<1>5. ASSUME NEW q \in 1..F[m].size
      PROVE  \/ \E i \in 1..m : /\ F[i].page = q /\ d[q] = F[i].val
                                /\ \A j \in i + 1..m : F[j].page # q
             \/ /\ \A i \in 1..m : F[i].page # q
                /\ d[q] = IF q \in DOMAIN P2 THEN P2[q] ELSE 0
  <2>1. \/ \E i \in 1..m : /\ F[i].page = q /\ d[q] = F[i].val
                           /\ \A j \in i + 1..m : F[j].page # q
        \/ /\ \A i \in 1..m : F[i].page # q
           /\ d[q] = IF q \in DOMAIN P THEN P[q] ELSE 0
    BY <1>3 DEF Covers
  <2>2. F[m].size \in Nat
    BY <1>3, FrameFields, Bounds
  <2>3. q # p => (q \in DOMAIN P2 <=> q \in DOMAIN P)
    BY <1>0, <1>4, <2>2
  <2>4. p \in DOMAIN P2 /\ P2[p] = d[p]
    BY <1>0, <1>4
  <2>5. q # p /\ q \in DOMAIN P => P2[q] = P[q]
    BY <1>4, <2>3
  <2> HIDE DEF P2, n
  <2> QED
    BY <2>1, <2>3, <2>4, <2>5
<1>6. Covers(P2, F, m, d)
  BY <1>3, <1>5 DEF Covers
<1> QED
  BY <1>2, <1>6

LEMMA FilledCovers ==
    ASSUME NEW P, NEW F, NEW m \in Nat, NEW d \in Seq(Val), Covers(P, F, m, d)
    PROVE  Covers(d, F, m, d)
BY DEF Covers

-----------------------------------------------------------------------------
(* The inductive invariant *)

MainFile == [pages : Seq(Val), mtime : 0..MaxWrites, wal : BOOLEAN]
WalFile == [gen : -1..MaxWrites, frames : Seq(FrameSet), ctime : 0..MaxWrites]
Stamp == [inode : Nat, size : Nat, mtime : 0..MaxWrites]

DiskTypes ==
  /\ mains \in Seq(MainFile) /\ main \in DOMAIN mains
  /\ wals \in Seq(WalFile) /\ wal \in 0..Len(wals)
  /\ journal \in Seq(Val) /\ db \in Seq(Val)
  /\ mx \in Nat /\ pending \in Nat /\ alive \in BOOLEAN
  /\ writes \in 0..MaxWrites
  /\ seen \subseteq Seq(Val) /\ dirty \in BOOLEAN
  /\ \A i \in DOMAIN wals : Len(wals[i].frames) <= MaxFrames

Labels == [family |-> {"before", "copyMain", "copyWal", "after", "connect"},
           cow |-> {"journal", "main", "wal", "clone", "header", "stat", "validate", "copy",
                    "accept", "apply"},
           live |-> {"open", "live"}]

ReaderTypes ==
  /\ path \in Path /\ pc \in Labels[path] \cup {"idle"}
  /\ attempt \in 1..Attempts /\ (path = "live" => attempt = 1)
  /\ pin \in Stamp /\ pinned \in Stamp /\ gen \in -1..MaxWrites /\ at \in Nat
  /\ prefix \in Seq(FrameSet) /\ frames \in Seq(FrameSet) /\ copy \in Seq(Val)
  /\ late \in BOOLEAN
  /\ out \in {"none", "ok", "busy", "hot", "liveWal", "limit", "invariant", "locked",
             "unsafe"}
  /\ out = "none" <=> pc # "idle"
  /\ pin.inode \in 0..Len(mains) /\ pinned.inode \in 0..Len(wals)

(* What was stamped was stamped by a step taken so far.                     *)
Stamps ==
  /\ \A i \in DOMAIN mains : mains[i].mtime <= writes
  /\ \A i \in DOMAIN wals :
        /\ wals[i].ctime <= writes /\ wals[i].gen <= writes
        /\ \A k \in DOMAIN wals[i].frames : wals[i].frames[k].gen <= writes
  /\ pin.mtime <= writes /\ pinned.mtime <= writes /\ gen <= writes

(* The main file with the committed frames of the WAL over it is the state  *)
(* last committed; what follows in the WAL commits nothing.                 *)
Database ==
  /\ db # << >> /\ db \in seen /\ mains[main].pages # << >>
  /\ wal = 0 => /\ mx = 0 /\ pending = 0
                /\ (journal = << >> => mains[main].pages = db)
  /\ journal # << >> => journal = db /\ wal = 0 /\ ~mains[main].wal
  /\ wal # 0 =>
       LET F == wals[wal].frames
           g == wals[wal].gen
       IN /\ mains[main].wal
          /\ mx + pending <= Len(F) /\ Commits(F, mx)
          /\ \A i \in 1..mx + pending : F[i].gen = g /\ Follows(F, i)
          /\ \A i \in mx + 1..Len(F) : F[i].gen = g => F[i].size = 0
          /\ Covers(mains[main].pages, F, mx, db)

DiskInv == DiskTypes /\ ReaderTypes /\ Stamps /\ Database

SameMain == Fingerprint(main) = pin
SameWal == WalFingerprint(wal) = pinned
Good == Apply(copy, frames) \in seen

(* The family path: from the test for a hot journal on a main file without  *)
(* WAL that has not changed is a committed state; once the main file has    *)
(* been found unchanged, the WAL has to be the one copied.                  *)
FamilyInv ==
  /\ pc = "before" => at \in {0, 1, 2}
  /\ pc = "after" => at \in {0, 1, 2, 3, 4, 5}
  /\ pc = "before" /\ at = 2 /\ SameMain /\ pinned.inode = 0 /\ journal = << >> =>
       mains[main].pages \in seen
  /\ pc \in {"copyMain", "copyWal", "after"} /\ SameMain /\ pinned.inode = 0 =>
       mains[main].pages \in seen
  /\ pc \in {"copyWal", "after"} /\ SameMain => copy = mains[main].pages
  /\ pc \in {"before", "copyMain", "copyWal"} => frames = << >>
  /\ pc = "after" /\ pinned.inode = 0 => frames = << >>
  /\ pc = "after" /\ pinned.inode # 0 /\ SameWal => frames = Valid(wals[wal])
  /\ pc = "after" /\ at >= 1 /\ (pinned.inode # 0 => SameWal) => Good
  /\ pc = "after" /\ at >= 2 => Good
  /\ pc = "connect" => Good
  /\ out = "ok" => copy \in seen

(* The clone and the WAL it goes with are the agent's still, and the WAL    *)
(* has not been restarted.                                                  *)
Linked == main = pin.inode /\ wal = pinned.inode /\ wals[wal].gen = gen

(* Every commit from the one current when the main file was cloned can be   *)
(* made from the clone, up to c the prefix has to reach.                    *)
Replayed(c) ==
  LET F == wals[wal].frames
  IN /\ Covers(copy, F, mx, db)
     /\ Commits(F, c)
     /\ \A m \in c..mx : Commits(F, m) => \E d \in seen : Covers(copy, F, m, d)
     /\ pc \in {"validate", "copy", "accept"} => c <= pinned.size
     /\ pc \in {"copy", "accept"} => c <= Len(prefix)
     /\ pc \in {"validate", "copy", "accept"} =>
          \A k \in DOMAIN prefix : k <= c => prefix[k] = F[k]

Checks == 5 + Len(prefix)

CowInv ==
  /\ pc \in {"wal", "clone", "header", "stat", "validate", "copy", "accept"} =>
       pin.inode # 0
  /\ pc \in {"clone", "header", "stat", "validate", "copy", "accept"} => pinned.inode # 0
  /\ pc \in {"header", "stat", "validate", "copy", "accept"} /\ Linked =>
       \E c \in 0..mx : Replayed(c)
  /\ pc = "validate" => Len(prefix) = at /\ at <= pinned.size
  /\ pc = "copy" => Len(frames) = at /\ at <= Len(prefix)
  /\ pc \in {"journal", "main", "wal", "clone", "header", "stat"} => prefix = << >>
  /\ pc \in {"journal", "main", "wal", "clone", "header", "stat", "validate"} =>
       frames = << >>
  /\ pc \in {"accept", "apply"} => frames = prefix
  /\ pc \in {"validate", "copy", "accept"} /\ Linked =>
       \A k \in DOMAIN prefix : /\ prefix[k].gen = gen
                                /\ prefix[k].size > 0 => k <= mx
  /\ pc = "accept" => at < 2 * Checks
  /\ pc = "accept" /\ Linked =>
       \A k \in DOMAIN prefix :
          k + 5 <= at /\ k <= LastCommit(prefix) => prefix[k] = wals[wal].frames[k]
  /\ pc = "accept" /\ at >= 1 => (wal = pinned.inode => main = pin.inode)
  /\ pc = "accept" /\ at >= Checks + 2 => (wals[pinned.inode].gen = gen => Good)
  /\ pc = "accept" /\ at >= Checks + 5 => Good
  /\ pc = "apply" => Good
  /\ out = "ok" => copy \in seen

LiveInv ==
  /\ pc = "live" => at < Len(LiveChecks) /\ pin.inode # 0
  /\ pc = "live" /\ at >= 3 => (SameMain => ~mains[main].wal)
  /\ pc = "live" /\ at >= Begin =>
       (SameMain => copy = mains[main].pages /\ (journal = << >> => copy \in seen))
  /\ pc = "live" /\ at > Begin => (SameMain => copy \in seen)
  /\ out = "ok" => /\ copy \in seen /\ pin.inode # 0
                   /\ mains[pin.inode].pages = copy
                   /\ main = pin.inode => ~mains[main].wal

CopyInv ==
  /\ DiskInv
  /\ path = "family" => FamilyInv
  /\ path = "cow" => CowInv
  /\ path = "live" => LiveInv

(* Nothing the reader saw has changed while the agent has not written.      *)
CleanInv ==
  ~dirty =>
    /\ pc = "before" => /\ at >= 1 => SameMain
                        /\ at >= 2 => SameWal
    /\ pc \in {"copyMain", "copyWal", "after"} => SameMain /\ SameWal
    /\ pc \in {"copyMain", "copyWal", "after", "main", "wal", "clone", "header", "stat",
               "validate", "copy", "accept"} => journal = << >>
    /\ pc \in {"wal", "clone", "header", "stat", "validate", "copy", "accept", "live"} =>
         SameMain
    /\ pc \in {"clone", "header", "stat", "validate", "copy", "accept"} =>
         wal = pinned.inode /\ wals[wal].gen = gen
    /\ pc \in {"validate", "copy", "accept"} =>
         /\ SameWal
         /\ Len(prefix) <= Len(wals[wal].frames)
         /\ \A k \in DOMAIN prefix :
               LET F == wals[wal].frames
               IN prefix[k] = F[k] /\ F[k].gen = gen /\ Follows(F, k)
    /\ pc = "copy" => \A k \in DOMAIN frames : frames[k] = prefix[k]
    /\ pc = "live" /\ at >= 1 => journal = << >>

(* An attempt is given up: the family cannot be read, or the agent wrote.   *)
Keeps == UNCHANGED <<disk, writes, path>>
Cause == dirty \/ late' \/ (path = "cow" /\ Unusable)
GivesUp ==
  \/ Raise("hot") \/ Raise("liveWal") \/ Raise("limit")
  \/ Cause /\ (Busy \/ Raise("busy") \/ Raise("locked") \/ Raise("invariant") \/ Raise("unsafe"))

(* Any other step of the reader goes on.                                    *)
GoesOn == CopyInv' /\ CleanInv' /\ attempt' = attempt /\ out' \in {out, "ok"}

-----------------------------------------------------------------------------
(* The WAL *)

(* SQLite goes by the frames of the WAL's generation up to the first that   *)
(* does not follow.                                                         *)
LEMMA ValidIs ==
    ASSUME NEW w \in WalFile
    PROVE  /\ Valid(w) \in Seq(FrameSet) /\ Len(Valid(w)) \in 0..Len(w.frames)
           /\ \A i \in 1..Len(Valid(w)) :
                 Valid(w)[i] = w.frames[i] /\ w.frames[i].gen = w.gen /\ Follows(w.frames, i)
           /\ Len(Valid(w)) < Len(w.frames) =>
                 ~(w.frames[Len(Valid(w)) + 1].gen = w.gen /\
                     Follows(w.frames, Len(Valid(w)) + 1))
<1> DEFINE F == w.frames
           Fits(i) == F[i].gen = w.gen /\ Follows(F, i)
           Stops == {i \in DOMAIN F : ~Fits(i)}
<1>0. F \in Seq(FrameSet) /\ Len(F) \in Nat /\ DOMAIN F = 1..Len(F)
  BY DEF WalFile
<1>1. CASE Stops = {}
  <2>1. Valid(w) = F
    BY <1>1 DEF Valid
  <2>2. \A i \in 1..Len(F) : Fits(i)
    BY <1>0, <1>1
  <2> QED
    BY <1>0, <2>1, <2>2
<1>2. CASE Stops # {}
  <2> DEFINE s == CHOOSE i \in Stops : \A j \in Stops : i <= j
  <2>1. Valid(w) = SubSeq(F, 1, s - 1)
    BY <1>2 DEF Valid
  <2>2. Stops \in SUBSET Nat
    BY <1>0
  <2>3. \E i \in Stops : \A j \in Stops : i <= j
    BY <1>2, <2>2, LeastExists
  <2>4. s \in Stops /\ \A j \in Stops : s <= j
    BY <2>3
  <2>5. s \in 1..Len(F) /\ ~Fits(s) /\ \A i \in 1..s - 1 : Fits(i)
    <3>1. s \in 1..Len(F) /\ ~Fits(s)
      BY <1>0, <2>4
    <3>2. ASSUME NEW i \in 1..s - 1, ~Fits(i) PROVE FALSE
      <4>1. i \in 1..Len(F) /\ i < s
        BY <1>0, <3>1
      <4>2. i \in Stops
        BY <1>0, <3>2, <4>1, SMTT(30)
      <4>3. s <= i /\ s \in Nat /\ i \in Nat
        BY <2>4, <3>1, <4>1, <4>2
      <4> QED
        BY <4>1, <4>3
    <3> HIDE DEF s, Fits
    <3> QED
      BY <3>1, <3>2
  <2> HIDE DEF s, Fits, Stops
  <2>6. \A i \in 1..s - 1 : F[i] \in FrameSet
    BY <1>0, <2>5
  <2>7. /\ SubSeq(F, 1, s - 1) \in Seq(FrameSet) /\ Len(SubSeq(F, 1, s - 1)) = s - 1
        /\ \A i \in 1..s - 1 : SubSeq(F, 1, s - 1)[i] = F[i]
    <3>1. s - 1 \in Nat /\ 1 \in Int /\ s - 1 \in Int
      BY <1>0, <2>5
    <3> HIDE DEF F
    <3> QED
      BY <2>6, <3>1, SubSeqProperties
  <2>8. \A i \in 1..s - 1 : F[i].gen = w.gen /\ Follows(F, i)
    BY <2>5 DEF Fits
  <2>9. ~(F[s].gen = w.gen /\ Follows(F, s))
    BY <2>5 DEF Fits
  <2>10. s - 1 \in 0..Len(F) /\ s - 1 + 1 = s
    BY <1>0, <2>5
  <2> HIDE DEF F
  <2> QED
    BY <2>1, <2>7, <2>8, <2>9, <2>10 DEF F
<1> QED
  BY <1>1, <1>2

(* The main file with what SQLite makes of the WAL is the state committed.  *)
LEMMA DatabaseApply ==
    ASSUME DiskTypes, Database, wal # 0
    PROVE  Apply(mains[main].pages, Valid(wals[wal])) = db
<1> DEFINE w == wals[wal]
           F == w.frames
           P == mains[main].pages
<1>1. w \in WalFile /\ P \in Seq(Val) /\ db \in Seq(Val) /\ mx \in Nat /\ pending \in Nat
  <2>1. mains[main] \in MainFile /\ wals[wal] \in WalFile
    BY DEF DiskTypes
  <2> QED
    BY <2>1 DEF DiskTypes, MainFile
<1>2. F \in Seq(FrameSet) /\ Len(F) \in Nat
  BY <1>1 DEF WalFile
<1>3. /\ mx + pending <= Len(F) /\ Commits(F, mx)
      /\ \A i \in 1..mx + pending : F[i].gen = w.gen /\ Follows(F, i)
      /\ \A i \in mx + 1..Len(F) : F[i].gen = w.gen => F[i].size = 0
      /\ Covers(P, F, mx, db)
  BY DEF Database
<1> HIDE DEF w, F, P
<1> DEFINE V == Valid(w)
<1>4. /\ V \in Seq(FrameSet) /\ Len(V) \in 0..Len(F)
      /\ \A i \in 1..Len(V) : V[i] = F[i] /\ F[i].gen = w.gen
      /\ Len(V) < Len(F) => ~(F[Len(V) + 1].gen = w.gen /\ Follows(F, Len(V) + 1))
  BY <1>1, ValidIs DEF F
<1> HIDE DEF V
<1>5. mx <= Len(V)
  BY <1>1, <1>2, <1>3, <1>4
<1>6. Commits(V, mx)
  BY <1>1, <1>3, <1>4, <1>5 DEF Commits
<1>7. \A i \in mx + 1..Len(V) : ~(V[i].size > 0)
  BY <1>1, <1>2, <1>3, <1>4
<1>8. LastCommit(V) = mx
  BY <1>1, <1>4, <1>5, <1>6, <1>7, LastCommitAt
<1>9. Apply(P, V) \in Seq(Val) /\ Covers(P, V, mx, Apply(P, V))
  BY <1>1, <1>4, <1>8, ApplyCovers
<1>10. Covers(P, V, mx, db)
  <2>1. \A i \in 1..mx : F[i] = V[i]
    BY <1>1, <1>2, <1>4, <1>5
  <2> QED
    BY <1>1, <1>3, <2>1, CoversSame
<1>11. mx \in 0..Len(V)
  BY <1>1, <1>4, <1>5
<1>12. Apply(P, V) = db
  BY <1>1, <1>4, <1>9, <1>10, <1>11, CoversOnce
<1> QED
  BY <1>12 DEF V, P, w

-----------------------------------------------------------------------------
(* What a step of the agent does to the files *)

(* A main file is written under its name only, and is stamped then; it is   *)
(* replaced while there is no WAL.                                          *)
MainsKept ==
  /\ Len(mains') >= Len(mains)
  /\ main' = main \/ (main' = Len(mains) + 1 /\ wal = 0 /\ wal' = 0)
  /\ \A i \in DOMAIN mains :
        \/ mains'[i] = mains[i]
        \/ i = main /\ main' = main /\ mains'[i].mtime = now

(* So is a WAL, and its salts are new when they change.                     *)
WalsKept ==
  /\ Len(wals') >= Len(wals)
  /\ wal' \in {wal, 0, Len(wals) + 1}
  /\ \A i \in DOMAIN wals :
        \/ wals'[i] = wals[i]
        \/ /\ i = wal /\ wal' = wal /\ wals'[i].ctime = now
           /\ wals'[i].gen \in {wals[i].gen, now}

(* Within a generation a WAL keeps its committed frames and gains a commit  *)
(* at a time.                                                               *)
WalGrows ==
  LET F == wals[wal].frames
      G == wals'[wal].frames
  IN /\ Len(G) >= Len(F)
     /\ \A i \in 1..mx : G[i] = F[i]
     /\ \/ mx' = mx /\ db' = db
        \/ /\ mx' \in mx + 1..Len(G) /\ G[mx'].size > 0 /\ mains' = mains
           /\ \A i \in mx + 1..mx' - 1 : G[i].size = 0
           /\ \A q \in Len(db) + 1..G[mx'].size : \E i \in mx + 1..mx' : G[i].page = q

(* A transaction ends with its commit, or with its pages written back.      *)
JournalKept ==
  /\ journal # << >> /\ journal' = << >> =>
        ~Locked /\ (mains'[main].mtime = now \/ db' = mains[main].pages)
  /\ Locked /\ ~mains[main].wal => \A i \in DOMAIN mains : mains'[i] = mains[i]

Effect ==
  /\ DiskTypes' /\ Stamps' /\ Database'
  /\ seen \subseteq seen'
  /\ MainsKept /\ WalsKept /\ JournalKept
  /\ wal # 0 /\ wal' = wal /\ wals'[wal].gen = wals[wal].gen => WalGrows

LEMMA DiskFacts ==
    ASSUME DiskInv
    PROVE  /\ main \in Nat \ {0} /\ main <= Len(mains) /\ Len(mains) \in Nat
           /\ DOMAIN mains = 1..Len(mains)
           /\ mains[main] \in MainFile /\ mains[main].pages \in Seq(Val)
           /\ Len(mains[main].pages) \in Nat /\ mains[main].wal \in BOOLEAN
           /\ wal \in Nat /\ wal <= Len(wals) /\ Len(wals) \in Nat
           /\ DOMAIN wals = 1..Len(wals)
           /\ wal # 0 => /\ wals[wal] \in WalFile /\ wals[wal].frames \in Seq(FrameSet)
                         /\ Len(wals[wal].frames) \in 0..MaxFrames
           /\ db \in Seq(Val) /\ Len(db) \in Nat /\ Len(db) > 0
           /\ writes \in Nat
<1>1. mains \in Seq(MainFile) /\ main \in DOMAIN mains /\ wals \in Seq(WalFile) /\ wal \in 0..Len(wals)
      /\ db \in Seq(Val) /\ db # << >> /\ writes \in 0..MaxWrites
      /\ \A i \in DOMAIN wals : Len(wals[i].frames) <= MaxFrames
  BY DEF DiskInv, DiskTypes, Database
<1>2. Len(mains) \in Nat /\ DOMAIN mains = 1..Len(mains) /\ mains[main] \in MainFile
  BY <1>1
<1>3. Len(wals) \in Nat /\ DOMAIN wals = 1..Len(wals) /\ (wal # 0 => wals[wal] \in WalFile)
  BY <1>1
<1>4. mains[main].pages \in Seq(Val) /\ mains[main].wal \in BOOLEAN
  BY <1>2 DEF MainFile
<1>5. wal # 0 => wals[wal].frames \in Seq(FrameSet)
  BY <1>3 DEF WalFile
<1>6. wal # 0 => Len(wals[wal].frames) \in 0..MaxFrames
  <2>1. ASSUME wal # 0 PROVE Len(wals[wal].frames) <= MaxFrames /\ Len(wals[wal].frames) \in Nat
    <3>1. wal \in DOMAIN wals
      BY <1>1, <1>3, <2>1
    <3>2. Len(wals[wal].frames) <= MaxFrames
      BY <1>1, <3>1
    <3>3. Len(wals[wal].frames) \in Nat
      BY <1>5, <2>1
    <3> QED
      BY <3>2, <3>3
  <2> QED
    BY <2>1, Bounds
<1>7. Len(db) > 0 /\ Len(db) \in Nat
  BY <1>1, EmptySeq
<1> QED
  BY <1>1, <1>2, <1>3, <1>4, <1>5, <1>6, <1>7, Bounds

LEMMA ActsFacts ==
    ASSUME DiskInv, Acts
    PROVE  /\ writes' = now /\ now \in 1..MaxWrites /\ now \in Val
           /\ writes' \in 0..MaxWrites /\ now \in Nat /\ dirty' \in BOOLEAN
           /\ UNCHANGED reader /\ dirty' = TRUE
           /\ UNCHANGED <<pin, pinned, gen>>
<1>1. writes < MaxWrites /\ writes' = now /\ UNCHANGED reader /\ dirty' = TRUE
  BY DEF Acts, now
<1>2. writes \in Nat /\ MaxWrites \in Nat
  BY DiskFacts, Bounds
<1>3. now \in 1..MaxWrites
  BY <1>1, <1>2 DEF now
<1>4. now \in Val
  BY <1>2, <1>3 DEF Val
<1> QED
  BY <1>1, <1>2, <1>3, <1>4 DEF reader

(* A step that leaves the WALs alone.                                       *)
LEMMA WalsAlone ==
    ASSUME DiskInv, Acts, UNCHANGED <<wals, wal, mx, pending>>, db' = db \/ wal = 0
    PROVE  /\ WalsKept
           /\ wal # 0 /\ wal' = wal /\ wals'[wal].gen = wals[wal].gen => WalGrows
<1>1. WalsKept
  BY DiskFacts DEF WalsKept
<1>2. ASSUME wal # 0 PROVE WalGrows
  BY <1>2, DiskFacts DEF WalGrows
<1> QED
  BY <1>1, <1>2

(* And one that leaves the main files alone.                                *)
LEMMA MainsAlone ==
    ASSUME DiskInv, UNCHANGED <<mains, main, journal>>
    PROVE  MainsKept /\ JournalKept
BY DiskFacts DEF MainsKept, JournalKept

(* What was stamped before is stamped before the next step.                 *)
LEMMA StampsLater ==
    ASSUME DiskInv
    PROVE  /\ \A i \in DOMAIN mains : mains[i].mtime <= now
           /\ \A i \in DOMAIN wals :
                 /\ wals[i].ctime <= now /\ wals[i].gen <= now
                 /\ \A k \in DOMAIN wals[i].frames : wals[i].frames[k].gen <= now
           /\ pin.mtime <= now /\ pinned.mtime <= now /\ gen <= now
           /\ pin.mtime # now /\ pinned.mtime # now /\ gen # now
           /\ \A i \in DOMAIN mains : mains[i].mtime \in Nat
           /\ \A i \in DOMAIN wals :
                 /\ wals[i].ctime \in Nat /\ wals[i].gen \in Int /\ wals[i].gen # now
                 /\ \A k \in DOMAIN wals[i].frames :
                       wals[i].frames[k].gen \in Int /\ wals[i].frames[k].gen # now
<1>1. now = writes + 1 /\ writes \in Nat
  BY DiskFacts DEF now
<1>2. /\ \A i \in DOMAIN mains : mains[i].mtime \in Nat
      /\ pin.mtime \in Nat /\ pinned.mtime \in Nat /\ gen \in Int
  <2>1. \A i \in DOMAIN mains : mains[i] \in MainFile
    BY DEF DiskInv, DiskTypes
  <2>2. pin \in Stamp /\ pinned \in Stamp /\ gen \in -1..MaxWrites
    BY DEF DiskInv, ReaderTypes
  <2> QED
    BY <2>1, <2>2, Bounds DEF MainFile, Stamp
<1>3. \A i \in DOMAIN wals : /\ wals[i].ctime \in Nat /\ wals[i].gen \in Int
                             /\ \A k \in DOMAIN wals[i].frames : wals[i].frames[k].gen \in Int
  <2>1. ASSUME NEW i \in DOMAIN wals PROVE wals[i] \in WalFile
    BY DEF DiskInv, DiskTypes
  <2>2. ASSUME NEW i \in DOMAIN wals, NEW k \in DOMAIN wals[i].frames
        PROVE  wals[i].frames[k].gen \in Int
    <3>1. wals[i].frames \in Seq(FrameSet)
      BY <2>1 DEF WalFile
    <3>2. wals[i].frames[k] \in FrameSet
      BY <3>1
    <3> QED
      BY <3>2, FrameFields, Bounds
  <2> QED
    BY <2>1, <2>2, Bounds DEF WalFile
<1>4. Stamps
  BY DEF DiskInv
<1> QED
  BY <1>1, <1>2, <1>3, <1>4 DEF Stamps

LEMMA StampsKept ==
    ASSUME DiskInv, Acts, UNCHANGED <<mains, wals>>
    PROVE  Stamps'
<1>1. writes' = now /\ UNCHANGED <<pin, pinned, gen>>
  BY ActsFacts
<1> QED
  BY <1>1, StampsLater DEF Stamps

LEMMA JournalStartEffect ==
    ASSUME DiskInv, Acts, JournalStart
    PROVE  Effect
<1>1. /\ ~mains[main].wal /\ wal = 0 /\ journal = << >>
      /\ journal' = mains[main].pages /\ alive' = TRUE
      /\ UNCHANGED <<mains, main, wals, wal, mx, pending, db, seen>>
  BY DEF JournalStart, NoCommit
<1>2. mains[main].pages = db /\ db # << >> /\ db \in seen /\ mx = 0 /\ pending = 0
  BY <1>1 DEF DiskInv, Database
<1>3. DiskTypes'
  BY <1>1, <1>2, ActsFacts, DiskFacts DEF DiskTypes, DiskInv
<1>4. Database'
  BY <1>1, <1>2 DEF Database
<1>5. MainsKept /\ JournalKept
  BY <1>1, <1>2, DiskFacts DEF MainsKept, JournalKept
<1> QED
  BY <1>1, <1>3, <1>4, <1>5, WalsAlone, StampsKept DEF Effect

LEMMA JournalCommitEffect ==
    ASSUME DiskInv, Acts, JournalCommit
    PROVE  Effect
<1>1. /\ journal # << >> /\ ~Locked
      /\ journal' = << >> /\ alive' = FALSE
      /\ db' = mains[main].pages /\ seen' = seen \cup {db'}
      /\ UNCHANGED <<mains, main, wals, wal, mx, pending>>
  BY DEF JournalCommit, Commit
<1>2. wal = 0 /\ ~mains[main].wal /\ mx = 0 /\ pending = 0 /\ mains[main].pages # << >>
  BY <1>1 DEF DiskInv, Database
<1>3. DiskTypes'
  <2>1. journal' \in Seq(Val) /\ db' \in Seq(Val) /\ seen \subseteq Seq(Val)
    BY <1>1, DiskFacts DEF DiskTypes, DiskInv
  <2>2. seen' \subseteq Seq(Val)
    BY <1>1, <2>1
  <2> QED
    BY <1>1, <2>1, <2>2, ActsFacts DEF DiskTypes, DiskInv
<1>4. Database'
  BY <1>1, <1>2 DEF Database
<1>5. MainsKept /\ JournalKept
  BY <1>1, <1>2, DiskFacts DEF MainsKept, JournalKept
<1> QED
  BY <1>1, <1>2, <1>3, <1>4, <1>5, WalsAlone, StampsKept DEF Effect

LEMMA JournalCrashEffect ==
    ASSUME DiskInv, Acts, JournalCrash
    PROVE  Effect
<1>1. journal # << >> /\ alive' = FALSE
      /\ UNCHANGED <<mains, main, wals, wal, journal, mx, pending, db, seen>>
  BY DEF JournalCrash, NoCommit
<1>2. DiskTypes'
  BY <1>1, ActsFacts DEF DiskTypes, DiskInv
<1>3. Database'
  BY <1>1 DEF Database, DiskInv
<1> QED
  BY <1>1, <1>2, <1>3, MainsAlone, WalsAlone, StampsKept DEF Effect

(* A write to the main file, with its stamp.                                *)
LEMMA MainWritten ==
    ASSUME DiskInv, Acts, NEW r \in MainFile, r.mtime = now,
           mains' = [mains EXCEPT ![main] = r], UNCHANGED <<main, wals>>
    PROVE  /\ mains' \in Seq(MainFile) /\ main' \in DOMAIN mains' /\ mains'[main'] = r
           /\ MainsKept /\ Stamps'
           /\ \A i \in DOMAIN mains : i # main => mains'[i] = mains[i]
<1>1. mains \in Seq(MainFile) /\ main \in 1..Len(mains) /\ DOMAIN mains = 1..Len(mains)
  BY DiskFacts DEF DiskInv, DiskTypes
<1>2. /\ mains' \in Seq(MainFile) /\ Len(mains') = Len(mains) /\ DOMAIN mains' = 1..Len(mains)
      /\ \A i \in 1..Len(mains) : mains'[i] = IF i = main THEN r ELSE mains[i]
  BY <1>1, ExceptSeq
<1>3. mains'[main'] = r
  BY <1>1, <1>2
<1>4. MainsKept
  BY <1>1, <1>2, <1>3, DiskFacts DEF MainsKept
<1>5. Stamps'
  <2>1. writes' = now /\ now = writes + 1 /\ writes \in Nat /\ UNCHANGED <<pin, pinned, gen>>
    BY ActsFacts, DiskFacts DEF now
  <2>2. \A i \in DOMAIN mains' : mains'[i].mtime <= writes'
    <3>1. \A i \in 1..Len(mains) : mains[i].mtime <= now
      BY <1>1, StampsLater
    <3> QED
      BY <1>2, <2>1, <3>1
  <2>3. /\ \A i \in DOMAIN wals :
              /\ wals[i].ctime <= writes' /\ wals[i].gen <= writes'
              /\ \A k \in DOMAIN wals[i].frames : wals[i].frames[k].gen <= writes'
        /\ pin.mtime <= writes' /\ pinned.mtime <= writes' /\ gen <= writes'
    BY <2>1, StampsLater
  <2> QED
    BY <2>1, <2>2, <2>3 DEF Stamps
<1> QED
  BY <1>1, <1>2, <1>3, <1>4, <1>5

LEMMA SetModeEffect ==
    ASSUME DiskInv, Acts, SetMode
    PROVE  Effect
<1> DEFINE r == [mains[main] EXCEPT !.wal = ~@, !.mtime = now]
<1>1. /\ wal = 0 /\ journal = << >> /\ ~Locked
      /\ mains' = [mains EXCEPT ![main] = r]
      /\ UNCHANGED <<main, wals, wal, journal, mx, pending, alive, db, seen>>
  BY DEF SetMode, NoCommit
<1>2. r \in MainFile /\ r.mtime = now /\ r.pages = mains[main].pages
  BY ActsFacts, DiskFacts DEF MainFile
<1> HIDE DEF r
<1>3. mains' \in Seq(MainFile) /\ main' \in DOMAIN mains' /\ mains'[main'] = r /\ MainsKept /\ Stamps'
  BY <1>1, <1>2, MainWritten
<1>4. DiskTypes'
  BY <1>1, <1>3, ActsFacts DEF DiskTypes, DiskInv
<1>5. Database'
  BY <1>1, <1>2, <1>3 DEF Database, DiskInv
<1>6. JournalKept
  BY <1>1 DEF JournalKept
<1> QED
  BY <1>1, <1>3, <1>4, <1>5, <1>6, WalsAlone DEF Effect

LEMMA JournalRecoverEffect ==
    ASSUME DiskInv, Acts, JournalRecover
    PROVE  Effect
<1> DEFINE r == [mains[main] EXCEPT !.pages = journal, !.mtime = now]
<1>1. /\ journal # << >> /\ ~Locked /\ journal' = << >>
      /\ mains' = [mains EXCEPT ![main] = r]
      /\ UNCHANGED <<main, wals, wal, mx, pending, alive, db, seen>>
  BY DEF JournalRecover, NoCommit
<1>2. journal \in Seq(Val) /\ journal = db /\ wal = 0 /\ ~mains[main].wal /\ mx = 0 /\ pending = 0
  BY <1>1 DEF DiskInv, DiskTypes, Database
<1>3. r \in MainFile /\ r.mtime = now /\ r.pages = journal
  BY <1>2, ActsFacts, DiskFacts DEF MainFile
<1> HIDE DEF r
<1>4. mains' \in Seq(MainFile) /\ main' \in DOMAIN mains' /\ mains'[main'] = r /\ MainsKept /\ Stamps'
  BY <1>1, <1>3, MainWritten
<1>5. DiskTypes'
  <2>1. journal' \in Seq(Val)
    BY <1>1
  <2> QED
    BY <1>1, <1>4, <2>1, ActsFacts DEF DiskTypes, DiskInv
<1>6. Database'
  BY <1>1, <1>2, <1>3, <1>4 DEF Database, DiskInv
<1>7. JournalKept
  <2>1. mains'[main].mtime = now
    BY <1>1, <1>3, <1>4
  <2> QED
    BY <1>1, <2>1 DEF JournalKept
<1> QED
  BY <1>1, <1>4, <1>5, <1>6, <1>7, WalsAlone DEF Effect

LEMMA JournalWriteEffect ==
    ASSUME DiskInv, Acts, NEW p \in 1..MaxPages, JournalWrite(p)
    PROVE  Effect
<1> DEFINE P == mains[main].pages
           n == IF p > Len(P) THEN p ELSE Len(P)
           P2 == [i \in 1..n |-> IF i = p THEN now ELSE P[i]]
           r == [mains[main] EXCEPT !.mtime = now, !.pages = P2]
<1>1. /\ journal # << >> /\ ~Locked /\ p \in 1..Len(P) + 1
      /\ mains' = [mains EXCEPT ![main] = r]
      /\ UNCHANGED <<main, wals, wal, journal, mx, pending, alive, db, seen>>
  BY DEF JournalWrite, NoCommit
<1>2. wal = 0 /\ ~mains[main].wal /\ mx = 0 /\ pending = 0
  BY <1>1 DEF DiskInv, Database
<1>3. P2 \in Seq(Val) /\ P2 # << >>
  <2>1. P \in Seq(Val) /\ Len(P) \in Nat /\ n \in Nat /\ n >= 1 /\ now \in Val
    BY <1>1, DiskFacts, ActsFacts
  <2>2. \A i \in 1..n : (IF i = p THEN now ELSE P[i]) \in Val
    BY <1>1, <2>1
  <2>3. P2 \in Seq(Val) /\ Len(P2) = n
    BY <2>1, <2>2, IsASeq
  <2> HIDE DEF P2, n
  <2> QED
    BY <2>1, <2>3
<1>4. r \in MainFile /\ r.mtime = now /\ r.pages = P2 /\ r.wal = mains[main].wal
  <2> HIDE DEF P2
  <2> QED
    BY <1>3, ActsFacts, DiskFacts DEF MainFile
<1> HIDE DEF r, P2
<1>5. mains' \in Seq(MainFile) /\ main' \in DOMAIN mains' /\ mains'[main'] = r /\ MainsKept /\ Stamps'
  BY <1>1, <1>4, MainWritten
<1>6. DiskTypes'
  BY <1>1, <1>5, ActsFacts DEF DiskTypes, DiskInv
<1>7. Database'
  BY <1>1, <1>2, <1>3, <1>4, <1>5 DEF Database, DiskInv
<1>8. JournalKept
  BY <1>1 DEF JournalKept
<1> QED
  BY <1>1, <1>5, <1>6, <1>7, <1>8, WalsAlone DEF Effect

LEMMA ReplaceEffect ==
    ASSUME DiskInv, Acts, NEW w \in BOOLEAN, Replace(w)
    PROVE  Effect
<1> DEFINE r == [pages |-> <<now>>, mtime |-> now, wal |-> w]
<1>1. /\ wal = 0 /\ journal = << >>
      /\ mains' = Append(mains, r) /\ main' = Len(mains) + 1
      /\ db' = <<now>> /\ seen' = seen \cup {db'}
      /\ UNCHANGED <<wals, wal, journal, mx, pending, alive>>
  BY DEF Replace, Commit
<1>2. <<now>> \in Seq(Val) /\ <<now>> # << >>
  BY ActsFacts
<1>3. r \in MainFile /\ r.mtime = now /\ r.pages = <<now>>
  BY <1>2, ActsFacts DEF MainFile
<1> HIDE DEF r
<1>4. /\ mains \in Seq(MainFile) /\ Len(mains) \in Nat /\ main \in 1..Len(mains)
      /\ DOMAIN mains = 1..Len(mains)
  BY DiskFacts DEF DiskInv, DiskTypes
<1>5. /\ mains' \in Seq(MainFile) /\ Len(mains') = Len(mains) + 1 /\ mains'[main'] = r
      /\ main' \in DOMAIN mains' /\ DOMAIN mains' = 1..Len(mains) + 1
      /\ \A i \in 1..Len(mains) : mains'[i] = mains[i]
  BY <1>1, <1>3, <1>4
<1>6. MainsKept
  BY <1>1, <1>4, <1>5 DEF MainsKept
<1>7. Stamps'
  <2>1. writes' = now /\ now \in Nat /\ UNCHANGED <<pin, pinned, gen>>
    BY ActsFacts
  <2>2. \A i \in 1..Len(mains) : mains'[i].mtime <= now
    BY <1>4, <1>5, StampsLater
  <2>3. \A i \in DOMAIN mains' : mains'[i].mtime <= writes'
    BY <1>1, <1>3, <1>4, <1>5, <2>1, <2>2
  <2> QED
    BY <1>1, <2>1, <2>3, StampsLater DEF Stamps
<1>8. DiskTypes'
  <2>1. seen' \subseteq Seq(Val) /\ db' \in Seq(Val)
    BY <1>1, <1>2 DEF DiskTypes, DiskInv
  <2> QED
    BY <1>1, <1>5, <2>1, ActsFacts DEF DiskTypes, DiskInv
<1>9. Database'
  BY <1>1, <1>2, <1>3, <1>5 DEF Database, DiskInv
<1>10. JournalKept
  BY <1>1, <1>4, <1>5 DEF JournalKept
<1> QED
  BY <1>1, <1>6, <1>7, <1>8, <1>9, <1>10, WalsAlone DEF Effect

LEMMA CheckpointEffect ==
    ASSUME DiskInv, Acts, NEW p \in 1..MaxPages, Checkpoint(p)
    PROVE  Effect
<1> DEFINE P == mains[main].pages
           F == wals[wal].frames
           n == IF p > Len(P) THEN p ELSE Len(P)
           P2 == [i \in 1..n |-> IF i = p THEN db[p] ELSE P[i]]
           r == [mains[main] EXCEPT !.mtime = now, !.pages = P2]
<1>1. /\ mains[main].wal /\ wal # 0 /\ p \in DOMAIN db /\ p <= Len(P) + 1
      /\ p \in DOMAIN P => P[p] # db[p]
      /\ mains' = [mains EXCEPT ![main] = r]
      /\ UNCHANGED <<main, wals, wal, journal, mx, pending, alive, db, seen>>
  BY DEF Checkpoint, Page, InWal, NoCommit
<1>2. /\ P \in Seq(Val) /\ F \in Seq(FrameSet) /\ db \in Seq(Val) /\ p \in 1..Len(db)
      /\ Covers(P, F, mx, db) /\ mx \in 0..Len(F) /\ journal = << >>
  <2>1. mx + pending <= Len(F) /\ mx \in Nat /\ pending \in Nat /\ Covers(P, F, mx, db)
    BY <1>1 DEF DiskInv, DiskTypes, Database
  <2>2. journal = << >>
    BY <1>1 DEF DiskInv, Database
  <2> QED
    BY <1>1, <2>1, <2>2, DiskFacts, SMTT(30)
<1> HIDE DEF P, F
<1>3. P2 \in Seq(Val) /\ Covers(P2, F, mx, db)
  BY <1>1, <1>2, PageCovers
<1>4. P2 # << >>
  <2>1. Len(P) \in Nat /\ n \in Nat /\ n >= 1
    BY <1>2
  <2>2. Len(P2) = n
    BY <2>1
  <2> HIDE DEF P2, n
  <2> QED
    BY <2>1, <2>2
<1>5. r \in MainFile /\ r.mtime = now /\ r.pages = P2 /\ r.wal = mains[main].wal
  <2> HIDE DEF P2
  <2> QED
    BY <1>3, ActsFacts, DiskFacts DEF MainFile
<1> HIDE DEF r, P2
<1>6. mains' \in Seq(MainFile) /\ main' \in DOMAIN mains' /\ mains'[main'] = r /\ MainsKept /\ Stamps'
  BY <1>1, <1>5, MainWritten
<1>7. DiskTypes'
  BY <1>1, <1>6, ActsFacts DEF DiskTypes, DiskInv
<1>8. Database'
  BY <1>1, <1>2, <1>3, <1>4, <1>5, <1>6 DEF Database, DiskInv, F
<1>9. JournalKept
  BY <1>1, <1>2 DEF JournalKept
<1> QED
  BY <1>1, <1>6, <1>7, <1>8, <1>9, WalsAlone DEF Effect

LEMMA CheckpointTruncateEffect ==
    ASSUME DiskInv, Acts, CheckpointTruncate
    PROVE  Effect
<1> DEFINE P == mains[main].pages
           F == wals[wal].frames
           r == [mains[main] EXCEPT !.mtime = now, !.pages = db]
<1>1. /\ mains[main].wal /\ wal # 0
      /\ mains' = [mains EXCEPT ![main] = r]
      /\ UNCHANGED <<main, wals, wal, journal, mx, pending, alive, db, seen>>
  BY DEF CheckpointTruncate, InWal, NoCommit
<1>2. /\ db \in Seq(Val) /\ db # << >>
      /\ Covers(P, F, mx, db) /\ mx \in Nat /\ journal = << >>
  BY <1>1 DEF DiskInv, DiskTypes, Database
<1> HIDE DEF P, F
<1>3. Covers(db, F, mx, db)
  BY <1>2, FilledCovers
<1>4. r \in MainFile /\ r.mtime = now /\ r.pages = db /\ r.wal = mains[main].wal
  BY <1>2, ActsFacts, DiskFacts DEF MainFile
<1> HIDE DEF r
<1>5. mains' \in Seq(MainFile) /\ main' \in DOMAIN mains' /\ mains'[main'] = r /\ MainsKept /\ Stamps'
  BY <1>1, <1>4, MainWritten
<1>6. DiskTypes'
  BY <1>1, <1>5, ActsFacts DEF DiskTypes, DiskInv
<1>7. Database'
  BY <1>1, <1>2, <1>3, <1>4, <1>5 DEF Database, DiskInv, F
<1>8. JournalKept
  BY <1>1, <1>2 DEF JournalKept
<1> QED
  BY <1>1, <1>5, <1>6, <1>7, <1>8, WalsAlone DEF Effect

(* A write to the WAL, with its stamp.                                      *)
LEMMA WalWritten ==
    ASSUME DiskInv, Acts, wal # 0, NEW r \in WalFile, r.ctime = now,
           r.gen \in {wals[wal].gen, now}, Len(r.frames) <= MaxFrames,
           \A k \in DOMAIN r.frames : r.frames[k].gen <= now,
           wals' = [wals EXCEPT ![wal] = r], UNCHANGED <<mains, wal>>
    PROVE  /\ wals' \in Seq(WalFile) /\ Len(wals') = Len(wals) /\ wals'[wal] = r
           /\ \A i \in DOMAIN wals' : Len(wals'[i].frames) <= MaxFrames
           /\ WalsKept /\ Stamps'
<1>1. /\ wals \in Seq(WalFile) /\ wal \in 1..Len(wals) /\ DOMAIN wals = 1..Len(wals)
      /\ \A i \in DOMAIN wals : Len(wals[i].frames) <= MaxFrames
  BY DiskFacts DEF DiskInv, DiskTypes
<1>2. /\ wals' \in Seq(WalFile) /\ Len(wals') = Len(wals) /\ DOMAIN wals' = 1..Len(wals)
      /\ \A i \in 1..Len(wals) : wals'[i] = IF i = wal THEN r ELSE wals[i]
  BY <1>1, ExceptSeq
<1>3. wals'[wal] = r
  BY <1>1, <1>2
<1>4. WalsKept
  BY <1>1, <1>2, <1>3, DiskFacts DEF WalsKept
<1>5. Stamps'
  <2>1. writes' = now /\ now \in Nat /\ UNCHANGED <<pin, pinned, gen>>
    BY ActsFacts
  <2>2. \A i \in DOMAIN wals' :
           /\ wals'[i].ctime <= now /\ wals'[i].gen <= now
           /\ \A k \in DOMAIN wals'[i].frames : wals'[i].frames[k].gen <= now
    <3>1. ASSUME NEW i \in 1..Len(wals)
          PROVE  /\ wals'[i].ctime <= now /\ wals'[i].gen <= now
                 /\ \A k \in DOMAIN wals'[i].frames : wals'[i].frames[k].gen <= now
      <4>1. CASE i = wal
        <5>1. r.gen <= now /\ r.ctime <= now
          BY <1>1, <2>1, StampsLater
        <5> QED
          BY <1>3, <4>1, <5>1
      <4>2. CASE i # wal
        <5>1. wals'[i] = wals[i]
          BY <1>2, <4>2
        <5> QED
          BY <1>1, <5>1, StampsLater
      <4> QED
        BY <4>1, <4>2
    <3> QED
      BY <1>2, <3>1
  <2> QED
    BY <2>1, <2>2, StampsLater DEF Stamps
<1>6. \A i \in DOMAIN wals' : Len(wals'[i].frames) <= MaxFrames
  BY <1>1, <1>2
<1> QED
  BY <1>2, <1>3, <1>4, <1>5, <1>6

LEMMA PutEffect ==
    ASSUME DiskInv, Acts, wal # 0, NEW f \in FrameSet, f.gen <= now, Put(f),
           UNCHANGED <<mains, wal>>
    PROVE  LET F == wals[wal].frames
               G == wals'[wal].frames
               k == mx + pending + 1
           IN /\ wals' \in Seq(WalFile) /\ Len(wals') = Len(wals)
              /\ \A i \in DOMAIN wals' : Len(wals'[i].frames) <= MaxFrames
              /\ WalsKept /\ Stamps'
              /\ wals'[wal].gen = wals[wal].gen
              /\ F \in Seq(FrameSet) /\ G \in Seq(FrameSet)
              /\ Len(G) = (IF k > Len(F) THEN k ELSE Len(F)) /\ k \in 1..Len(G) /\ G[k] = f
              /\ \A i \in 1..Len(G) : i # k => i <= Len(F) /\ G[i] = F[i]
<1> DEFINE w == wals[wal]
           F == w.frames
           k == mx + pending + 1
           G == IF k > Len(F) THEN Append(F, f) ELSE [F EXCEPT ![k] = f]
           r == [w EXCEPT !.ctime = now, !.frames = G]
<1>1. /\ k <= MaxFrames
      /\ wals' = [wals EXCEPT ![wal] = r]
  BY DEF Put
<1>2. /\ w \in WalFile /\ F \in Seq(FrameSet) /\ Len(F) \in 0..MaxFrames /\ mx \in Nat /\ pending \in Nat
      /\ mx + pending <= Len(F)
  BY DiskFacts DEF DiskInv, DiskTypes, Database
<1>3. k \in Nat /\ k >= 1 /\ k <= Len(F) + 1 /\ Len(F) \in Nat
  BY <1>2
<1>4. /\ G \in Seq(FrameSet) /\ Len(G) = (IF k > Len(F) THEN k ELSE Len(F))
      /\ k \in 1..Len(G) /\ G[k] = f
      /\ \A i \in 1..Len(G) : i # k => i <= Len(F) /\ G[i] = F[i]
  <2> HIDE DEF k, F
  <2>1. CASE k > Len(F)
    <3>1. G = Append(F, f) /\ k = Len(F) + 1
      BY <1>3, <2>1
    <3> QED
      BY <1>2, <1>3, <2>1, <3>1
  <2>2. CASE ~(k > Len(F))
    <3>1. G = [F EXCEPT ![k] = f] /\ k \in 1..Len(F)
      BY <1>3, <2>2
    <3>2. G \in Seq(FrameSet) /\ Len(G) = Len(F)
          /\ \A i \in 1..Len(F) : G[i] = IF i = k THEN f ELSE F[i]
      BY <1>2, <3>1, ExceptSeq
    <3> HIDE DEF G
    <3> QED
      BY <1>3, <2>2, <3>1, <3>2
  <2> QED
    BY <2>1, <2>2
<1> HIDE DEF G
<1>5. r \in WalFile /\ r.ctime = now /\ r.gen = w.gen /\ r.frames = G
  BY <1>2, <1>4, ActsFacts, Bounds DEF WalFile
<1>6. Len(G) <= MaxFrames
  BY <1>1, <1>2, <1>3, <1>4, Bounds
<1>7. \A i \in DOMAIN G : G[i].gen <= now
  <2>1. wal \in DOMAIN wals /\ DOMAIN F = 1..Len(F) /\ DOMAIN G = 1..Len(G)
    BY <1>2, <1>4, DiskFacts, SMTT(30)
  <2>2. \A i \in DOMAIN F : F[i].gen <= now
    BY <2>1, StampsLater
  <2> HIDE DEF F, k
  <2> QED
    BY <1>3, <1>4, <2>1, <2>2
<1> HIDE DEF r
<1>8. /\ wals' \in Seq(WalFile) /\ Len(wals') = Len(wals) /\ wals'[wal] = r
      /\ \A i \in DOMAIN wals' : Len(wals'[i].frames) <= MaxFrames
      /\ WalsKept /\ Stamps'
  BY <1>1, <1>5, <1>6, <1>7, WalWritten
<1> QED
  BY <1>2, <1>4, <1>5, <1>8

(* The frames up to the open transaction's last are one unbroken chain.     *)
LEMMA WalFacts ==
    ASSUME DiskInv, wal # 0
    PROVE  LET F == wals[wal].frames
           IN /\ mx \in Nat /\ pending \in Nat
              /\ mx + pending <= Len(F) /\ Len(F) \in Nat
              /\ \A i \in 1..mx + pending : F[i].gen = wals[wal].gen /\ Follows(F, i)
<1>1. DiskTypes /\ Database
  BY DEF DiskInv
<1>2. mx \in Nat /\ pending \in Nat
  BY <1>1 DEF DiskTypes
<1>3. Len(wals[wal].frames) \in Nat
  BY DiskFacts
<1>4. /\ mx + pending <= Len(wals[wal].frames)
      /\ \A i \in 1..mx + pending :
            wals[wal].frames[i].gen = wals[wal].gen /\ Follows(wals[wal].frames, i)
  BY <1>1 DEF Database
<1> QED
  BY <1>2, <1>3, <1>4

LEMMA BeforeType ==
    ASSUME DiskInv, wal # 0
    PROVE  /\ Before \in (0..MaxPages) \X Val
           /\ Before = IF mx + pending + 1 = 1 THEN NoFrame ELSE Id(wals[wal].frames[mx + pending])
<1>1. /\ wals[wal].frames \in Seq(FrameSet) /\ mx \in Nat /\ pending \in Nat
      /\ mx + pending <= Len(wals[wal].frames) /\ Len(wals[wal].frames) \in Nat
  BY DiskFacts, WalFacts
<1>2. Before = IF mx + pending = 0 THEN NoFrame ELSE Id(wals[wal].frames[mx + pending])
  BY DEF Before
<1>3. NoFrame \in (0..MaxPages) \X Val
  BY Bounds DEF NoFrame
<1>4. ASSUME mx + pending # 0 PROVE Id(wals[wal].frames[mx + pending]) \in (0..MaxPages) \X Val
  <2>1. wals[wal].frames[mx + pending] \in FrameSet
    BY <1>1, <1>4
  <2> QED
    BY <2>1, FrameFields, Bounds DEF Id
<1> QED
  BY <1>1, <1>2, <1>3, <1>4

(* The frame put after the open transaction continues its chain.            *)
LEMMA PutFollows ==
    ASSUME DiskInv, Acts, wal # 0, NEW f \in FrameSet, Put(f), UNCHANGED <<mains, wal>>,
           f.gen = wals[wal].gen, f.prev = Before
    PROVE  LET G == wals'[wal].frames
               k == mx + pending + 1
           IN \A i \in 1..k : G[i].gen = wals'[wal].gen /\ Follows(G, i)
<1> DEFINE F == wals[wal].frames
           G == wals'[wal].frames
           k == mx + pending + 1
<1>1. /\ mx \in Nat /\ pending \in Nat /\ mx + pending <= Len(F) /\ Len(F) \in Nat
      /\ \A i \in 1..mx + pending : F[i].gen = wals[wal].gen /\ Follows(F, i)
  BY WalFacts
<1>2. wals[wal].gen <= now
  BY DiskFacts, StampsLater
<1>3. /\ wals'[wal].gen = wals[wal].gen /\ k \in 1..Len(G) /\ G[k] = f
      /\ \A i \in 1..Len(G) : i # k => i <= Len(F) /\ G[i] = F[i]
  BY <1>2, PutEffect
<1>4. f.prev = IF k = 1 THEN NoFrame ELSE Id(F[k - 1])
  <2>1. k - 1 = mx + pending
    BY <1>1
  <2> QED
    BY <2>1, BeforeType
<1> HIDE DEF F, G
<1>5. ASSUME NEW i \in 1..k, i # k PROVE G[i].gen = wals'[wal].gen /\ Follows(G, i)
  <2>1. i \in 1..mx + pending /\ i \in 1..Len(G) /\ i # k
    BY <1>1, <1>3, <1>5
  <2>2. G[i] = F[i] /\ F[i].gen = wals[wal].gen /\ Follows(F, i)
    BY <1>1, <1>3, <2>1
  <2>3. i # 1 => G[i - 1] = F[i - 1]
    BY <1>1, <1>3, <2>1
  <2> QED
    BY <1>3, <2>2, <2>3 DEF Follows
<1>6. G[k].gen = wals'[wal].gen /\ Follows(G, k)
  <2>1. k # 1 => G[k - 1] = F[k - 1]
    BY <1>1, <1>3
  <2> QED
    BY <1>3, <1>4, <2>1 DEF Follows
<1> QED
  BY <1>5, <1>6 DEF G

LEMMA WalFrameEffect ==
    ASSUME DiskInv, Acts, NEW p \in 1..MaxPages, NEW size \in 0..MaxPages, WalFrame(p, size)
    PROVE  Effect
<1> DEFINE w == wals[wal]
           F == w.frames
           G == wals'[wal].frames
           k == mx + pending + 1
           f == [gen |-> w.gen, page |-> p, val |-> now, size |-> size, prev |-> Before]
           s == Append(SubSeq(F, 1, mx + pending), f)
<1>1. /\ mains[main].wal /\ wal # 0 /\ Put(f)
      /\ UNCHANGED <<mains, main, wal, journal, alive>>
      /\ size = 0 => pending' = pending + 1 /\ UNCHANGED <<mx, db, seen>>
      /\ size # 0 => /\ \A q \in Len(db) + 1..size : \E i \in mx + 1..Len(s) : s[i].page = q
                     /\ mx' = k /\ pending' = 0
                     /\ db' = Apply(mains[main].pages, s) /\ seen' = seen \cup {db'}
  BY DEF WalFrame, InWal, NoCommit, Commit
<1>2. /\ w \in WalFile /\ F \in Seq(FrameSet) /\ Len(F) \in Nat /\ mx \in Nat /\ pending \in Nat
      /\ mx + pending <= Len(F) /\ Commits(F, mx) /\ journal = << >>
      /\ mains[main].pages \in Seq(Val) /\ mains[main].pages # << >>
      /\ \A i \in mx + 1..Len(F) : F[i].gen = w.gen => F[i].size = 0
      /\ Covers(mains[main].pages, F, mx, db) /\ db # << >> /\ db \in seen /\ seen \subseteq Seq(Val)
      /\ db \in Seq(Val)
  <2>1. /\ w \in WalFile /\ F \in Seq(FrameSet) /\ Len(F) \in Nat
        /\ mains[main].pages \in Seq(Val) /\ db \in Seq(Val)
    BY <1>1, DiskFacts
  <2>2. mx \in Nat /\ pending \in Nat /\ seen \subseteq Seq(Val)
    BY DEF DiskInv, DiskTypes
  <2>3. /\ mx + pending <= Len(F) /\ Commits(F, mx) /\ journal = << >>
        /\ mains[main].pages # << >> /\ db # << >> /\ db \in seen
        /\ \A i \in mx + 1..Len(F) : F[i].gen = w.gen => F[i].size = 0
        /\ Covers(mains[main].pages, F, mx, db)
    BY <1>1 DEF DiskInv, Database
  <2> QED
    BY <2>1, <2>2, <2>3
<1>3. w.gen \in -1..MaxWrites /\ w.gen <= now
  BY <1>1, <1>2, DiskFacts, StampsLater DEF WalFile
<1>4. f \in FrameSet
  BY <1>1, <1>3, BeforeType, ActsFacts DEF FrameSet
<1>5. /\ wals' \in Seq(WalFile) /\ Len(wals') = Len(wals)
      /\ \A i \in DOMAIN wals' : Len(wals'[i].frames) <= MaxFrames
      /\ WalsKept /\ Stamps'
      /\ wals'[wal].gen = w.gen
      /\ G \in Seq(FrameSet)
      /\ Len(G) = (IF k > Len(F) THEN k ELSE Len(F)) /\ k \in 1..Len(G) /\ G[k] = f
      /\ \A i \in 1..Len(G) : i # k => i <= Len(F) /\ G[i] = F[i]
  BY <1>1, <1>3, <1>4, PutEffect
<1>6. \A i \in 1..k : G[i].gen = wals'[wal].gen /\ Follows(G, i)
  BY <1>1, <1>4, PutFollows
<1>7. MainsKept /\ JournalKept
  BY <1>1, MainsAlone
<1>8. \A i \in 1..mx : F[i] = G[i]
  BY <1>2, <1>5, SMTT(30)
<1>9. Len(G) \in Nat /\ k \in Nat /\ Len(G) >= Len(F)
  BY <1>2, <1>5, SMTT(30)
<1> HIDE DEF w, F, G
<1>10. CASE size = 0
  <2>1. DiskTypes'
    <3>1. pending' \in Nat /\ mx' \in Nat /\ wal' \in 0..Len(wals')
      BY <1>1, <1>2, <1>5, <1>10, DiskFacts, SMTT(30)
    <3> QED
      BY <1>1, <1>5, <1>10, <3>1, ActsFacts DEF DiskTypes, DiskInv
  <2>2. \A i \in mx + 1..Len(G) : G[i].gen = w.gen => G[i].size = 0
    <3>1. ASSUME NEW i \in mx + 1..Len(G), G[i].gen = w.gen PROVE G[i].size = 0
      <4>1. i \in 1..Len(G)
        BY <1>2, <1>9
      <4>2. CASE i = k
        BY <1>5, <1>10, <4>2
      <4>3. CASE i # k
        <5>1. i <= Len(F) /\ G[i] = F[i]
          BY <1>5, <4>1, <4>3
        <5>2. i \in mx + 1..Len(F)
          BY <1>2, <1>9, <5>1
        <5> QED
          BY <1>2, <3>1, <5>1, <5>2
      <4> QED
        BY <4>2, <4>3
    <3> QED
      BY <3>1
  <2>3. Covers(mains[main].pages, G, mx, db)
    BY <1>2, <1>8, CoversSame
  <2>4. Commits(G, mx)
    BY <1>2, <1>8 DEF Commits
  <2>5. /\ mains'[main'] = mains[main] /\ wal' = wal /\ wals'[wal'].frames = G
        /\ wals'[wal'].gen = w.gen /\ mx' = mx /\ pending' = pending + 1 /\ db' = db
        /\ seen' = seen /\ journal' = << >>
    BY <1>1, <1>2, <1>5, <1>10 DEF G
  <2>6. mx' + pending' = k
    BY <1>2, <2>5
  <2>7. Database'
    BY <1>1, <1>2, <1>5, <1>6, <2>2, <2>3, <2>4, <2>5, <2>6 DEF Database
  <2>8. WalGrows
    BY <1>1, <1>8, <1>9, <1>10 DEF WalGrows, F, G, w
  <2> QED
    BY <1>1, <1>5, <1>7, <1>10, <2>1, <2>7, <2>8 DEF Effect
<1>11. CASE size # 0
  <2>1. s \in Seq(FrameSet) /\ Len(s) = k /\ \A i \in 1..k : s[i] = G[i]
    <3>1. \A i \in 1..mx + pending : F[i] \in FrameSet
      BY <1>2
    <3>2. /\ SubSeq(F, 1, mx + pending) \in Seq(FrameSet)
          /\ Len(SubSeq(F, 1, mx + pending)) = mx + pending
          /\ \A i \in 1..mx + pending : SubSeq(F, 1, mx + pending)[i] = F[i]
      <4>1. mx + pending \in Int /\ 1 \in Int /\ mx + pending - 1 + 1 = mx + pending
            /\ (mx + pending >= 1 \/ mx + pending = 0)
        BY <1>2
      <4> QED
        BY <1>2, <3>1, <4>1, SubSeqProperties
    <3> DEFINE h == SubSeq(F, 1, mx + pending)
    <3>3. /\ s \in Seq(FrameSet) /\ Len(s) = k /\ s[k] = f
          /\ \A i \in 1..mx + pending : s[i] = h[i]
      <4> HIDE DEF h, f
      <4>1. s = Append(h, f)
        BY DEF h
      <4> QED
        BY <1>2, <1>4, <3>2, <4>1 DEF h
    <3>4. \A i \in 1..mx + pending : h[i] = G[i]
      BY <1>2, <1>5, <1>9, <3>2
    <3> HIDE DEF s, h, f
    <3> QED
      BY <1>2, <1>5, <3>3, <3>4, SMTT(30)
  <2>2. size > 0 /\ size \in Nat /\ f.size = size /\ s[k].size = size /\ G[k].size = size
    BY <1>5, <1>9, <1>11, <2>1, Bounds
  <2> HIDE DEF s, f
  <2>3. LastCommit(s) = k
    <3>1. k \in 0..Len(s) /\ Commits(s, k) /\ \A i \in k + 1..Len(s) : ~(s[i].size > 0)
      BY <1>9, <2>1, <2>2 DEF Commits
    <3> QED
      BY <2>1, <3>1, LastCommitAt
  <2>4. db' \in Seq(Val) /\ Covers(mains[main].pages, s, k, db')
    BY <1>1, <1>2, <1>11, <2>1, <2>3, ApplyCovers
  <2>5. Covers(mains[main].pages, G, k, db')
    BY <1>9, <2>1, <2>4, CoversSame
  <2>6. db' # << >>
    <3>1. Len(db') = G[k].size
      BY <1>2, <1>9, <2>5 DEF Covers
    <3> QED
      BY <2>2, <3>1
  <2>7. Commits(G, k)
    BY <2>2 DEF Commits
  <2>8. \A i \in k + 1..Len(G) : G[i].gen = w.gen => G[i].size = 0
    <3>1. ASSUME NEW i \in k + 1..Len(G), G[i].gen = w.gen PROVE G[i].size = 0
      <4>1. i \in 1..Len(G) /\ i # k
        BY <1>2, <1>9
      <4>2. i <= Len(F) /\ G[i] = F[i]
        BY <1>5, <4>1
      <4>3. i \in mx + 1..Len(F)
        BY <1>2, <1>9, <4>2
      <4> QED
        BY <1>2, <3>1, <4>2, <4>3
    <3> QED
      BY <3>1
  <2>9. /\ mains'[main'] = mains[main] /\ wal' = wal /\ wals'[wal'].frames = G
        /\ wals'[wal'].gen = w.gen /\ mx' = k /\ pending' = 0 /\ mx' + pending' = k
        /\ seen' = seen \cup {db'} /\ journal' = << >>
    BY <1>1, <1>2, <1>5, <1>9, <1>11 DEF G
  <2>10. Database'
    BY <1>1, <1>2, <1>5, <1>6, <2>5, <2>6, <2>7, <2>8, <2>9 DEF Database
  <2>11. DiskTypes'
    <3>1. seen' \subseteq Seq(Val)
      BY <1>2, <2>4, <2>9
    <3>2. pending' \in Nat /\ mx' \in Nat /\ wal' \in 0..Len(wals')
      BY <1>1, <1>5, <1>9, <2>9, DiskFacts
    <3> HIDE DEF k
    <3> QED
      BY <1>1, <1>5, <2>4, <3>1, <3>2, ActsFacts DEF DiskTypes, DiskInv
  <2>12. WalGrows
    <3>1. \A q \in Len(db) + 1..size : \E i \in mx + 1..k : G[i].page = q
      <4>1. ASSUME NEW q \in Len(db) + 1..size PROVE \E i \in mx + 1..k : G[i].page = q
        <5>1. PICK i \in mx + 1..Len(s) : s[i].page = q
          BY <1>1, <1>11
        <5>2. i \in mx + 1..k /\ i \in 1..k
          BY <1>2, <2>1, <5>1
        <5> QED
          BY <2>1, <5>1, <5>2
      <4> QED
        BY <4>1
    <3>2. \A i \in mx + 1..k - 1 : G[i].size = 0
      <4>1. ASSUME NEW i \in mx + 1..k - 1 PROVE G[i].size = 0
        <5>1. i \in mx + 1..Len(F) /\ i \in 1..Len(G) /\ i # k /\ i \in 1..k
          BY <1>2, <1>9
        <5>2. G[i] = F[i] /\ G[i].gen = w.gen
          BY <1>5, <1>6, <5>1
        <5> QED
          BY <1>2, <5>1, <5>2
      <4> QED
        BY <4>1
    <3>3. mx' = k /\ k \in mx + 1..Len(G) /\ G[mx'].size > 0 /\ G[mx'].size = size
      BY <1>2, <1>5, <1>9, <2>2, <2>9
    <3>4. Len(G) >= Len(F) /\ \A i \in 1..mx : G[i] = F[i]
      BY <1>8, <1>9
    <3> HIDE DEF k
    <3> QED
      BY <1>1, <3>1, <3>2, <3>3, <3>4 DEF WalGrows, F, G, w
  <2> QED
    BY <1>5, <1>7, <2>9, <2>10, <2>11, <2>12 DEF Effect
<1> QED
  BY <1>10, <1>11

LEMMA WalTearEffect ==
    ASSUME DiskInv, Acts, NEW p \in 1..MaxPages, WalTear(p)
    PROVE  Effect
<1> DEFINE w == wals[wal]
           F == w.frames
           G == wals'[wal].frames
           k == mx + pending + 1
           f == [gen |-> w.gen, page |-> p, val |-> now, size |-> 0, prev |-> Torn]
<1>1. /\ mains[main].wal /\ wal # 0 /\ Put(f) /\ mx + pending < Len(F)
      /\ UNCHANGED <<mains, main, wal, journal, mx, pending, alive, db, seen>>
  BY DEF WalTear, InWal, NoCommit
<1>2. /\ w \in WalFile /\ F \in Seq(FrameSet) /\ Len(F) \in Nat /\ mx \in Nat /\ pending \in Nat
      /\ mx + pending <= Len(F) /\ Commits(F, mx) /\ journal = << >>
      /\ \A i \in mx + 1..Len(F) : F[i].gen = w.gen => F[i].size = 0
      /\ \A i \in 1..mx + pending : F[i].gen = w.gen /\ Follows(F, i)
      /\ Covers(mains[main].pages, F, mx, db)
  <2>1. w \in WalFile /\ F \in Seq(FrameSet) /\ Len(F) \in Nat
    BY <1>1, DiskFacts
  <2>2. mx \in Nat /\ pending \in Nat
    BY DEF DiskInv, DiskTypes
  <2>3. /\ mx + pending <= Len(F) /\ Commits(F, mx) /\ journal = << >>
        /\ \A i \in mx + 1..Len(F) : F[i].gen = w.gen => F[i].size = 0
        /\ \A i \in 1..mx + pending : F[i].gen = w.gen /\ Follows(F, i)
        /\ Covers(mains[main].pages, F, mx, db)
    BY <1>1 DEF DiskInv, Database
  <2> QED
    BY <2>1, <2>2, <2>3
<1>3. w.gen \in -1..MaxWrites /\ w.gen <= now
  BY <1>1, <1>2, DiskFacts, StampsLater DEF WalFile
<1>4. f \in FrameSet
  <2>1. 1 \in Val /\ 0 \in 0..MaxPages
    BY ActsFacts, Bounds DEF Val
  <2> QED
    BY <1>1, <1>3, <2>1, ActsFacts DEF FrameSet, Torn
<1>5. /\ wals' \in Seq(WalFile) /\ Len(wals') = Len(wals)
      /\ \A i \in DOMAIN wals' : Len(wals'[i].frames) <= MaxFrames
      /\ WalsKept /\ Stamps'
      /\ wals'[wal].gen = w.gen
      /\ G \in Seq(FrameSet)
      /\ Len(G) = (IF k > Len(F) THEN k ELSE Len(F)) /\ k \in 1..Len(G) /\ G[k] = f
      /\ \A i \in 1..Len(G) : i # k => i <= Len(F) /\ G[i] = F[i]
  BY <1>1, <1>3, <1>4, PutEffect
<1>6. MainsKept /\ JournalKept
  BY <1>1, MainsAlone
<1> HIDE DEF w, F, G
<1>7. Len(G) = Len(F) /\ k \in Nat
  BY <1>1, <1>2, <1>5
<1>8. \A i \in 1..mx + pending : G[i] = F[i]
  BY <1>2, <1>5, <1>7
<1>9. \A i \in 1..mx : F[i] = G[i]
  BY <1>2, <1>8
<1>10. \A i \in 1..mx + pending : G[i].gen = w.gen /\ Follows(G, i)
  <2>1. ASSUME NEW i \in 1..mx + pending PROVE G[i].gen = w.gen /\ Follows(G, i)
    <3>1. G[i] = F[i] /\ F[i].gen = w.gen /\ Follows(F, i)
      BY <1>2, <1>8
    <3>2. i # 1 => G[i - 1] = F[i - 1]
      BY <1>2, <1>8
    <3> QED
      BY <3>1, <3>2 DEF Follows
  <2> QED
    BY <2>1
<1>11. \A i \in mx + 1..Len(G) : G[i].gen = w.gen => G[i].size = 0
  <2>1. ASSUME NEW i \in mx + 1..Len(G), G[i].gen = w.gen PROVE G[i].size = 0
    <3>1. i \in 1..Len(G) /\ i \in mx + 1..Len(F)
      BY <1>2, <1>7
    <3>2. CASE i = k
      BY <1>5, <3>2
    <3>3. CASE i # k
      BY <1>2, <1>5, <2>1, <3>1, <3>3
    <3> QED
      BY <3>2, <3>3
  <2> QED
    BY <2>1
<1>12. Covers(mains[main].pages, G, mx, db) /\ Commits(G, mx)
  <2>1. mx \in Nat /\ Commits(F, mx) /\ \A i \in 1..mx : F[i] = G[i]
    BY <1>2, <1>9
  <2>2. Commits(G, mx)
    BY <2>1, CommitsSame
  <2> QED
    BY <1>2, <2>1, <2>2, CoversSame
<1>13. /\ mains'[main'] = mains[main] /\ wal' = wal /\ wals'[wal'].frames = G
       /\ wals'[wal'].gen = w.gen /\ mx' = mx /\ pending' = pending /\ db' = db
       /\ seen' = seen /\ journal' = << >>
  BY <1>1, <1>2, <1>5 DEF G
<1>14. Database'
  BY <1>1, <1>2, <1>7, <1>10, <1>11, <1>12, <1>13 DEF Database, DiskInv
<1>15. DiskTypes'
  BY <1>1, <1>5, ActsFacts, DiskFacts DEF DiskTypes, DiskInv
<1>16. WalGrows
  BY <1>1, <1>2, <1>7, <1>9 DEF WalGrows, F, G, w
<1> QED
  BY <1>1, <1>5, <1>6, <1>14, <1>15, <1>16 DEF Effect

LEMMA WalAbandonEffect ==
    ASSUME DiskInv, Acts, WalAbandon
    PROVE  Effect
<1>1. /\ wal # 0 /\ pending' = 0
      /\ UNCHANGED <<mains, main, wals, wal, journal, mx, alive, db, seen>>
  BY DEF WalAbandon, InWal, NoCommit
<1>2. mx \in Nat /\ pending \in Nat
  BY DEF DiskInv, DiskTypes
<1>3. DiskTypes'
  BY <1>1, ActsFacts DEF DiskTypes, DiskInv
<1>4. Database'
  <2>1. mx' + pending' <= Len(wals[wal].frames)
    BY <1>1, <1>2, DiskFacts DEF Database, DiskInv
  <2>2. \A i \in 1..mx' + pending' : i \in 1..mx + pending
    BY <1>1, <1>2
  <2> QED
    BY <1>1, <2>1, <2>2 DEF Database, DiskInv
<1>5. MainsKept /\ JournalKept
  BY <1>1, MainsAlone
<1>6. WalsKept /\ WalGrows
  BY <1>1, DiskFacts DEF WalsKept, WalGrows
<1> QED
  BY <1>1, <1>3, <1>4, <1>5, <1>6, StampsKept DEF Effect

LEMMA WalCreateEffect ==
    ASSUME DiskInv, Acts, WalCreate
    PROVE  Effect
<1> DEFINE r == [gen |-> now, frames |-> << >>, ctime |-> now]
<1>1. /\ mains[main].wal /\ wal = 0
      /\ wals' = Append(wals, r) /\ wal' = Len(wals) + 1 /\ mx' = 0 /\ pending' = 0
      /\ UNCHANGED <<mains, main, journal, alive, db, seen>>
  BY DEF WalCreate, NoCommit
<1>2. r \in WalFile /\ r.frames = << >> /\ r.ctime = now /\ r.gen = now
  BY ActsFacts, Bounds DEF WalFile
<1> HIDE DEF r
<1>3. /\ wals \in Seq(WalFile) /\ Len(wals) \in Nat /\ DOMAIN wals = 1..Len(wals)
      /\ \A i \in DOMAIN wals : Len(wals[i].frames) <= MaxFrames
  BY DiskFacts DEF DiskInv, DiskTypes
<1>4. /\ wals' \in Seq(WalFile) /\ Len(wals') = Len(wals) + 1 /\ wals'[wal'] = r
      /\ DOMAIN wals' = 1..Len(wals) + 1
      /\ \A i \in 1..Len(wals) : wals'[i] = wals[i]
  BY <1>1, <1>2, <1>3
<1>5. WalsKept
  BY <1>1, <1>3, <1>4 DEF WalsKept
<1>6. Stamps'
  <2>1. writes' = now /\ now \in Nat /\ UNCHANGED <<pin, pinned, gen>>
    BY ActsFacts
  <2>2. ASSUME NEW i \in DOMAIN wals'
        PROVE  /\ wals'[i].ctime <= now /\ wals'[i].gen <= now
               /\ \A k \in DOMAIN wals'[i].frames : wals'[i].frames[k].gen <= now
    <3>1. CASE i \in 1..Len(wals)
      BY <1>3, <1>4, <3>1, StampsLater
    <3>2. CASE i = wal'
      BY <1>2, <1>4, <2>1, <3>2
    <3> QED
      BY <1>1, <1>3, <1>4, <3>1, <3>2
  <2> QED
    BY <1>1, <2>1, <2>2, StampsLater DEF Stamps
<1>7. DiskTypes'
  <2>1. \A i \in DOMAIN wals' : Len(wals'[i].frames) <= MaxFrames
    BY <1>1, <1>2, <1>3, <1>4, Bounds
  <2>2. mx' \in Nat /\ pending' \in Nat /\ wal' \in 0..Len(wals')
    BY <1>1, <1>3, <1>4
  <2> QED
    BY <1>1, <1>4, <2>1, <2>2, ActsFacts DEF DiskTypes, DiskInv
<1>8. Database'
  <2>1. journal = << >> /\ mains[main].pages = db /\ db # << >> /\ db \in seen
    BY <1>1 DEF Database, DiskInv
  <2>2. Commits(<< >>, 0) /\ Covers(mains[main].pages, << >>, 0, db)
    BY <2>1 DEF Commits, Covers
  <2>3. wals'[wal'].frames = << >>
    BY <1>2, <1>4
  <2>4. wal' # 0
    BY <1>1, <1>3
  <2> QED
    BY <1>1, <2>1, <2>2, <2>3, <2>4 DEF Database
<1>9. MainsKept /\ JournalKept
  BY <1>1, MainsAlone
<1> QED
  BY <1>1, <1>5, <1>6, <1>7, <1>8, <1>9 DEF Effect

(* After a complete checkpoint the frames commit nothing any more.          *)
LEMMA WalStartsOver ==
    ASSUME DiskInv, Acts, Filled, wal # 0, NEW r \in WalFile, r.ctime = now, r.gen = now,
           r.frames = wals[wal].frames \/ r.frames = << >>,
           wals' = [wals EXCEPT ![wal] = r], mx' = 0, pending = 0,
           UNCHANGED <<mains, main, wal, journal, pending, alive, db, seen>>
    PROVE  Effect
<1> DEFINE F == wals[wal].frames
           G == r.frames
<1>1. mains[main].pages = db /\ db # << >> /\ db \in seen /\ journal = << >> /\ mains[main].wal
  BY DEF Filled, DiskInv, Database
<1>2. wal \in 1..Len(wals) /\ Len(F) \in 0..MaxFrames /\ wals[wal].gen # now
  BY DiskFacts, StampsLater
<1>3. Len(G) <= MaxFrames /\ Len(G) \in Nat /\ \A k \in DOMAIN G : G[k].gen <= now /\ G[k].gen # now
  <2>1. CASE G = F
    BY <1>2, <2>1, DiskFacts, StampsLater, Bounds
  <2>2. CASE G = << >>
    BY <2>2, Bounds
  <2> QED
    BY <2>1, <2>2
<1>4. /\ wals' \in Seq(WalFile) /\ Len(wals') = Len(wals) /\ wals'[wal] = r
      /\ \A i \in DOMAIN wals' : Len(wals'[i].frames) <= MaxFrames
      /\ WalsKept /\ Stamps'
  BY <1>3, WalWritten
<1>5. DiskTypes'
  <2>1. mx' \in Nat /\ wal' \in 0..Len(wals')
    BY <1>2, <1>4
  <2> QED
    BY <1>4, <2>1, ActsFacts DEF DiskTypes, DiskInv
<1>6. Database'
  <2>1. Commits(G, 0) /\ Covers(mains[main].pages, G, 0, db)
    BY <1>1 DEF Commits, Covers
  <2>2. \A i \in 1..Len(G) : i \in DOMAIN G
    BY <1>4 DEF WalFile
  <2>3. mx' + pending' = 0
    OBVIOUS
  <2>4. \A i \in mx' + 1..Len(G) : G[i].gen = now => G[i].size = 0
    BY <1>3, <2>2
  <2> QED
    BY <1>1, <1>3, <1>4, <2>1, <2>3, <2>4 DEF Database
<1>7. MainsKept /\ JournalKept
  BY MainsAlone
<1>8. wals'[wal].gen # wals[wal].gen
  BY <1>2, <1>4
<1> QED
  BY <1>4, <1>5, <1>6, <1>7, <1>8 DEF Effect

LEMMA WalRestartEffect ==
    ASSUME DiskInv, Acts, WalRestart
    PROVE  Effect
<1> DEFINE r == [wals[wal] EXCEPT !.gen = now, !.ctime = now]
<1>1. /\ wal # 0 /\ Filled /\ pending = 0
      /\ wals' = [wals EXCEPT ![wal] = r] /\ mx' = 0
      /\ UNCHANGED <<mains, main, wal, journal, pending, alive, db, seen>>
  BY DEF WalRestart, InWal, NoCommit
<1>2. r \in WalFile /\ r.ctime = now /\ r.gen = now /\ r.frames = wals[wal].frames
  <2>1. wals[wal] \in WalFile /\ now \in 1..MaxWrites /\ MaxWrites \in Nat /\ << >> \in Seq(FrameSet)
    BY <1>1, ActsFacts, DiskFacts, Bounds
  <2>2. now \in -1..MaxWrites /\ now \in 0..MaxWrites
    BY <2>1
  <2> QED
    BY <2>1, <2>2 DEF WalFile
<1> HIDE DEF r
<1> QED
  BY <1>1, <1>2, WalStartsOver

LEMMA WalTruncateEffect ==
    ASSUME DiskInv, Acts, WalTruncate
    PROVE  Effect
<1> DEFINE r == [wals[wal] EXCEPT !.frames = << >>, !.gen = now, !.ctime = now]
<1>1. /\ wal # 0 /\ Filled /\ pending = 0
      /\ wals' = [wals EXCEPT ![wal] = r] /\ mx' = 0
      /\ UNCHANGED <<mains, main, wal, journal, pending, alive, db, seen>>
  BY DEF WalTruncate, InWal, NoCommit
<1>2. r \in WalFile /\ r.ctime = now /\ r.gen = now /\ r.frames = << >>
  <2>1. wals[wal] \in WalFile /\ now \in 1..MaxWrites /\ MaxWrites \in Nat /\ << >> \in Seq(FrameSet)
    BY <1>1, ActsFacts, DiskFacts, Bounds
  <2>2. now \in -1..MaxWrites /\ now \in 0..MaxWrites
    BY <2>1
  <2> QED
    BY <2>1, <2>2 DEF WalFile
<1> HIDE DEF r
<1> QED
  BY <1>1, <1>2, WalStartsOver

LEMMA WalRemoveEffect ==
    ASSUME DiskInv, Acts, WalRemove
    PROVE  Effect
<1>1. /\ wal # 0 /\ mains[main].pages = db /\ pending = 0 /\ wal' = 0 /\ mx' = 0
      /\ UNCHANGED <<mains, main, wals, journal, pending, alive, db, seen>>
  BY DEF WalRemove, InWal, Filled, NoCommit
<1>2. DiskTypes'
  <2>1. wal' \in 0..Len(wals') /\ mx' \in Nat
    BY <1>1, DiskFacts
  <2> QED
    BY <1>1, <2>1, ActsFacts DEF DiskTypes, DiskInv
<1>3. Database'
  BY <1>1 DEF Database, DiskInv
<1>4. MainsKept /\ JournalKept /\ WalsKept
  BY <1>1, MainsAlone, DiskFacts DEF WalsKept
<1> QED
  BY <1>1, <1>2, <1>3, <1>4, StampsKept DEF Effect

LEMMA AgentEffect ==
    ASSUME DiskInv, Agent
    PROVE  Acts /\ Effect
<1>1. Acts
  BY DEF Agent
<1>2. CASE WalCreate \/ WalAbandon \/ CheckpointTruncate \/ WalRestart \/ WalTruncate \/ WalRemove
  BY <1>1, <1>2, WalCreateEffect, WalAbandonEffect, CheckpointTruncateEffect, WalRestartEffect,
     WalTruncateEffect, WalRemoveEffect
<1>3. CASE \E p \in 1..MaxPages : \/ WalTear(p) \/ Checkpoint(p) \/ JournalWrite(p)
                                  \/ \E size \in 0..MaxPages : WalFrame(p, size)
  BY <1>1, <1>3, WalTearEffect, CheckpointEffect, JournalWriteEffect, WalFrameEffect
<1>4. CASE \E w \in BOOLEAN : Replace(w)
  BY <1>1, <1>4, ReplaceEffect
<1>5. CASE SetMode \/ JournalStart \/ JournalCommit \/ JournalCrash \/ JournalRecover
  BY <1>1, <1>5, SetModeEffect, JournalStartEffect, JournalCommitEffect, JournalCrashEffect,
     JournalRecoverEffect
<1> QED
  BY <1>1, <1>2, <1>3, <1>4, <1>5 DEF Agent

-----------------------------------------------------------------------------
(* What the reader knows after a step of the agent *)

LEMMA AgentDisk ==
    ASSUME DiskInv, Agent
    PROVE  DiskInv'
<1>1. Acts /\ Effect
  BY AgentEffect
<1>2. UNCHANGED reader
  BY <1>1, ActsFacts
<1>3. ReaderTypes'
  <2>1. /\ Len(mains') >= Len(mains) /\ Len(wals') >= Len(wals)
        /\ Len(mains') \in Nat /\ Len(wals') \in Nat
    BY <1>1 DEF Effect, MainsKept, WalsKept, DiskTypes
  <2>2. pin.inode \in 0..Len(mains) /\ pinned.inode \in 0..Len(wals)
    BY DEF DiskInv, ReaderTypes
  <2>3. pin'.inode \in 0..Len(mains') /\ pinned'.inode \in 0..Len(wals')
    BY <1>2, <2>1, <2>2, DiskFacts DEF reader
  <2> QED
    BY <1>2, <2>3 DEF reader, DiskInv, ReaderTypes
<1> QED
  BY <1>1, <1>3 DEF Effect, DiskInv

(* An unchanged fingerprint means that nothing happened to the file.        *)
LEMMA SameMainBack ==
    ASSUME DiskInv, Agent, SameMain'
    PROVE  SameMain /\ main' = main /\ mains'[main] = mains[main] /\ mains'[main].mtime # now
<1>1. Acts /\ MainsKept /\ pin' = pin
  BY AgentEffect, ActsFacts DEF Effect
<1>2. pin.inode = main' /\ pin.mtime = mains'[main'].mtime /\ pin.size = Len(mains'[main'].pages)
  BY <1>1 DEF SameMain, Fingerprint
<1>3. pin.inode \in 0..Len(mains) /\ pin.mtime # now
  BY StampsLater DEF DiskInv, ReaderTypes
<1>4. main' = main
  BY <1>1, <1>2, <1>3, DiskFacts DEF MainsKept
<1>5. mains'[main] = mains[main]
  BY <1>1, <1>2, <1>3, <1>4, DiskFacts DEF MainsKept
<1>6. SameMain
  BY <1>1, <1>4, <1>5 DEF SameMain, Fingerprint
<1> QED
  BY <1>2, <1>3, <1>4, <1>5, <1>6

LEMMA SameWalBack ==
    ASSUME DiskInv, Agent, pinned.inode # 0, SameWal'
    PROVE  SameWal /\ wal # 0 /\ wal' = wal /\ wals'[wal] = wals[wal]
<1>1. Acts /\ WalsKept /\ pinned' = pinned
  BY AgentEffect, ActsFacts DEF Effect
<1>2. wal' # 0 /\ pinned.inode = wal' /\ pinned.mtime = wals'[wal'].ctime
  BY <1>1 DEF SameWal, WalFingerprint
<1>3. pinned.inode \in 0..Len(wals) /\ pinned.mtime # now
  BY StampsLater DEF DiskInv, ReaderTypes
<1>4. wal' = wal /\ wal # 0
  BY <1>1, <1>2, <1>3, DiskFacts DEF WalsKept
<1>5. wals'[wal] = wals[wal]
  BY <1>1, <1>2, <1>3, <1>4, DiskFacts DEF WalsKept
<1>6. SameWal
  BY <1>1, <1>4, <1>5 DEF SameWal, WalFingerprint
<1> QED
  BY <1>4, <1>5, <1>6

LEMMA LinkedBack ==
    ASSUME DiskInv, Agent, pinned.inode # 0, Linked'
    PROVE  Linked /\ main' = main /\ wal' = wal /\ wal # 0 /\ WalGrows
<1>1. Acts /\ Effect /\ UNCHANGED <<pin, pinned, gen>>
  BY AgentEffect, ActsFacts
<1>2. main' = pin.inode /\ wal' = pinned.inode /\ wals'[wal'].gen = gen
  BY <1>1 DEF Linked
<1>3. pin.inode \in 0..Len(mains) /\ pinned.inode \in 0..Len(wals) /\ gen # now
  BY StampsLater DEF DiskInv, ReaderTypes
<1>4. main' = main
  BY <1>1, <1>2, <1>3, DiskFacts DEF Effect, MainsKept
<1>5. wal' = wal /\ wal # 0
  BY <1>1, <1>2, <1>3, DiskFacts DEF Effect, WalsKept
<1>6. wals'[wal].gen = wals[wal].gen
  BY <1>1, <1>2, <1>3, <1>5, DiskFacts DEF Effect, WalsKept
<1> QED
  BY <1>1, <1>2, <1>4, <1>5, <1>6 DEF Linked, Effect

LEMMA FamilyAgent ==
    ASSUME DiskInv, FamilyInv, Agent
    PROVE  FamilyInv'
<1>1. Acts /\ Effect /\ DiskInv'
  BY AgentEffect, AgentDisk
<1>2. UNCHANGED <<pc, at, out, pin, pinned, copy, frames, prefix>>
  BY <1>1, ActsFacts DEF reader
<1>3. seen \subseteq seen' /\ db' \in seen'
  BY <1>1 DEF Effect, Database
<1>4. Good => Good'
  BY <1>2, <1>3 DEF Good
<1>5. SameMain' => SameMain /\ mains'[main'].pages = mains[main].pages
  BY SameMainBack
<1>6. pinned.inode # 0 /\ SameWal' => SameWal /\ Valid(wals[wal])' = Valid(wals[wal])
  <2> SUFFICES ASSUME pinned.inode # 0, SameWal'
               PROVE  SameWal /\ Valid(wals[wal])' = Valid(wals[wal])
    OBVIOUS
  <2>1. SameWal /\ wal' = wal /\ wals'[wal] = wals[wal]
    BY SameWalBack
  <2>2. wals'[wal'] = wals[wal]
    BY <2>1
  <2> QED
    BY <2>1, <2>2 DEF Valid
<1>7. SameMain' /\ journal # << >> /\ journal' = << >> => mains'[main'].pages \in seen'
  <2> SUFFICES ASSUME SameMain', journal # << >>, journal' = << >>
               PROVE  mains'[main'].pages \in seen'
    OBVIOUS
  <2>1. mains'[main].mtime # now /\ mains'[main'].pages = mains[main].pages
    BY SameMainBack
  <2>2. db' = mains[main].pages
    BY <1>1, <2>1 DEF Effect, JournalKept
  <2> QED
    BY <1>3, <2>1, <2>2
<1> QED
  BY <1>2, <1>3, <1>4, <1>5, <1>6, <1>7 DEF FamilyInv

LEMMA LiveAgent ==
    ASSUME DiskInv, LiveInv, Agent, path = "live"
    PROVE  LiveInv'
<1>1. Acts /\ Effect
  BY AgentEffect
<1>2. UNCHANGED <<pc, at, out, pin, copy>>
  BY <1>1, ActsFacts DEF reader
<1>3. seen \subseteq seen'
  BY <1>1 DEF Effect
<1>4. SameMain' => SameMain /\ main' = main /\ mains'[main'] = mains[main]
  BY SameMainBack
<1>5. SameMain => main = pin.inode
  BY DEF SameMain, Fingerprint
<1>6. ASSUME pc = "live", at >= Begin, SameMain', journal' = << >> PROVE journal = << >>
  <2>1. Locked
    BY <1>4, <1>5, <1>6 DEF Locked
  <2> QED
    BY <1>1, <1>6, <2>1 DEF Effect, JournalKept
<1>7. ASSUME out = "ok"
      PROVE  /\ mains'[pin.inode].pages = copy
             /\ main' = pin.inode => ~mains'[main'].wal
  <2>1. pin.inode \in DOMAIN mains /\ mains[pin.inode].pages = copy
    BY <1>7, DiskFacts DEF LiveInv, DiskInv, ReaderTypes
  <2>2. CASE main = pin.inode
    <3>1. Locked /\ ~mains[main].wal
      BY <1>7, <2>2 DEF Locked, LiveInv
    <3>2. mains'[main] = mains[main]
      BY <1>1, <2>1, <2>2, <3>1 DEF Effect, JournalKept
    <3> QED
      BY <2>1, <2>2, <3>1, <3>2
  <2>3. CASE main # pin.inode
    <3>1. mains'[pin.inode] = mains[pin.inode]
      BY <1>1, <2>1, <2>3 DEF Effect, MainsKept
    <3>2. main' # pin.inode
      BY <1>1, <2>1, <2>3, DiskFacts DEF Effect, MainsKept
    <3> QED
      BY <2>1, <3>1, <3>2
  <2> QED
    BY <2>2, <2>3
<1> QED
  BY <1>2, <1>3, <1>4, <1>6, <1>7 DEF LiveInv

(* What the committed frames make of the clone is the state last committed. *)
LEMMA CloneGrows ==
    ASSUME DiskInv, DiskInv', wal # 0, wal' = wal, main' = main, WalGrows, copy' = copy,
           Covers(copy, wals[wal].frames, mx, db)
    PROVE  Covers(copy, wals'[wal].frames, mx', db')
<1> DEFINE F == wals[wal].frames
           G == wals'[wal].frames
           P == mains[main].pages
<1>1. /\ F \in Seq(FrameSet) /\ db \in Seq(Val) /\ P \in Seq(Val) /\ copy \in Seq(Val)
      /\ mx \in Nat /\ mx <= Len(F) /\ Commits(F, mx) /\ Covers(P, F, mx, db)
  <2>1. mx \in Nat /\ pending \in Nat /\ mx + pending <= Len(F) /\ copy \in Seq(Val)
    BY DEF DiskInv, DiskTypes, Database, ReaderTypes
  <2>2. F \in Seq(FrameSet) /\ db \in Seq(Val) /\ P \in Seq(Val) /\ Len(F) \in Nat
    BY DiskFacts
  <2>3. Commits(F, mx) /\ Covers(P, F, mx, db)
    BY DEF DiskInv, Database
  <2> QED
    BY <2>1, <2>2, <2>3
<1>2. /\ G \in Seq(FrameSet) /\ mx' \in Nat /\ mx' <= Len(G) /\ db' \in Seq(Val)
      /\ Covers(mains'[main].pages, G, mx', db')
  <2>1. /\ wals' \in Seq(WalFile) /\ wal' \in 1..Len(wals') /\ db' \in Seq(Val)
        /\ mx' \in Nat /\ pending' \in Nat
    BY DiskFacts, SMTT(30) DEF DiskInv, DiskTypes
  <2>2. wals'[wal'] \in WalFile
    BY <2>1
  <2>3. mx' + pending' <= Len(G) /\ Covers(mains'[main].pages, G, mx', db')
    BY DEF DiskInv, Database
  <2>4. G \in Seq(FrameSet)
    BY <2>2 DEF WalFile
  <2> QED
    BY <2>1, <2>3, <2>4
<1>3. /\ Len(G) >= Len(F) /\ \A i \in 1..mx : G[i] = F[i]
      /\ \/ mx' = mx /\ db' = db
         \/ /\ mx' \in mx + 1..Len(G) /\ mains' = mains
            /\ \A q \in Len(db) + 1..G[mx'].size : \E i \in mx + 1..mx' : G[i].page = q
  BY DEF WalGrows
<1>4. Covers(copy, G, mx, db) /\ Covers(P, G, mx, db) /\ Commits(G, mx)
  <2>1. \A i \in 1..mx : F[i] = G[i]
    BY <1>3
  <2> HIDE DEF F, G, P
  <2>2. Covers(copy, F, mx, db)
    BY DEF F
  <2> QED
    BY <1>1, <2>1, <2>2, CoversSame, CommitsSame
<1>5. CASE mx' = mx /\ db' = db
  BY <1>4, <1>5
<1>6. CASE /\ mx' \in mx + 1..Len(G) /\ mains' = mains
           /\ \A q \in Len(db) + 1..G[mx'].size : \E i \in mx + 1..mx' : G[i].page = q
  <2>1. Covers(P, G, mx', db')
    BY <1>2, <1>6
  <2>2. mx \in 0..Len(G) /\ (mx = 0 \/ G[mx].size > 0)
    BY <1>1, <1>2, <1>4, <1>6 DEF Commits
  <2> HIDE DEF F, G, P
  <2>3. Covers(copy, G, mx', db')
    BY <1>1, <1>2, <1>4, <1>6, <2>1, <2>2, CommitCovers
  <2> QED
    BY <2>3 DEF G
<1> QED
  BY <1>3, <1>5, <1>6

LEMMA Between ==
    ASSUME NEW a \in Nat, NEW b \in Nat, NEW m \in Int, a < m, m < b
    PROVE  m \in a + 1..b - 1 /\ m # 0 /\ b # a
OBVIOUS

LEMMA ReplayedLater ==
    ASSUME DiskInv, DiskInv', wal # 0, wal' = wal, main' = main, WalGrows, seen \subseteq seen',
           UNCHANGED <<pc, pinned, prefix, copy>>, NEW c \in 0..mx, Replayed(c)
    PROVE  c \in 0..mx' /\ Replayed(c)'
<1> DEFINE F == wals[wal].frames
           G == wals'[wal].frames
<1>1. /\ mx \in Nat /\ mx' \in Nat /\ db' \in seen'
  BY DEF DiskInv, DiskTypes, Database
<1>2. /\ Len(G) >= Len(F) /\ \A i \in 1..mx : G[i] = F[i]
      /\ \/ mx' = mx /\ db' = db
         \/ /\ mx' \in mx + 1..Len(G) /\ \A i \in mx + 1..mx' - 1 : G[i].size = 0
  BY DEF WalGrows
<1>3. mx' >= mx
  BY <1>1, <1>2
<1>4. /\ Covers(copy, F, mx, db) /\ Commits(F, c)
      /\ \A m \in c..mx : Commits(F, m) => \E d \in seen : Covers(copy, F, m, d)
  BY DEF Replayed
<1>5. Covers(copy, G, mx', db')
  BY <1>4, CloneGrows
<1> HIDE DEF F, G
<1>6. Commits(G, c)
  <2>1. \A i \in 1..c : F[i] = G[i]
    BY <1>1, <1>2
  <2> QED
    BY <1>4, <2>1, CommitsSame
<1>7. ASSUME NEW m \in c..mx', Commits(G, m) PROVE \E d \in seen' : Covers(copy, G, m, d)
  <2>1. CASE m <= mx
    <3>1. m \in Nat /\ m \in c..mx /\ \A i \in 1..m : F[i] = G[i]
      BY <1>1, <1>2, <2>1
    <3>2. Commits(F, m)
      BY <1>7, <3>1, CommitsSame
    <3>3. PICK d \in seen : Covers(copy, F, m, d)
      BY <1>4, <3>1, <3>2
    <3>4. Covers(copy, G, m, d)
      BY <3>1, <3>3, CoversSame
    <3> QED
      BY <3>3, <3>4
  <2>2. CASE m > mx /\ m < mx'
    <3>1. m \in Int
      BY <1>1
    <3>2. m \in mx + 1..mx' - 1 /\ m # 0 /\ mx' # mx
      BY <1>1, <2>2, <3>1, Between
    <3>3. G[m].size = 0
      BY <1>2, <3>2
    <3> QED
      BY <1>7, <3>2, <3>3 DEF Commits
  <2>3. CASE m = mx'
    BY <1>1, <1>5, <2>3
  <2> QED
    BY <1>1, <2>1, <2>2, <2>3
<1>8. c \in 0..mx'
  BY <1>1, <1>3
<1>9. /\ pc' \in {"validate", "copy", "accept"} => c <= pinned'.size
      /\ pc' \in {"copy", "accept"} => c <= Len(prefix')
  BY DEF Replayed
<1>11. ASSUME pc' \in {"validate", "copy", "accept"}, NEW k \in DOMAIN prefix', k <= c
       PROVE  prefix'[k] = G[k]
  <2>1. prefix' = prefix /\ prefix \in Seq(FrameSet) /\ pc' = pc
    BY DEF DiskInv, ReaderTypes
  <2>2. k \in 1..Len(prefix) /\ Len(prefix) \in Nat
    BY <1>11, <2>1
  <2>3. k \in 1..mx
    BY <1>1, <1>11, <2>2
  <2>4. prefix[k] = F[k]
    BY <1>11, <2>1 DEF Replayed, F
  <2> QED
    BY <1>2, <2>1, <2>3, <2>4
<1>10. wals'[wal'].frames = G
  BY DEF G
<1> QED
  BY <1>5, <1>6, <1>7, <1>8, <1>9, <1>10, <1>11 DEF Replayed

LEMMA CowAgent ==
    ASSUME DiskInv, CowInv, Agent
    PROVE  CowInv'
<1>1. Acts /\ Effect /\ DiskInv'
  BY AgentEffect, AgentDisk
<1>2. UNCHANGED <<pc, at, out, pin, pinned, gen, prefix, copy, frames>>
  BY <1>1, ActsFacts DEF reader
<1>3. seen \subseteq seen'
  BY <1>1 DEF Effect
<1>4. Good => Good'
  BY <1>2, <1>3 DEF Good
<1>5. ASSUME pc \in {"header", "stat", "validate", "copy", "accept"}, Linked'
      PROVE  \E c \in 0..mx' : Replayed(c)'
  <2>1. Linked /\ main' = main /\ wal' = wal /\ wal # 0 /\ WalGrows
    BY <1>5, LinkedBack DEF CowInv
  <2>2. PICK c \in 0..mx : Replayed(c)
    BY <1>5, <2>1 DEF CowInv
  <2>3. c \in 0..mx' /\ Replayed(c)'
    BY <1>1, <1>2, <1>3, <2>1, <2>2, ReplayedLater
  <2> QED
    BY <2>3
<1>6. ASSUME pc \in {"validate", "copy", "accept"}, Linked'
      PROVE  \A k \in DOMAIN prefix : /\ prefix[k].gen = gen
                                      /\ prefix[k].size > 0 => k <= mx'
  <2>1. Linked /\ main' = main /\ wal' = wal /\ wal # 0 /\ WalGrows
    BY <1>6, LinkedBack DEF CowInv
  <2>2. mx' >= mx /\ mx \in Nat /\ mx' \in Nat
    <3>1. mx \in Nat /\ mx' \in Nat
      BY <1>1 DEF DiskInv, DiskTypes
    <3>2. mx' = mx \/ mx' \in mx + 1..Len(wals'[wal].frames)
      BY <2>1 DEF WalGrows
    <3> QED
      BY <3>1, <3>2
  <2>3. prefix \in Seq(FrameSet)
    BY DEF DiskInv, ReaderTypes
  <2> QED
    BY <1>6, <2>1, <2>2, <2>3 DEF CowInv
<1>7. ASSUME pc = "accept", Linked', NEW k \in DOMAIN prefix,
             k + 5 <= at, k <= LastCommit(prefix)
      PROVE  prefix[k] = wals'[wal'].frames[k]
  <2>1. Linked /\ main' = main /\ wal' = wal /\ wal # 0 /\ WalGrows
    BY <1>7, LinkedBack DEF CowInv
  <2>2. prefix \in Seq(FrameSet) /\ mx \in Nat
    BY DEF DiskInv, ReaderTypes, DiskTypes
  <2>3. LastCommit(prefix) \in 0..Len(prefix) /\ Commits(prefix, LastCommit(prefix))
        /\ Len(prefix) \in Nat /\ k \in 1..Len(prefix)
    BY <2>2, LastCommitIs
  <2>4. LastCommit(prefix) <= mx
    <3>1. LastCommit(prefix) \in DOMAIN prefix /\ prefix[LastCommit(prefix)].size > 0
      BY <1>7, <2>2, <2>3 DEF Commits
    <3> QED
      BY <1>7, <2>1, <3>1 DEF CowInv
  <2>5. k \in 1..mx
    BY <1>7, <2>2, <2>3, <2>4
  <2>6. wals'[wal'].frames[k] = wals[wal].frames[k]
    BY <2>1, <2>5 DEF WalGrows
  <2>7. prefix[k] = wals[wal].frames[k]
    BY <1>7, <2>1 DEF CowInv
  <2> QED
    BY <2>6, <2>7
<1>8. ASSUME pc = "accept", at >= 1, wal' = pinned.inode PROVE main' = pin.inode
  <2>1. pinned.inode # 0 /\ pinned.inode \in 0..Len(wals)
    BY <1>8 DEF CowInv, DiskInv, ReaderTypes
  <2>2. wal' = wal
    BY <1>1, <1>8, <2>1, DiskFacts DEF Effect, WalsKept
  <2>3. main = pin.inode /\ wal # 0
    BY <1>8, <2>1, <2>2 DEF CowInv
  <2> QED
    BY <1>1, <2>3 DEF Effect, MainsKept
<1>9. ASSUME pc = "accept", wals'[pinned.inode].gen = gen PROVE wals[pinned.inode].gen = gen
  <2>1. pinned.inode # 0 /\ pinned.inode \in 0..Len(wals) /\ gen # now
    BY <1>9, StampsLater DEF CowInv, DiskInv, ReaderTypes
  <2>2. pinned.inode \in DOMAIN wals
    BY <2>1, DiskFacts
  <2> QED
    BY <1>1, <1>9, <2>1, <2>2 DEF Effect, WalsKept
<1>10. /\ pc' \in {"wal", "clone", "header", "stat", "validate", "copy", "accept"} => pin'.inode # 0
       /\ pc' \in {"clone", "header", "stat", "validate", "copy", "accept"} => pinned'.inode # 0
       /\ pc' = "validate" => Len(prefix') = at' /\ at' <= pinned'.size
       /\ pc' = "copy" => Len(frames') = at' /\ at' <= Len(prefix')
       /\ pc' \in {"journal", "main", "wal", "clone", "header", "stat"} => prefix' = << >>
       /\ pc' \in {"journal", "main", "wal", "clone", "header", "stat", "validate"} =>
            frames' = << >>
       /\ pc' \in {"accept", "apply"} => frames' = prefix'
       /\ pc' = "accept" => at' < 2 * (5 + Len(prefix'))
  BY <1>2 DEF CowInv, Checks
<1>11. /\ pc' = "accept" /\ at' >= 5 + Len(prefix') + 2 =>
             (wals'[pinned'.inode].gen = gen' => Good')
       /\ pc' = "accept" /\ at' >= 5 + Len(prefix') + 5 => Good'
       /\ pc' = "apply" => Good'
       /\ out' = "ok" => copy' \in seen'
  BY <1>2, <1>3, <1>4, <1>9 DEF CowInv, Checks
<1> QED
  BY <1>2, <1>5, <1>6, <1>7, <1>8, <1>10, <1>11 DEF CowInv, Checks

-----------------------------------------------------------------------------
(* Steps of the reader *)

LEMMA PathIs ==
    ASSUME ReaderTypes
    PROVE  /\ pc \in Labels.family => path = "family"
           /\ pc \in Labels.cow => path = "cow"
           /\ pc \in Labels.live => path = "live"
           /\ pc # "idle" => out = "none"
           /\ pc = "idle" \/ pc \in Labels[path]
           /\ "idle" \notin Labels[path]
<1>1. /\ path \in {"family", "cow", "live"} /\ (pc = "idle" \/ pc \in Labels[path])
      /\ out = "none" <=> pc # "idle"
  BY DEF ReaderTypes, Path
<1>2. CASE path = "family"
  <2>1. Labels[path] = Labels.family
    BY <1>2 DEF Labels
  <2> QED
    BY <1>1, <1>2, <2>1 DEF Labels
<1>3. CASE path = "cow"
  <2>1. Labels[path] = Labels.cow
    BY <1>3 DEF Labels
  <2> QED
    BY <1>1, <1>3, <2>1 DEF Labels
<1>4. CASE path = "live"
  <2>1. Labels[path] = Labels.live
    BY <1>4 DEF Labels
  <2> QED
    BY <1>1, <1>4, <2>1 DEF Labels
<1> QED
  BY <1>1, <1>2, <1>3, <1>4

LEMMA ReadDisk ==
    ASSUME DiskInv, Keeps, ReaderTypes', seen' = seen \/ seen' = {db}, dirty' \in BOOLEAN,
           pin'.mtime <= writes, pinned'.mtime <= writes, gen' <= writes
    PROVE  DiskInv'
<1>1. UNCHANGED <<mains, main, wals, wal, journal, mx, pending, alive, db, writes>>
  BY DEF Keeps, disk
<1>2. seen' \subseteq Seq(Val) /\ db \in seen'
  BY DEF DiskInv, DiskTypes, Database
<1>3. DiskTypes'
  BY <1>1, <1>2 DEF DiskInv, DiskTypes
<1>4. Stamps'
  BY <1>1 DEF DiskInv, Stamps
<1>5. Database'
  BY <1>1, <1>2 DEF DiskInv, Database, Follows
<1> QED
  BY <1>3, <1>4, <1>5 DEF DiskInv

LEMMA GoDisk ==
    ASSUME DiskInv, Keeps, late' = late, pc # "idle",
           NEW label \in Labels[path], NEW n \in Nat, Go(label, n),
           pin' = pin \/ (/\ pin' \in Stamp /\ pin'.inode \in 0..Len(mains)
                          /\ pin'.mtime <= writes),
           pinned' = pinned \/ (/\ pinned' \in Stamp /\ pinned'.inode \in 0..Len(wals)
                                /\ pinned'.mtime <= writes),
           gen' = gen \/ (gen' \in -1..MaxWrites /\ gen' <= writes),
           prefix' \in Seq(FrameSet), frames' \in Seq(FrameSet), copy' \in Seq(Val)
    PROVE  DiskInv' /\ attempt' = attempt /\ out' = out /\ out' = "none" /\ pc' = label
<1>1. /\ pc' = label /\ at' = n /\ UNCHANGED <<attempt, out, seen, dirty, path, mains, wals>>
  BY DEF Go, Keeps, disk
<1>2. out = "none" /\ label # "idle"
  BY PathIs DEF DiskInv
<1>3. pin' \in Stamp /\ pin'.inode \in 0..Len(mains') /\ pin'.mtime <= writes
  BY <1>1 DEF DiskInv, ReaderTypes, Stamps
<1>4. pinned' \in Stamp /\ pinned'.inode \in 0..Len(wals') /\ pinned'.mtime <= writes
  BY <1>1 DEF DiskInv, ReaderTypes, Stamps
<1>5. gen' \in -1..MaxWrites /\ gen' <= writes
  BY DEF DiskInv, ReaderTypes, Stamps
<1>6. ReaderTypes'
  BY <1>1, <1>2, <1>3, <1>4, <1>5 DEF DiskInv, ReaderTypes
<1>7. dirty' \in BOOLEAN
  BY <1>1 DEF DiskInv, DiskTypes
<1> QED
  BY <1>1, <1>2, <1>3, <1>4, <1>5, <1>6, <1>7, ReadDisk

LEMMA FingerprintTypes ==
    ASSUME DiskInv
    PROVE  /\ Fingerprint(main) \in Stamp /\ Fingerprint(main).inode \in 1..Len(mains)
           /\ Fingerprint(main).mtime <= writes
           /\ \A i \in 0..Len(wals) :
                 /\ WalFingerprint(i) \in Stamp /\ WalFingerprint(i).inode = i
                 /\ WalFingerprint(i).mtime <= writes
<1>1. /\ main \in 1..Len(mains) /\ Len(mains[main].pages) \in Nat
      /\ mains[main].mtime \in 0..MaxWrites /\ mains[main].mtime <= writes
  BY DiskFacts DEF DiskInv, Stamps, MainFile
<1>2. ASSUME NEW i \in 1..Len(wals)
      PROVE  /\ Len(wals[i].frames) \in Nat /\ wals[i].ctime \in 0..MaxWrites
             /\ wals[i].ctime <= writes
  <2>1. i \in DOMAIN wals /\ wals[i] \in WalFile
    BY DEF DiskInv, DiskTypes
  <2>2. wals[i].frames \in Seq(FrameSet)
    BY <2>1 DEF WalFile
  <2> QED
    BY <2>1, <2>2 DEF DiskInv, Stamps, WalFile
<1>3. writes \in Nat /\ Len(wals) \in Nat /\ 0 \in 0..MaxWrites
  BY DiskFacts, Bounds
<1>4. ASSUME NEW i \in 0..Len(wals)
      PROVE  /\ WalFingerprint(i) \in Stamp /\ WalFingerprint(i).inode = i
             /\ WalFingerprint(i).mtime <= writes
  <2>1. CASE i = 0
    BY <1>3, <2>1 DEF WalFingerprint, Stamp
  <2>2. CASE i # 0
    <3>1. i \in 1..Len(wals) /\ i \in Nat
      BY <1>3, <2>2
    <3> QED
      BY <1>2, <2>2, <3>1 DEF WalFingerprint, Stamp
  <2> QED
    BY <2>1, <2>2
<1> QED
  BY <1>1, <1>4 DEF Fingerprint, Stamp

LEMMA NothingTypes ==
    /\ NoPin \in Stamp /\ NoPin.inode = 0 /\ NoPin.mtime = 0
    /\ << >> \in Seq(FrameSet) /\ << >> \in Seq(Val) /\ 0 \in -1..MaxWrites
<1>1. 0 \in 0..MaxWrites /\ 0 \in -1..MaxWrites /\ 0 \in Nat
  BY Bounds
<1> QED
  BY <1>1 DEF NoPin, Stamp

(* Nothing is known of the database once a call or an attempt ended.        *)
LEMMA RaiseGivesUp ==
    ASSUME DiskInv, Keeps, late' \in BOOLEAN,
           NEW code \in {"busy", "hot", "liveWal", "limit", "invariant", "locked", "unsafe"},
           Raise(code)
    PROVE  CopyInv' /\ CleanInv' /\ attempt' = attempt /\ out' = code
<1>1. /\ pc' = "idle" /\ out' = code /\ UNCHANGED <<attempt, seen, dirty, path, mains, wals>>
      /\ pin' = NoPin /\ pinned' = NoPin /\ gen' = 0 /\ at' = 0
      /\ prefix' = << >> /\ copy' = << >> /\ frames' = << >>
  BY DEF Raise, Forget, WalFingerprint, NoPin, Keeps, disk
<1>2. /\ NoPin \in Stamp /\ NoPin.inode = 0 /\ NoPin.mtime = 0
      /\ << >> \in Seq(FrameSet) /\ << >> \in Seq(Val) /\ 0 \in -1..MaxWrites
  BY NothingTypes
<1>3. Len(mains) \in Nat /\ Len(wals) \in Nat /\ writes \in Nat /\ dirty \in BOOLEAN
  BY DiskFacts DEF DiskInv, DiskTypes
<1>4. ReaderTypes'
  <2>1. pin'.inode \in 0..Len(mains') /\ pinned'.inode \in 0..Len(wals')
    BY <1>1, <1>2, <1>3
  <2>2. /\ path \in Path /\ attempt \in 1..Attempts /\ (path = "live" => attempt = 1)
    BY DEF DiskInv, ReaderTypes
  <2> QED
    BY <1>1, <1>2, <2>1, <2>2 DEF ReaderTypes
<1>5. DiskInv'
  <2>1. pin'.mtime <= writes /\ pinned'.mtime <= writes /\ gen' <= writes
    BY <1>1, <1>2, <1>3
  <2> QED
    BY <1>1, <1>3, <1>4, <2>1, ReadDisk
<1>6. FamilyInv' /\ CowInv' /\ LiveInv' /\ CleanInv'
  BY <1>1 DEF FamilyInv, CowInv, LiveInv, CleanInv
<1> QED
  BY <1>1, <1>5, <1>6 DEF CopyInv

LEMMA BusyGivesUp ==
    ASSUME DiskInv, Keeps, late' = late, pc # "idle", Busy
    PROVE  CopyInv' /\ CleanInv' /\ out' \in {out, "busy"}
<1>1. CASE Raise("busy")
  <2>1. late' \in BOOLEAN
    BY DEF DiskInv, ReaderTypes
  <2> QED
    BY <1>1, <2>1, RaiseGivesUp
<1>2. CASE /\ path # "live" /\ attempt < Attempts
           /\ attempt' = attempt + 1 /\ pc' = First
           /\ Forget
           /\ seen' = {db} /\ dirty' = FALSE
           /\ UNCHANGED out
  <2>1. /\ UNCHANGED <<out, path, mains, wals, main, wal, journal>>
        /\ pin' = NoPin /\ pinned' = NoPin /\ gen' = 0 /\ at' = 0
        /\ prefix' = << >> /\ copy' = << >> /\ frames' = << >>
    BY <1>2 DEF Forget, WalFingerprint, NoPin, Keeps, disk
  <2>2. /\ NoPin \in Stamp /\ NoPin.inode = 0 /\ NoPin.mtime = 0
        /\ << >> \in Seq(FrameSet) /\ << >> \in Seq(Val) /\ 0 \in -1..MaxWrites
    BY NothingTypes
  <2>3. Len(mains) \in Nat /\ Len(wals) \in Nat /\ writes \in Nat
    BY DiskFacts
  <2>4. out = "none" /\ path \in Path /\ path # "live"
    BY <1>2, PathIs DEF DiskInv, ReaderTypes
  <2>5. \/ path = "family" /\ pc' = "before" /\ pc' \in Labels[path]
        \/ path = "cow" /\ pc' = "journal" /\ pc' \in Labels[path]
    BY <1>2, <2>4 DEF First, Path, Labels
  <2>6. attempt' \in 1..Attempts
    <3>1. attempt \in 1..Attempts /\ Attempts \in Nat
      BY CopyAssumption DEF DiskInv, ReaderTypes
    <3> QED
      BY <1>2, <3>1
  <2>7. ReaderTypes'
    <3>1. pin'.inode \in 0..Len(mains') /\ pinned'.inode \in 0..Len(wals')
      BY <2>1, <2>2, <2>3
    <3>2. late' \in BOOLEAN
      BY DEF DiskInv, ReaderTypes
    <3> QED
      BY <2>1, <2>2, <2>4, <2>5, <2>6, <3>1, <3>2 DEF ReaderTypes
  <2>8. DiskInv'
    <3>1. pin'.mtime <= writes /\ pinned'.mtime <= writes /\ gen' <= writes
      BY <2>1, <2>2, <2>3
    <3> QED
      BY <1>2, <2>7, <3>1, ReadDisk
  <2>9. (path = "family" => FamilyInv') /\ (path = "cow" => CowInv') /\ CleanInv'
    <3>1. out' # "ok" /\ at' = 0 /\ frames' = << >> /\ prefix' = << >>
      BY <2>1, <2>4
    <3>2. path = "family" => FamilyInv'
      BY <2>5, <3>1 DEF FamilyInv
    <3>3. path = "cow" => CowInv'
      BY <2>5, <3>1 DEF CowInv
    <3>4. CleanInv'
      BY <2>5, <3>1 DEF CleanInv
    <3> QED
      BY <3>2, <3>3, <3>4
  <2> QED
    BY <2>1, <2>4, <2>8, <2>9 DEF CopyInv
<1> QED
  BY <1>1, <1>2 DEF Busy

LEMMA GiveUp ==
    ASSUME DiskInv, Keeps, late' = late, pc # "idle", GivesUp
    PROVE  /\ CopyInv' /\ CleanInv'
           /\ \/ attempt' = attempt /\ out' \in {"hot", "liveWal", "limit"}
              \/ Cause
<1>1. late' \in BOOLEAN
  BY DEF DiskInv, ReaderTypes
<1>2. CASE Raise("hot") \/ Raise("liveWal") \/ Raise("limit")
  BY <1>1, <1>2, RaiseGivesUp
<1>3. CASE Cause /\ (Raise("busy") \/ Raise("locked") \/ Raise("invariant") \/ Raise("unsafe"))
  BY <1>1, <1>3, RaiseGivesUp
<1>4. CASE Cause /\ Busy
  BY <1>4, BusyGivesUp
<1> QED
  BY <1>2, <1>3, <1>4 DEF GivesUp

-----------------------------------------------------------------------------
(* The family *)

LEMMA FamilyBeforeStep ==
    ASSUME CopyInv, CleanInv, Keeps, late' = late, FamilyBefore
    PROVE  GivesUp \/ GoesOn
<1>1. DiskInv /\ path = "family" /\ FamilyInv /\ pc = "before" /\ pc # "idle"
      /\ out = "none" /\ "before" \in Labels[path] /\ "copyMain" \in Labels[path]
  BY PathIs DEF CopyInv, DiskInv, FamilyBefore, Labels
<1>2. UNCHANGED <<mains, main, wals, wal, journal, path, db>>
  BY DEF Keeps, disk
<1>3. prefix \in Seq(FrameSet) /\ frames \in Seq(FrameSet) /\ copy \in Seq(Val)
  BY <1>1 DEF DiskInv, ReaderTypes
<1>4. CASE at = 0 /\ pin' = Fingerprint(main) /\ Go(pc, 1) /\ UNCHANGED <<pinned, gen, Copies>>
  <2>1. UNCHANGED <<prefix, frames, copy, seen, dirty>> /\ at' = 1
    BY <1>4 DEF Copies, Go
  <2>2. Fingerprint(main).inode \in 0..Len(mains)
    BY <1>1, FingerprintTypes, DiskFacts
  <2>3. DiskInv' /\ attempt' = attempt /\ out' = out /\ out' = "none" /\ pc' = "before"
    BY <1>1, <1>3, <1>4, <2>1, <2>2, FingerprintTypes, GoDisk
  <2>4. FamilyInv'
    BY <1>1, <1>2, <2>1, <2>3 DEF FamilyInv
  <2>5. CleanInv'
    BY <1>2, <1>4, <2>1, <2>3 DEF CleanInv, SameMain, Fingerprint
  <2> QED
    BY <1>1, <1>2, <2>3, <2>4, <2>5 DEF GoesOn, CopyInv
<1>5. CASE at = 1 /\ pinned' = WalFingerprint(wal) /\ Go(pc, 2) /\ UNCHANGED <<pin, gen, Copies>>
  <2>1. UNCHANGED <<prefix, frames, copy, seen, dirty>> /\ at' = 2
    BY <1>5 DEF Copies, Go
  <2>2. wal \in 0..Len(wals)
    BY <1>1, DiskFacts
  <2>3. DiskInv' /\ attempt' = attempt /\ out' = out /\ out' = "none" /\ pc' = "before"
    BY <1>1, <1>3, <1>5, <2>1, <2>2, FingerprintTypes, GoDisk
  <2>4. pinned'.inode = wal
    BY <1>1, <1>5, <2>2, FingerprintTypes
  <2>5. wal = 0 /\ journal = << >> => mains[main].pages \in seen
    BY <1>1 DEF DiskInv, Database
  <2>6. FamilyInv'
    BY <1>1, <1>2, <2>1, <2>3, <2>4, <2>5 DEF FamilyInv
  <2>7. CleanInv'
    BY <1>1, <1>2, <1>5, <2>1, <2>3
       DEF CleanInv, SameMain, SameWal, Fingerprint, WalFingerprint
  <2> QED
    BY <1>1, <1>2, <2>3, <2>6, <2>7 DEF GoesOn, CopyInv
<1>6. CASE at = 2 /\ journal = << >> /\ Goto("copyMain") /\ UNCHANGED <<Pinned, Copies>>
  <2>1. UNCHANGED <<pin, pinned, gen, prefix, frames, copy, seen, dirty>> /\ at' = 0
        /\ Go("copyMain", 0)
    BY <1>6 DEF Pinned, Copies, Goto, Go
  <2>2. DiskInv' /\ attempt' = attempt /\ out' = out /\ out' = "none" /\ pc' = "copyMain"
    BY <1>1, <1>3, <2>1, GoDisk
  <2>3. SameMain' = SameMain /\ SameWal' = SameWal
    BY <1>2, <2>1 DEF SameMain, SameWal, Fingerprint, WalFingerprint
  <2>4. FamilyInv'
    BY <1>1, <1>2, <1>6, <2>1, <2>2, <2>3 DEF FamilyInv
  <2>5. CleanInv'
    BY <1>1, <1>2, <1>6, <2>1, <2>2, <2>3 DEF CleanInv
  <2> QED
    BY <1>1, <1>2, <2>2, <2>4, <2>5 DEF GoesOn, CopyInv
<1>7. CASE at = 2 /\ journal # << >> /\ Raise("hot")
  BY <1>7 DEF GivesUp
<1>8. at \in {0, 1, 2}
  BY <1>1 DEF FamilyInv
<1> QED
  <2>1. CASE at = 0
    BY <1>4, <2>1 DEF FamilyBefore
  <2>2. CASE at = 1
    BY <1>5, <2>2 DEF FamilyBefore
  <2>3. CASE at = 2
    BY <1>6, <1>7, <2>3 DEF FamilyBefore
  <2> QED
    BY <1>8, <2>1, <2>2, <2>3

LEMMA FamilyCopyMainStep ==
    ASSUME CopyInv, CleanInv, Keeps, late' = late, FamilyCopyMain
    PROVE  GivesUp \/ GoesOn
<1>1. DiskInv /\ path = "family" /\ FamilyInv /\ pc = "copyMain" /\ pc # "idle"
      /\ out = "none" /\ "copyWal" \in Labels[path]
  BY PathIs DEF CopyInv, DiskInv, FamilyCopyMain, Labels
<1>2. UNCHANGED <<mains, main, wals, wal, journal, path, db>>
  BY DEF Keeps, disk
<1>3. prefix \in Seq(FrameSet) /\ frames \in Seq(FrameSet) /\ mains[main].pages \in Seq(Val)
  BY <1>1, DiskFacts DEF DiskInv, ReaderTypes
<1>4. CASE Fingerprint(main) # pin /\ Busy
  <2>1. dirty
    BY <1>1, <1>4 DEF CleanInv, SameMain
  <2> QED
    BY <1>4, <2>1 DEF GivesUp, Cause
<1>5. CASE Raise("limit")
  BY <1>5 DEF GivesUp
<1>6. CASE /\ Fingerprint(main) = pin /\ copy' = mains[main].pages
           /\ Goto("copyWal") /\ UNCHANGED <<Pinned, prefix, frames>>
  <2>1. UNCHANGED <<pin, pinned, gen, prefix, frames, seen, dirty>> /\ at' = 0
        /\ Go("copyWal", 0)
    BY <1>6 DEF Pinned, Goto, Go
  <2>2. DiskInv' /\ attempt' = attempt /\ out' = out /\ out' = "none" /\ pc' = "copyWal"
    BY <1>1, <1>3, <1>6, <2>1, GoDisk
  <2>3. SameMain' = SameMain /\ SameWal' = SameWal
    BY <1>2, <2>1 DEF SameMain, SameWal, Fingerprint, WalFingerprint
  <2>4. FamilyInv'
    BY <1>1, <1>2, <1>6, <2>1, <2>2, <2>3 DEF FamilyInv
  <2>5. CleanInv'
    BY <1>1, <1>2, <2>1, <2>2, <2>3 DEF CleanInv
  <2> QED
    BY <1>1, <1>2, <2>2, <2>4, <2>5 DEF GoesOn, CopyInv
<1> QED
  BY <1>4, <1>5, <1>6 DEF FamilyCopyMain

LEMMA FamilyCopyWalStep ==
    ASSUME CopyInv, CleanInv, Keeps, late' = late, FamilyCopyWal
    PROVE  GivesUp \/ GoesOn
<1>1. DiskInv /\ path = "family" /\ FamilyInv /\ pc = "copyWal" /\ pc # "idle"
      /\ out = "none" /\ "after" \in Labels[path]
  BY PathIs DEF CopyInv, DiskInv, FamilyCopyWal, Labels
<1>2. UNCHANGED <<mains, main, wals, wal, journal, path, db>>
  BY DEF Keeps, disk
<1>3. /\ prefix \in Seq(FrameSet) /\ frames \in Seq(FrameSet) /\ copy \in Seq(Val)
      /\ (wal # 0 => Valid(wals[wal]) \in Seq(FrameSet))
  BY <1>1, DiskFacts, ValidIs DEF DiskInv, ReaderTypes
<1>4. CASE pinned.inode # 0 /\ WalFingerprint(wal) # pinned /\ Busy
  <2>1. dirty
    BY <1>1, <1>4 DEF CleanInv, SameWal
  <2> QED
    BY <1>4, <2>1 DEF GivesUp, Cause
<1>5. CASE Raise("limit")
  BY <1>5 DEF GivesUp
<1>6. CASE /\ \/ pinned.inode = 0 /\ frames' = frames
              \/ pinned.inode # 0 /\ SameWal /\ frames' = Valid(wals[wal])
           /\ Goto("after") /\ UNCHANGED <<Pinned, prefix, copy>>
  <2>1. UNCHANGED <<pin, pinned, gen, prefix, copy, seen, dirty>> /\ at' = 0
        /\ Go("after", 0)
    BY <1>6 DEF Pinned, Goto, Go
  <2>2. SameWal /\ pinned.inode # 0 => wal # 0
    BY DEF SameWal, WalFingerprint
  <2>3. frames' \in Seq(FrameSet)
    BY <1>3, <1>6, <2>2
  <2>4. DiskInv' /\ attempt' = attempt /\ out' = out /\ out' = "none" /\ pc' = "after"
    BY <1>1, <1>3, <2>1, <2>3, GoDisk
  <2>5. SameMain' = SameMain /\ SameWal' = SameWal
    BY <1>2, <2>1 DEF SameMain, SameWal, Fingerprint, WalFingerprint
  <2>6. Valid(wals[wal])' = Valid(wals[wal])
    BY <1>2 DEF Valid, Follows
  <2>7. FamilyInv'
    BY <1>1, <1>2, <1>6, <2>1, <2>4, <2>5, <2>6 DEF FamilyInv
  <2>8. CleanInv'
    BY <1>1, <1>2, <2>1, <2>4, <2>5 DEF CleanInv
  <2> QED
    BY <1>1, <1>2, <2>4, <2>7, <2>8 DEF GoesOn, CopyInv
<1>7. CASE pinned.inode # 0 /\ wal = 0 /\ Raise("unsafe")
  <2>1. ~SameWal
    BY <1>7 DEF SameWal, WalFingerprint
  <2>2. dirty
    BY <1>1, <1>7, <2>1 DEF CleanInv
  <2> QED
    BY <1>7, <2>2 DEF GivesUp, Cause
<1> QED
  BY <1>4, <1>5, <1>6, <1>7 DEF FamilyCopyWal, SameWal, Copies

(* Between two equal fingerprints of the main file nothing happened to it;  *)
(* if the WAL did not change either, the two belong together.               *)
LEMMA CopiesAreGood ==
    ASSUME DiskInv, FamilyInv, pc = "after", SameMain, pinned.inode # 0 => SameWal
    PROVE  Good
<1>1. copy = mains[main].pages
  BY DEF FamilyInv
<1>2. CASE pinned.inode = 0
  <2>1. frames = << >> /\ copy \in seen
    BY <1>1, <1>2 DEF FamilyInv
  <2>2. LastCommit(frames) = 0
    BY <2>1 DEF LastCommit
  <2> QED
    BY <2>1, <2>2 DEF Good, Apply
<1>3. CASE pinned.inode # 0
  <2>1. wal # 0 /\ frames = Valid(wals[wal])
    BY <1>3 DEF SameWal, WalFingerprint, FamilyInv
  <2>2. Apply(copy, frames) = db
    BY <1>1, <2>1, DatabaseApply DEF DiskInv
  <2> QED
    BY <2>2 DEF Good, DiskInv, Database
<1> QED
  BY <1>2, <1>3

LEMMA FamilyAfterStep ==
    ASSUME CopyInv, CleanInv, Keeps, late' = late, FamilyAfter
    PROVE  GivesUp \/ GoesOn
<1>1. DiskInv /\ path = "family" /\ FamilyInv /\ pc = "after" /\ pc # "idle"
      /\ out = "none" /\ "after" \in Labels[path] /\ "connect" \in Labels[path]
  BY PathIs DEF CopyInv, DiskInv, FamilyAfter, Labels
<1>2. UNCHANGED <<mains, main, wals, wal, journal, path, db>>
  BY DEF Keeps, disk
<1>3. prefix \in Seq(FrameSet) /\ frames \in Seq(FrameSet) /\ copy \in Seq(Val)
  BY <1>1 DEF DiskInv, ReaderTypes
<1>4. ~dirty => SameMain /\ SameWal /\ journal = << >>
  BY <1>1 DEF CleanInv
<1>5. CASE ~(SameMain /\ SameWal /\ journal = << >>) /\ Busy
  <2>1. dirty
    BY <1>4, <1>5
  <2> QED
    BY <1>5, <2>1 DEF GivesUp, Cause
<1>6. CASE /\ at \in {0, 3} => SameMain
           /\ at \in {1, 4} => SameWal
           /\ \/ at \in {0, 1, 2, 3, 4} /\ Go(pc, at + 1)
              \/ at = 5 /\ Go("connect", 0)
           /\ UNCHANGED <<Pinned, Copies>>
  <2>1. UNCHANGED <<pin, pinned, gen, prefix, frames, copy, seen, dirty>>
    BY <1>6 DEF Pinned, Copies, Go
  <2>2. /\ DiskInv' /\ attempt' = attempt /\ out' = out /\ out' = "none"
        /\ \/ at \in {0, 1, 2, 3, 4} /\ pc' = "after" /\ at' = at + 1
           \/ at = 5 /\ pc' = "connect" /\ at' = 0
    <3>1. CASE at \in {0, 1, 2, 3, 4} /\ Go(pc, at + 1)
      <4>1. at + 1 \in Nat /\ at' = at + 1
        BY <3>1 DEF Go
      <4> QED
        BY <1>1, <1>3, <2>1, <3>1, <4>1, GoDisk
    <3>2. CASE at = 5 /\ Go("connect", 0)
      <4>1. at' = 0
        BY <3>2 DEF Go
      <4> QED
        BY <1>1, <1>3, <2>1, <3>2, <4>1, GoDisk
    <3> QED
      BY <1>6, <3>1, <3>2
  <2>3. SameMain' = SameMain /\ SameWal' = SameWal /\ Good' = Good
    BY <1>2, <2>1 DEF SameMain, SameWal, Fingerprint, WalFingerprint, Good
  <2>4. at = 0 => ((pinned.inode # 0 => SameWal) => Good)
    BY <1>1, <1>6, CopiesAreGood
  <2>5. at = 1 => Good
    BY <1>1, <1>6 DEF FamilyInv
  <2>6. at >= 2 => Good
    BY <1>1 DEF FamilyInv
  <2>7. Valid(wals[wal])' = Valid(wals[wal])
    BY <1>2 DEF Valid, Follows
  <2>8. FamilyInv'
    <3>1. at \in {0, 1, 2, 3, 4, 5}
      BY <1>1 DEF FamilyInv
    <3>2. CASE pc' = "after"
      <4>1. at' \in {1, 2, 3, 4, 5} /\ (at' >= 2 => Good)
        BY <2>2, <2>4, <2>5, <2>6, <3>1, <3>2
      <4>2. (pinned.inode # 0 => SameWal) => Good
        BY <2>2, <2>4, <2>5, <2>6, <3>1, <3>2
      <4> QED
        BY <1>1, <1>2, <2>1, <2>2, <2>3, <2>7, <3>2, <4>1, <4>2 DEF FamilyInv
    <3>3. CASE pc' = "connect"
      <4>1. Good
        BY <2>2, <2>6, <3>3
      <4> QED
        BY <2>2, <2>3, <3>3, <4>1 DEF FamilyInv
    <3> QED
      BY <2>2, <3>2, <3>3
  <2>9. CleanInv'
    BY <1>1, <1>2, <2>1, <2>2, <2>3 DEF CleanInv
  <2> QED
    BY <1>1, <1>2, <2>2, <2>8, <2>9 DEF GoesOn, CopyInv
<1>7. at \in {0, 1, 2, 3, 4, 5}
  BY <1>1 DEF FamilyInv
<1> QED
  <2>1. CASE at \in {0, 3}
    <3>1. (~SameMain /\ Busy) \/ (SameMain /\ Go(pc, at + 1) /\ UNCHANGED <<Pinned, Copies>>)
      <4>1. at \notin {1, 4} /\ at \notin {2, 5}
        BY <2>1
      <4>2. IF Fingerprint(main) # pin THEN Busy
            ELSE Go(pc, at + 1) /\ UNCHANGED <<Pinned, Copies>>
        BY <2>1, <4>1 DEF FamilyAfter
      <4> QED
        BY <4>2 DEF SameMain
    <3> QED
      BY <1>5, <1>6, <2>1, <3>1
  <2>2. CASE at \in {1, 4}
    <3>1. (~SameWal /\ Busy) \/ (SameWal /\ Go(pc, at + 1) /\ UNCHANGED <<Pinned, Copies>>)
      <4>1. at \notin {0, 3} /\ at \notin {2, 5}
        BY <2>2
      <4>2. IF WalFingerprint(wal) # pinned THEN Busy
            ELSE Go(pc, at + 1) /\ UNCHANGED <<Pinned, Copies>>
        BY <2>2, <4>1 DEF FamilyAfter
      <4> QED
        BY <4>2 DEF SameWal
    <3> QED
      BY <1>5, <1>6, <2>2, <3>1
  <2>3. CASE at \in {2, 5}
    <3>1. \/ journal # << >> /\ Busy
          \/ at = 2 /\ Go(pc, at + 1) /\ UNCHANGED <<Pinned, Copies>>
          \/ at = 5 /\ Go("connect", 0) /\ UNCHANGED <<Pinned, Copies>>
      <4>1. at \notin {0, 3} /\ at \notin {1, 4}
        BY <2>3
      <4>2. IF journal # << >> THEN Busy
            ELSE IF at = 2 THEN Go(pc, 3) /\ UNCHANGED <<Pinned, Copies>>
            ELSE Goto("connect") /\ UNCHANGED <<Pinned, Copies>>
        BY <2>3, <4>1 DEF FamilyAfter
      <4>3. at = 2 => 3 = at + 1
        OBVIOUS
      <4> QED
        BY <2>3, <4>2, <4>3 DEF Goto
    <3> QED
      BY <1>5, <1>6, <2>3, <3>1
  <2> QED
    BY <1>7, <2>1, <2>2, <2>3

LEMMA ConnectStep ==
    ASSUME DiskInv, CleanInv, Keeps, late' = late, pc # "idle", Good,
           path \in {"family", "cow"}, copy' = Apply(copy, frames), pc' = "idle", out' = "ok",
           UNCHANGED <<attempt, Pinned, at, prefix, frames, seen, dirty>>
    PROVE  GoesOn
<1>1. copy' \in Seq(Val) /\ copy' \in seen
  BY ApplyCovers DEF Good, DiskInv, ReaderTypes
<1>2. UNCHANGED <<mains, main, wals, wal, journal, path, db, pin, pinned, gen>>
  BY DEF Keeps, disk, Pinned
<1>3. ReaderTypes'
  BY <1>1, <1>2 DEF DiskInv, ReaderTypes
<1>4. DiskInv'
  <2>1. pin'.mtime <= writes /\ pinned'.mtime <= writes /\ gen' <= writes /\ dirty' \in BOOLEAN
    BY <1>2 DEF DiskInv, Stamps, DiskTypes
  <2> QED
    BY <1>3, <2>1, ReadDisk
<1>5. FamilyInv' /\ CowInv' /\ CleanInv'
  BY <1>1 DEF FamilyInv, CowInv, CleanInv
<1> QED
  BY <1>2, <1>4, <1>5 DEF GoesOn, CopyInv

LEMMA FamilyLostStep ==
    ASSUME FamilyLost
    PROVE  GivesUp
BY DEF FamilyLost, GivesUp, Cause

LEMMA FamilyConnectStep ==
    ASSUME CopyInv, CleanInv, Keeps, late' = late, FamilyConnect
    PROVE  GivesUp \/ GoesOn
<1>1. DiskInv /\ path = "family" /\ FamilyInv /\ pc = "connect" /\ pc # "idle"
  BY PathIs DEF CopyInv, DiskInv, FamilyConnect, Labels
<1>2. Good
  BY <1>1 DEF FamilyInv
<1> QED
  BY <1>1, <1>2, ConnectStep DEF FamilyConnect

-----------------------------------------------------------------------------
(* The clone and the prefix of the WAL *)

LEMMA ReplayedStays ==
    ASSUME Keeps, seen' = seen, copy' = copy, NEW c, Replayed(c),
           pc' \in {"validate", "copy", "accept"} => c <= pinned'.size,
           pc' \in {"copy", "accept"} => c <= Len(prefix'),
           pc' \in {"validate", "copy", "accept"} =>
             \A k \in DOMAIN prefix' : k <= c => prefix'[k] = wals[wal].frames[k]
    PROVE  Replayed(c)'
<1>1. UNCHANGED <<wals, wal, mx, db>>
  BY DEF Keeps, disk
<1> QED
  BY <1>1 DEF Replayed

LEMMA CowFacts ==
    ASSUME CopyInv, CleanInv, Keeps, late' = late, pc \in Labels.cow
    PROVE  /\ DiskInv /\ path = "cow" /\ CowInv /\ pc # "idle" /\ out = "none"
           /\ UNCHANGED <<mains, main, wals, wal, journal, path, db, mx, pending>>
           /\ prefix \in Seq(FrameSet) /\ frames \in Seq(FrameSet) /\ copy \in Seq(Val)
           /\ Len(prefix) \in Nat /\ Len(frames) \in Nat /\ at \in Nat
           /\ pin \in Stamp /\ pinned \in Stamp /\ pinned.inode \in 0..Len(wals)
           /\ Labels[path] = Labels.cow
<1>1. DiskInv /\ path = "cow" /\ pc # "idle"
  BY PathIs DEF CopyInv, DiskInv, Labels
<1>2. UNCHANGED <<mains, main, wals, wal, journal, path, db, mx, pending>>
  BY DEF Keeps, disk
<1>3. /\ prefix \in Seq(FrameSet) /\ frames \in Seq(FrameSet) /\ copy \in Seq(Val) /\ at \in Nat
      /\ pin \in Stamp /\ pinned \in Stamp /\ pinned.inode \in 0..Len(wals)
  BY <1>1 DEF DiskInv, ReaderTypes
<1> QED
  BY <1>1, <1>2, <1>3, PathIs DEF CopyInv, DiskInv

(* A step to another label that leaves what was read alone.                 *)
LEMMA CowGo ==
    ASSUME CopyInv, CleanInv, Keeps, late' = late, pc \in Labels.cow,
           NEW label \in Labels.cow, NEW n \in Nat, Go(label, n), UNCHANGED <<Pinned, Copies>>
    PROVE  /\ DiskInv' /\ attempt' = attempt /\ out' = out /\ out' = "none" /\ pc' = label
           /\ at' = n /\ UNCHANGED <<pin, pinned, gen, prefix, copy, frames, seen, dirty>>
           /\ SameMain' = SameMain /\ SameWal' = SameWal /\ Linked' = Linked /\ Good' = Good
<1>1. UNCHANGED <<pin, pinned, gen, prefix, frames, copy, seen, dirty>> /\ at' = n
  BY DEF Pinned, Copies, Go
<1>2. DiskInv' /\ attempt' = attempt /\ out' = out /\ out' = "none" /\ pc' = label
  BY <1>1, CowFacts, GoDisk
<1>3. SameMain' = SameMain /\ SameWal' = SameWal /\ Linked' = Linked /\ Good' = Good
  BY <1>1, CowFacts DEF SameMain, SameWal, Linked, Good, Fingerprint, WalFingerprint
<1> QED
  BY <1>1, <1>2, <1>3

LEMMA CowJournalStep ==
    ASSUME CopyInv, CleanInv, Keeps, late' = late, CowJournal
    PROVE  GivesUp \/ GoesOn
<1>1. pc = "journal" /\ pc \in Labels.cow /\ "main" \in Labels.cow
  BY DEF CowJournal, Labels
<1>2. CASE Raise("hot")
  BY <1>2 DEF GivesUp
<1>3. CASE journal = << >> /\ Goto("main") /\ UNCHANGED <<Pinned, Copies>>
  <2>1. Go("main", 0)
    BY <1>3 DEF Goto
  <2>2. /\ DiskInv' /\ attempt' = attempt /\ out' = out /\ out' = "none" /\ pc' = "main"
        /\ UNCHANGED <<prefix, frames>>
    BY <1>1, <1>3, <2>1, CowGo
  <2>3. CowInv' /\ CleanInv'
    BY <1>1, <1>3, <2>2, CowFacts DEF CowInv, CleanInv
  <2> QED
    BY <1>1, <2>2, <2>3, CowFacts DEF GoesOn, CopyInv
<1> QED
  BY <1>2, <1>3 DEF CowJournal

LEMMA CowPinMainStep ==
    ASSUME CopyInv, CleanInv, Keeps, late' = late, CowPinMain
    PROVE  GivesUp \/ GoesOn
<1>1. pc = "main" /\ pc \in Labels.cow /\ "wal" \in Labels.cow
  BY DEF CowPinMain, Labels
<1>2. DiskInv /\ path = "cow" /\ CowInv
  BY <1>1, CowFacts
<1>3. /\ pin' = Fingerprint(main) /\ UNCHANGED <<pinned, gen, prefix, copy, frames, seen, dirty>>
      /\ Go("wal", 0)
  BY DEF CowPinMain, Copies, Goto, Go
<1>4. Fingerprint(main).inode \in 0..Len(mains) /\ Fingerprint(main).inode # 0
  BY <1>2, FingerprintTypes, DiskFacts
<1>5. DiskInv' /\ attempt' = attempt /\ out' = out /\ out' = "none" /\ pc' = "wal"
  BY <1>1, <1>3, <1>4, FingerprintTypes, CowFacts, GoDisk
<1>6. SameMain'
  BY <1>1, <1>3, CowFacts DEF SameMain, Fingerprint
<1>7. CowInv'
  BY <1>1, <1>2, <1>3, <1>4, <1>5 DEF CowInv
<1>8. CleanInv'
  BY <1>1, <1>3, <1>5, <1>6, CowFacts DEF CleanInv
<1> QED
  BY <1>1, <1>5, <1>7, <1>8, CowFacts DEF GoesOn, CopyInv

LEMMA CowPinWalStep ==
    ASSUME CopyInv, CleanInv, Keeps, late' = late, CowPinWal
    PROVE  GivesUp \/ GoesOn
<1>1. pc = "wal" /\ pc \in Labels.cow /\ "clone" \in Labels.cow
  BY DEF CowPinWal, Labels
<1>2. DiskInv /\ path = "cow" /\ CowInv
  BY <1>1, CowFacts
<1>3. CASE Raise("liveWal") \/ Raise("limit")
  BY <1>3 DEF GivesUp
<1>4. CASE /\ wal # 0 /\ pinned' = WalFingerprint(wal) /\ gen' = wals[wal].gen
           /\ Goto("clone") /\ UNCHANGED <<pin, Copies>>
  <2>1. UNCHANGED <<pin, prefix, copy, frames, seen, dirty>> /\ Go("clone", 0)
    BY <1>4 DEF Copies, Goto, Go
  <2>2. wal \in 0..Len(wals) /\ wals[wal].gen \in -1..MaxWrites /\ wals[wal].gen <= writes
    BY <1>2, <1>4, DiskFacts DEF DiskInv, Stamps, WalFile
  <2>3. pinned'.inode = wal
    BY <1>2, <1>4, <2>2, FingerprintTypes
  <2>4. DiskInv' /\ attempt' = attempt /\ out' = out /\ out' = "none" /\ pc' = "clone"
    BY <1>1, <1>4, <2>1, <2>2, FingerprintTypes, CowFacts, GoDisk
  <2>5. SameMain' = SameMain
    BY <1>1, <2>1, CowFacts DEF SameMain, Fingerprint
  <2>6. CowInv'
    BY <1>1, <1>2, <1>4, <2>1, <2>3, <2>4 DEF CowInv
  <2>7. CleanInv'
    BY <1>1, <1>4, <2>1, <2>3, <2>4, <2>5, CowFacts DEF CleanInv
  <2> QED
    BY <1>1, <2>4, <2>6, <2>7, CowFacts DEF GoesOn, CopyInv
<1> QED
  BY <1>3, <1>4 DEF CowPinWal

LEMMA CowCloneStep ==
    ASSUME CopyInv, CleanInv, Keeps, late' = late, CowClone
    PROVE  GivesUp \/ GoesOn
<1>1. pc = "clone" /\ pc \in Labels.cow /\ "header" \in Labels.cow
  BY DEF CowClone, Labels
<1>2. DiskInv /\ path = "cow" /\ CowInv
  BY <1>1, CowFacts
<1>3. CASE Raise("liveWal")
  BY <1>3 DEF GivesUp
<1>4. CASE Len(mains[pin.inode].pages) # pin.size /\ Raise("invariant")
  <2>1. SameMain => pin.inode = main /\ pin.size = Len(mains[main].pages)
    BY DEF SameMain, Fingerprint
  <2>2. dirty
    BY <1>1, <1>4, <2>1 DEF CleanInv
  <2> QED
    BY <1>4, <2>2 DEF GivesUp, Cause
<1>5. CASE /\ copy' = mains[pin.inode].pages
           /\ Goto("header") /\ UNCHANGED <<Pinned, prefix, frames>>
  <2>1. UNCHANGED <<pin, pinned, gen, prefix, frames, seen, dirty>> /\ Go("header", 0)
    BY <1>5 DEF Pinned, Goto, Go
  <2>2. copy' \in Seq(Val)
    <3>1. pin.inode \in DOMAIN mains
      BY <1>1, <1>2, DiskFacts DEF CowInv, DiskInv, ReaderTypes
    <3>2. mains[pin.inode] \in MainFile
      BY <1>2, <3>1 DEF DiskInv, DiskTypes
    <3> QED
      BY <1>5, <3>2 DEF MainFile
  <2>3. DiskInv' /\ attempt' = attempt /\ out' = out /\ out' = "none" /\ pc' = "header"
    BY <1>1, <2>1, <2>2, CowFacts, GoDisk
  <2>4. SameMain' = SameMain /\ Linked' = Linked
    BY <1>1, <2>1, CowFacts DEF SameMain, Linked, Fingerprint
  <2>5. Linked => mx \in 0..mx /\ Replayed(mx)'
    <3> SUFFICES ASSUME Linked PROVE mx \in 0..mx /\ Replayed(mx)'
      OBVIOUS
    <3>1. wal # 0 /\ copy' = mains[main].pages /\ mx \in Nat
      BY <1>1, <1>2, <1>5 DEF Linked, CowInv, DiskInv, DiskTypes
    <3>2. Covers(copy', wals[wal].frames, mx, db) /\ Commits(wals[wal].frames, mx) /\ db \in seen
      BY <1>2, <3>1 DEF DiskInv, Database
    <3>3. \A m \in mx..mx : m = mx
      BY <3>1
    <3> QED
      BY <1>1, <2>1, <2>3, <3>1, <3>2, <3>3, CowFacts DEF Replayed
  <2>6. CowInv'
    BY <1>1, <1>2, <2>1, <2>3, <2>4, <2>5, CowFacts DEF CowInv
  <2>7. CleanInv'
    BY <1>1, <2>1, <2>3, <2>4, CowFacts DEF CleanInv
  <2> QED
    BY <1>1, <2>3, <2>6, <2>7, CowFacts DEF GoesOn, CopyInv
<1> QED
  BY <1>3, <1>4, <1>5 DEF CowClone

LEMMA CowHeaderStep ==
    ASSUME CopyInv, CleanInv, Keeps, late' = late, CowHeader
    PROVE  GivesUp \/ GoesOn
<1>1. pc = "header" /\ pc \in Labels.cow /\ "stat" \in Labels.cow
  BY DEF CowHeader, Labels
<1>2. DiskInv /\ path = "cow" /\ CowInv
  BY <1>1, CowFacts
<1>3. CASE wals[pinned.inode].gen # gen /\ Busy
  <2>1. dirty
    BY <1>1, <1>3 DEF CleanInv
  <2> QED
    BY <1>3, <2>1 DEF GivesUp, Cause
<1>4. CASE Goto("stat") /\ UNCHANGED <<Pinned, Copies>>
  <2>1. Go("stat", 0)
    BY <1>4 DEF Goto
  <2>2. /\ DiskInv' /\ attempt' = attempt /\ out' = out /\ out' = "none" /\ pc' = "stat"
        /\ UNCHANGED <<pin, pinned, gen, prefix, copy, frames, seen, dirty>>
        /\ SameMain' = SameMain /\ Linked' = Linked
    BY <1>1, <1>4, <2>1, CowGo
  <2>3. \A c : Replayed(c) => Replayed(c)'
    BY <2>2, ReplayedStays
  <2>4. CowInv'
    BY <1>1, <1>2, <2>2, <2>3, CowFacts DEF CowInv
  <2>5. CleanInv'
    BY <1>1, <2>2, CowFacts DEF CleanInv
  <2> QED
    BY <1>1, <2>2, <2>4, <2>5, CowFacts DEF GoesOn, CopyInv
<1> QED
  BY <1>3, <1>4 DEF CowHeader, Wal

LEMMA CowStatStep ==
    ASSUME CopyInv, CleanInv, Keeps, late' = late, CowStat
    PROVE  GivesUp \/ GoesOn
<1>1. pc = "stat" /\ pc \in Labels.cow /\ "validate" \in Labels.cow
  BY DEF CowStat, Labels
<1>2. DiskInv /\ path = "cow" /\ CowInv
  BY <1>1, CowFacts
<1>3. CASE Raise("limit")
  BY <1>3 DEF GivesUp
<1>4. CASE /\ pinned' = WalFingerprint(pinned.inode)
           /\ Goto("validate") /\ UNCHANGED <<pin, gen, Copies>>
  <2>1. UNCHANGED <<pin, gen, prefix, copy, frames, seen, dirty>> /\ Go("validate", 0) /\ at' = 0
    BY <1>4 DEF Copies, Goto, Go
  <2>2. /\ pinned' \in Stamp /\ pinned'.inode = pinned.inode
        /\ pinned'.inode \in 0..Len(wals) /\ pinned'.mtime <= writes
    BY <1>1, <1>2, <1>4, CowFacts, FingerprintTypes
  <2>3. DiskInv' /\ attempt' = attempt /\ out' = out /\ out' = "none" /\ pc' = "validate"
    BY <1>1, <2>1, <2>2, CowFacts, GoDisk
  <2>4. SameMain' = SameMain /\ Linked' = Linked /\ prefix = << >> /\ frames = << >>
    BY <1>1, <1>2, <2>1, <2>2, CowFacts DEF SameMain, Linked, Fingerprint, CowInv
  <2>5. pinned'.size \in Nat /\ Len(prefix) = 0 /\ DOMAIN prefix = {}
    BY <2>2, <2>4 DEF Stamp
  <2>6. ASSUME Linked, NEW c \in 0..mx, Replayed(c) PROVE Replayed(c)'
    <3>1. wal = pinned.inode /\ wal # 0 /\ mx \in Nat /\ pending \in Nat
      BY <1>1, <1>2, <2>6 DEF Linked, CowInv, DiskInv, DiskTypes
    <3>2. pinned'.size = Len(wals[wal].frames)
      BY <1>4, <3>1 DEF WalFingerprint
    <3>3. mx + pending <= Len(wals[wal].frames)
      BY <1>2, <3>1 DEF DiskInv, Database
    <3>4. c <= pinned'.size
      BY <2>5, <3>1, <3>2, <3>3
    <3> QED
      BY <2>1, <2>3, <2>5, <2>6, <3>4, ReplayedStays
  <2>7. CowInv'
    BY <1>1, <1>2, <2>1, <2>2, <2>3, <2>4, <2>5, <2>6, CowFacts DEF CowInv
  <2>8. CleanInv'
    <3>1. ASSUME ~dirty PROVE SameWal' /\ wal = pinned'.inode /\ 0 <= Len(wals[wal].frames)
      <4>1. wal = pinned.inode /\ wal # 0
        BY <1>1, <1>2, <3>1 DEF CleanInv, CowInv
      <4>2. pinned' = WalFingerprint(wal)'
        BY <1>1, <1>4, <4>1, CowFacts DEF WalFingerprint
      <4>3. Len(wals[wal].frames) \in Nat
        BY <1>2, <4>1, DiskFacts
      <4> QED
        BY <2>2, <4>1, <4>2, <4>3 DEF SameWal
    <3> QED
      BY <1>1, <2>1, <2>2, <2>3, <2>4, <2>5, <3>1, CowFacts DEF CleanInv
  <2> QED
    BY <1>1, <2>3, <2>7, <2>8, CowFacts DEF GoesOn, CopyInv
<1> QED
  BY <1>3, <1>4 DEF CowStat

(* A WAL nobody touches that does not validate cannot be used.              *)
LEMMA StuckIsUnusable ==
    ASSUME CopyInv, CleanInv, Keeps, late' = late, pc = "validate", ~dirty,
           at + 1 <= Len(wals[wal].frames),
           ~(wals[wal].frames[at + 1].gen = wals[wal].gen /\ Follows(wals[wal].frames, at + 1)),
           wals[wal].frames[at + 1].gen = wals[wal].gen \/ LastCommit(prefix) = 0
    PROVE  Unusable
<1> DEFINE w == wals[wal]
           F == w.frames
           V == Valid(w)
<1>1. pc \in Labels.cow
  BY DEF Labels
<1>2. DiskInv /\ CowInv /\ prefix \in Seq(FrameSet) /\ at \in Nat
  BY <1>1, CowFacts
<1>3. /\ wal = pinned.inode /\ w.gen = gen /\ Len(prefix) = at
      /\ \A k \in DOMAIN prefix : prefix[k] = F[k] /\ F[k].gen = gen /\ Follows(F, k)
      /\ pinned.inode # 0
  BY <1>2 DEF CleanInv, CowInv
<1>4. w \in WalFile /\ Len(F) \in Nat
  BY <1>2, <1>3, DiskFacts
<1>5. /\ V \in Seq(FrameSet) /\ Len(V) \in 0..Len(F)
      /\ \A i \in 1..Len(V) : V[i] = F[i] /\ F[i].gen = w.gen /\ Follows(F, i)
      /\ Len(V) < Len(F) => ~(F[Len(V) + 1].gen = w.gen /\ Follows(F, Len(V) + 1))
  BY <1>4, ValidIs
<1>6. at + 1 <= Len(F) /\ ~(F[at + 1].gen = w.gen /\ Follows(F, at + 1))
      /\ (F[at + 1].gen = w.gen \/ LastCommit(prefix) = 0)
  OBVIOUS
<1>7. \A k \in 1..at : prefix[k] = F[k] /\ F[k].gen = w.gen /\ Follows(F, k)
  BY <1>2, <1>3
<1> HIDE DEF w, F, V
<1>8. Len(V) = at
  <2>1. Len(V) \in Nat
    BY <1>4, <1>5
  <2>2. ~(Len(V) < at)
    <3> SUFFICES ASSUME Len(V) < at PROVE FALSE
      OBVIOUS
    <3>1. Len(V) + 1 \in 1..at /\ Len(V) < Len(F)
      BY <1>2, <1>4, <1>6, <2>1
    <3> QED
      BY <1>5, <1>7, <3>1
  <2>3. ~(Len(V) > at)
    <3> SUFFICES ASSUME Len(V) > at PROVE FALSE
      OBVIOUS
    <3>1. at + 1 \in 1..Len(V)
      BY <1>2, <2>1
    <3> QED
      BY <1>5, <1>6, <3>1
  <2> QED
    BY <1>2, <2>1, <2>2, <2>3
<1>9. V = prefix
  <2>1. \A k \in 1..Len(V) : V[k] = prefix[k]
    BY <1>5, <1>7, <1>8
  <2> QED
    BY <1>2, <1>3, <1>5, <1>8, <2>1, SeqEqual
<1>10. wal # 0
  BY <1>3
<1> QED
  BY <1>6, <1>8, <1>9, <1>10 DEF Unusable, V, F, w

LEMMA CowValidateStep ==
    ASSUME CopyInv, CleanInv, Keeps, late' = late, CowValidate
    PROVE  GivesUp \/ GoesOn
<1> DEFINE k == at + 1
           F == wals[pinned.inode].frames
<1>1. pc = "validate" /\ pc \in Labels.cow /\ "validate" \in Labels.cow /\ "copy" \in Labels.cow
  BY DEF CowValidate, Labels
<1>2. DiskInv /\ path = "cow" /\ CowInv
  BY <1>1, CowFacts
<1>3. /\ Len(prefix) = at /\ at <= pinned.size /\ pinned.size \in Nat /\ pinned.inode # 0
      /\ frames = << >> /\ at \in Nat /\ prefix \in Seq(FrameSet) /\ mx \in Nat /\ pending \in Nat
  BY <1>1, <1>2, CowFacts DEF CowInv, Stamp, DiskInv, DiskTypes
<1>4. F \in Seq(FrameSet) /\ Len(F) \in Nat
  <2>1. pinned.inode \in DOMAIN wals
    BY <1>1, <1>3, CowFacts, DiskFacts
  <2>2. wals[pinned.inode] \in WalFile
    BY <1>2, <2>1 DEF DiskInv, DiskTypes
  <2> QED
    BY <2>2 DEF WalFile
<1>5. ~dirty => /\ wal = pinned.inode /\ wals[wal].gen = gen /\ pinned.size = Len(F)
                /\ \A j \in DOMAIN prefix : prefix[j] = F[j]
  <2> SUFFICES ASSUME ~dirty
               PROVE  /\ wal = pinned.inode /\ wals[wal].gen = gen /\ pinned.size = Len(F)
                      /\ \A j \in DOMAIN prefix : prefix[j] = F[j]
    OBVIOUS
  <2>1. /\ wal = pinned.inode /\ wals[wal].gen = gen /\ SameWal
        /\ \A j \in DOMAIN prefix : prefix[j] = wals[wal].frames[j]
    BY <1>1 DEF CleanInv
  <2> QED
    BY <1>3, <2>1 DEF SameWal, WalFingerprint
<1>6. CASE at # pinned.size /\ k > Len(F) /\ Busy
  <2>1. dirty
    BY <1>3, <1>4, <1>5, <1>6
  <2> QED
    BY <1>6, <2>1 DEF GivesUp, Cause
<1>7. CASE k <= Len(F) /\ F[k].gen # wals[pinned.inode].gen /\ LastCommit(prefix) = 0 /\ Busy
  <2>1. ~dirty => Unusable
    BY <1>1, <1>5, <1>7, StuckIsUnusable
  <2> QED
    BY <1>2, <1>7, <2>1 DEF GivesUp, Cause
<1>8. CASE /\ k <= Len(F) /\ F[k].gen = wals[pinned.inode].gen
           /\ F[k].prev # (IF k = 1 THEN NoFrame ELSE Id(prefix[k - 1])) /\ Busy
  <2>1. ASSUME ~dirty PROVE ~Follows(F, k)
    <3>1. k # 1 => k - 1 \in DOMAIN prefix /\ prefix[k - 1] = F[k - 1]
      BY <1>3, <1>5, <2>1
    <3> QED
      BY <1>8, <3>1 DEF Follows
  <2>2. ~dirty => Unusable
    BY <1>1, <1>5, <1>8, <2>1, StuckIsUnusable
  <2> QED
    BY <1>2, <1>8, <2>2 DEF GivesUp, Cause
<1>9. CASE /\ \/ at = pinned.size
              \/ k <= Len(F) /\ F[k].gen # wals[pinned.inode].gen
           /\ Goto("copy") /\ UNCHANGED <<Pinned, Copies>>
  <2>1. Go("copy", 0)
    BY <1>9 DEF Goto
  <2>2. /\ DiskInv' /\ attempt' = attempt /\ out' = out /\ out' = "none" /\ pc' = "copy"
        /\ UNCHANGED <<pin, pinned, gen, prefix, copy, frames, seen, dirty>> /\ at' = 0
        /\ SameMain' = SameMain /\ SameWal' = SameWal /\ Linked' = Linked
    BY <1>1, <1>9, <2>1, CowGo
  <2>3. ASSUME Linked, NEW c \in 0..mx, Replayed(c) PROVE Replayed(c)'
    <3>1. c <= pinned.size /\ c \in Nat
          /\ \A j \in DOMAIN prefix : j <= c => prefix[j] = wals[wal].frames[j]
      BY <1>1, <1>3, <2>3 DEF Replayed
    <3>2. c <= Len(prefix)
      <4>1. CASE at = pinned.size
        BY <1>3, <3>1, <4>1
      <4>2. CASE k <= Len(F) /\ F[k].gen # wals[pinned.inode].gen
        <5>1. wal = pinned.inode /\ wal # 0
          BY <1>3, <2>3 DEF Linked
        <5>2. \A i \in 1..mx + pending : F[i].gen = wals[pinned.inode].gen
          BY <1>2, <5>1 DEF DiskInv, Database
        <5>3. ~(k <= mx + pending)
          BY <1>3, <4>2, <5>2
        <5> QED
          BY <1>3, <3>1, <5>3
      <4> QED
        BY <1>9, <4>1, <4>2
    <3> QED
      BY <2>2, <2>3, <3>1, <3>2, ReplayedStays
  <2>4. Len(frames) = 0 /\ DOMAIN frames = {}
    BY <1>3
  <2>5. CowInv'
    BY <1>1, <1>2, <1>3, <2>2, <2>3, <2>4, CowFacts DEF CowInv
  <2>6. CleanInv'
    BY <1>1, <2>2, <2>4, CowFacts DEF CleanInv, Follows
  <2> QED
    BY <1>1, <2>2, <2>5, <2>6, CowFacts DEF GoesOn, CopyInv
<1>10. CASE /\ at # pinned.size /\ k <= Len(F) /\ F[k].gen = wals[pinned.inode].gen
            /\ F[k].prev = (IF k = 1 THEN NoFrame ELSE Id(prefix[k - 1]))
            /\ prefix' = Append(prefix, F[k]) /\ Go(pc, k) /\ UNCHANGED <<Pinned, copy, frames>>
  <2>1. UNCHANGED <<pin, pinned, gen, copy, frames, seen, dirty>> /\ at' = k
    BY <1>10 DEF Pinned, Go
  <2>2. F[k] \in FrameSet /\ k \in Nat /\ k \in 1..Len(F)
    BY <1>3, <1>4, <1>10
  <2>3. /\ prefix' \in Seq(FrameSet) /\ Len(prefix') = k /\ DOMAIN prefix' = 1..k
        /\ \A j \in 1..at : prefix'[j] = prefix[j] /\ j \in DOMAIN prefix
        /\ prefix'[k] = F[k]
    BY <1>3, <1>10, <2>2
  <2>4. DiskInv' /\ attempt' = attempt /\ out' = out /\ out' = "none" /\ pc' = "validate"
    BY <1>1, <1>10, <2>1, <2>2, <2>3, CowFacts, GoDisk
  <2>5. SameMain' = SameMain /\ SameWal' = SameWal /\ Linked' = Linked
    BY <1>1, <2>1, CowFacts DEF SameMain, SameWal, Linked, Fingerprint, WalFingerprint
  <2>6. k <= pinned.size
    BY <1>3, <1>10
  <2>7. ASSUME NEW j \in 1..k PROVE j = k \/ j \in 1..at
    BY <1>3
  <2>8. ASSUME Linked, NEW c \in 0..mx, Replayed(c) PROVE Replayed(c)'
    <3>1. c <= pinned.size /\ \A j \in DOMAIN prefix : j <= c => prefix[j] = wals[wal].frames[j]
      BY <1>1, <2>8 DEF Replayed
    <3>2. wal = pinned.inode
      BY <2>8 DEF Linked
    <3>3. \A j \in DOMAIN prefix' : j <= c => prefix'[j] = wals[wal].frames[j]
      BY <2>3, <2>7, <3>1, <3>2
    <3> QED
      BY <2>1, <2>4, <3>1, <3>3, <2>8, ReplayedStays
  <2>9. ASSUME Linked, NEW j \in DOMAIN prefix'
        PROVE  prefix'[j].gen = gen /\ (prefix'[j].size > 0 => j <= mx)
    <3>1. CASE j = k
      <4>1. wal = pinned.inode /\ wal # 0 /\ wals[wal].gen = gen
        BY <1>3, <2>9 DEF Linked
      <4>2. \A i \in mx + 1..Len(F) : F[i].gen = gen => F[i].size = 0
        BY <1>2, <4>1 DEF DiskInv, Database
      <4>3. F[k].gen = gen /\ (F[k].size > 0 => k <= mx)
        BY <1>3, <1>4, <1>10, <2>2, <4>1, <4>2
      <4> QED
        BY <2>3, <3>1, <4>3
    <3>2. CASE j \in 1..at
      BY <1>1, <1>2, <2>3, <2>9, <3>2 DEF CowInv
    <3> QED
      BY <2>3, <2>7, <3>1, <3>2
  <2>10. CowInv'
    BY <1>1, <1>2, <1>3, <2>1, <2>3, <2>4, <2>5, <2>6, <2>8, <2>9, CowFacts, SMTT(30) DEF CowInv
  <2>11. CleanInv'
    <3>1. ASSUME ~dirty, NEW j \in DOMAIN prefix'
          PROVE  prefix'[j] = wals[wal].frames[j] /\ wals[wal].frames[j].gen = gen
                 /\ Follows(wals[wal].frames, j)
      <4>1. CASE j = k
        <5>1. k # 1 => k - 1 \in DOMAIN prefix /\ prefix[k - 1] = F[k - 1]
          BY <1>3, <1>5, <3>1
        <5>2. Follows(F, k)
          BY <1>10, <5>1 DEF Follows
        <5> QED
          BY <1>5, <1>10, <2>3, <3>1, <4>1, <5>2
      <4>2. CASE j \in 1..at
        BY <1>1, <2>3, <3>1, <4>2 DEF CleanInv
      <4> QED
        BY <2>3, <2>7, <3>1, <4>1, <4>2
    <3> QED
      BY <1>1, <1>5, <1>10, <2>1, <2>3, <2>4, <2>5, <3>1, CowFacts DEF CleanInv, Follows
  <2> QED
    BY <1>1, <2>4, <2>10, <2>11, CowFacts DEF GoesOn, CopyInv
<1> QED
  <2>1. \/ at = pinned.size /\ Goto("copy") /\ UNCHANGED <<Pinned, Copies>>
        \/ at # pinned.size /\ k > Len(F) /\ Busy
        \/ /\ at # pinned.size /\ ~(k > Len(F)) /\ F[k].gen # wals[pinned.inode].gen
           /\ LastCommit(prefix) = 0 /\ Busy
        \/ /\ at # pinned.size /\ ~(k > Len(F)) /\ F[k].gen # wals[pinned.inode].gen
           /\ Goto("copy") /\ UNCHANGED <<Pinned, Copies>>
        \/ /\ at # pinned.size /\ ~(k > Len(F)) /\ F[k].gen = wals[pinned.inode].gen
           /\ F[k].prev # (IF k = 1 THEN NoFrame ELSE Id(prefix[k - 1])) /\ Busy
        \/ /\ at # pinned.size /\ ~(k > Len(F)) /\ F[k].gen = wals[pinned.inode].gen
           /\ F[k].prev = (IF k = 1 THEN NoFrame ELSE Id(prefix[k - 1]))
           /\ prefix' = Append(prefix, F[k]) /\ Go(pc, k) /\ UNCHANGED <<Pinned, copy, frames>>
    BY DEF CowValidate, Wal
  <2>2. ~(k > Len(F)) => k <= Len(F)
    BY <1>3, <1>4
  <2> QED
    BY <1>6, <1>7, <1>8, <1>9, <1>10, <2>1, <2>2

LEMMA CowCopyStep ==
    ASSUME CopyInv, CleanInv, Keeps, late' = late, CowCopy
    PROVE  GivesUp \/ GoesOn
<1> DEFINE F == wals[pinned.inode].frames
<1>1. pc = "copy" /\ pc \in Labels.cow /\ "copy" \in Labels.cow /\ "accept" \in Labels.cow
  BY DEF CowCopy, Labels
<1>2. DiskInv /\ path = "cow" /\ CowInv
  BY <1>1, CowFacts
<1>3. /\ Len(frames) = at /\ at <= Len(prefix) /\ pinned.inode # 0 /\ at \in Nat
      /\ prefix \in Seq(FrameSet) /\ Len(prefix) \in Nat /\ frames \in Seq(FrameSet)
  BY <1>1, <1>2, CowFacts DEF CowInv
<1>4. F \in Seq(FrameSet) /\ Len(F) \in Nat
  <2>1. pinned.inode \in DOMAIN wals
    BY <1>1, <1>3, CowFacts, DiskFacts
  <2>2. wals[pinned.inode] \in WalFile
    BY <1>2, <2>1 DEF DiskInv, DiskTypes
  <2> QED
    BY <2>2 DEF WalFile
<1>5. ~dirty => /\ wal = pinned.inode /\ Len(prefix) <= Len(F)
                /\ \A j \in DOMAIN prefix : prefix[j] = F[j]
                /\ \A j \in DOMAIN frames : frames[j] = prefix[j]
  BY <1>1 DEF CleanInv
<1>6. CASE at = Len(prefix) /\ frames # prefix /\ Busy
  <2>1. ASSUME ~dirty PROVE FALSE
    <3>1. Len(frames) = Len(prefix) /\ \A j \in 1..Len(frames) : frames[j] = prefix[j]
      BY <1>3, <1>5, <1>6, <2>1
    <3> QED
      BY <1>3, <1>6, <3>1, SeqEqual
  <2> QED
    BY <1>6, <2>1 DEF GivesUp, Cause
<1>7. CASE at # Len(prefix) /\ at + 1 > Len(F) /\ Busy
  <2>1. dirty
    BY <1>3, <1>4, <1>5, <1>7
  <2> QED
    BY <1>7, <2>1 DEF GivesUp, Cause
<1>8. CASE frames = prefix /\ Goto("accept") /\ UNCHANGED <<Pinned, Copies>>
  <2>1. Go("accept", 0)
    BY <1>8 DEF Goto
  <2>2. /\ DiskInv' /\ attempt' = attempt /\ out' = out /\ out' = "none" /\ pc' = "accept"
        /\ UNCHANGED <<pin, pinned, gen, prefix, copy, frames, seen, dirty>> /\ at' = 0
        /\ SameMain' = SameMain /\ SameWal' = SameWal /\ Linked' = Linked
    BY <1>1, <1>8, <2>1, CowGo
  <2>3. \A c : Replayed(c) => Replayed(c)'
    <3> SUFFICES ASSUME NEW c, Replayed(c) PROVE Replayed(c)'
      OBVIOUS
    <3>1. c <= pinned.size /\ c <= Len(prefix)
          /\ \A j \in DOMAIN prefix : j <= c => prefix[j] = wals[wal].frames[j]
      BY <1>1 DEF Replayed
    <3> QED
      BY <2>2, <3>1, ReplayedStays
  <2>4. Checks' = Checks /\ Checks \in Nat /\ Checks >= 5
    BY <1>3, <2>2 DEF Checks
  <2>5. CowInv'
    <3>1. at' < 2 * Checks' /\ ~(at' >= 1) /\ ~(at' >= Checks' + 2) /\ ~(at' >= Checks' + 5)
      BY <2>2, <2>4
    <3>2. \A j \in DOMAIN prefix' : ~(j + 5 <= at')
      BY <1>3, <2>2
    <3> QED
      BY <1>1, <1>2, <1>8, <2>2, <2>3, <3>1, <3>2, CowFacts DEF CowInv
  <2>6. CleanInv'
    BY <1>1, <2>2, CowFacts DEF CleanInv, Follows
  <2> QED
    BY <1>1, <2>2, <2>5, <2>6, CowFacts DEF GoesOn, CopyInv
<1>9. CASE /\ at # Len(prefix) /\ at + 1 <= Len(F)
           /\ frames' = Append(frames, F[at + 1])
           /\ Go(pc, at + 1) /\ UNCHANGED <<Pinned, prefix, copy>>
  <2>1. UNCHANGED <<pin, pinned, gen, copy, prefix, seen, dirty>> /\ at' = at + 1
    BY <1>9 DEF Pinned, Go
  <2>2. F[at + 1] \in FrameSet /\ at + 1 \in Nat /\ at + 1 \in 1..Len(prefix)
    BY <1>3, <1>4, <1>9
  <2>3. /\ frames' \in Seq(FrameSet) /\ Len(frames') = at + 1 /\ DOMAIN frames' = 1..at + 1
        /\ \A j \in 1..at : frames'[j] = frames[j] /\ j \in DOMAIN frames
        /\ frames'[at + 1] = F[at + 1]
    BY <1>3, <1>9, <2>2
  <2>4. DiskInv' /\ attempt' = attempt /\ out' = out /\ out' = "none" /\ pc' = "copy"
    BY <1>1, <1>3, <1>9, <2>1, <2>2, <2>3, CowFacts, GoDisk
  <2>5. SameMain' = SameMain /\ SameWal' = SameWal /\ Linked' = Linked
    BY <1>1, <2>1, CowFacts DEF SameMain, SameWal, Linked, Fingerprint, WalFingerprint
  <2>6. \A c : Replayed(c) => Replayed(c)'
    <3> SUFFICES ASSUME NEW c, Replayed(c) PROVE Replayed(c)'
      OBVIOUS
    <3>1. c <= pinned.size /\ c <= Len(prefix)
          /\ \A j \in DOMAIN prefix : j <= c => prefix[j] = wals[wal].frames[j]
      BY <1>1 DEF Replayed
    <3> QED
      BY <2>1, <2>4, <3>1, ReplayedStays
  <2>7. CowInv'
    <3>1. at + 1 <= Len(prefix)
      BY <1>3, <2>2
    <3> QED
      BY <1>1, <1>2, <2>1, <2>3, <2>4, <2>5, <2>6, <3>1, CowFacts DEF CowInv
  <2>8. CleanInv'
    <3>1. ASSUME ~dirty, NEW j \in DOMAIN frames' PROVE frames'[j] = prefix[j]
      <4>1. j = at + 1 \/ j \in 1..at
        BY <1>3, <2>3
      <4>2. at + 1 \in DOMAIN prefix
        BY <1>3, <2>2
      <4> QED
        BY <1>5, <2>3, <3>1, <4>1, <4>2
    <3> QED
      BY <1>1, <2>1, <2>4, <2>5, <3>1, CowFacts DEF CleanInv, Follows
  <2> QED
    BY <1>1, <2>4, <2>7, <2>8, CowFacts DEF GoesOn, CopyInv
<1> QED
  <2>1. \/ at = Len(prefix) /\ frames # prefix /\ Busy
        \/ frames = prefix /\ Goto("accept") /\ UNCHANGED <<Pinned, Copies>>
        \/ at # Len(prefix) /\ at + 1 > Len(F) /\ Busy
        \/ /\ at # Len(prefix) /\ ~(at + 1 > Len(F))
           /\ frames' = Append(frames, F[at + 1])
           /\ Go(pc, at + 1) /\ UNCHANGED <<Pinned, prefix, copy>>
    BY DEF CowCopy, Wal
  <2>2. ~(at + 1 > Len(F)) => at + 1 <= Len(F)
    BY <1>3, <1>4
  <2> QED
    BY <1>6, <1>7, <1>8, <1>9, <2>1, <2>2

(* The second time round.                                                   *)
LEMMA SecondRound ==
    ASSUME NEW c \in Nat \ {0}, NEW a \in Nat, a < 2 * c
    PROVE  a % c = IF a < c THEN a ELSE a - c
<1>1. CASE a < c
  BY <1>1
<1>2. CASE ~(a < c)
  BY <1>2
<1> QED
  BY <1>1, <1>2

(* Between the two times the frames up to the last commit were read again,  *)
(* in the place of the database and in the generation pinned: the commit    *)
(* the prefix ends with is one the database held since it was cloned.       *)
LEMMA AcceptedIsGood ==
    ASSUME DiskInv, CowInv, pc = "accept", at >= Checks, Linked
    PROVE  Good
<1> DEFINE F == wals[wal].frames
           last == LastCommit(prefix)
<1>1. /\ prefix \in Seq(FrameSet) /\ Len(prefix) \in Nat /\ at \in Nat /\ mx \in Nat
      /\ copy \in Seq(Val) /\ frames = prefix /\ seen \subseteq Seq(Val)
  BY SMTT(30) DEF DiskInv, ReaderTypes, DiskTypes, CowInv
<1>2. PICK c \in 0..mx : Replayed(c)
  BY DEF CowInv
<1>3. /\ c <= Len(prefix) /\ Commits(F, c)
      /\ \A m \in c..mx : Commits(F, m) => \E d \in seen : Covers(copy, F, m, d)
      /\ \A k \in DOMAIN prefix : k <= c => prefix[k] = F[k]
  BY <1>2 DEF Replayed
<1>4. /\ last \in 0..Len(prefix) /\ Commits(prefix, last)
      /\ \A i \in 1..Len(prefix) : prefix[i].size > 0 => i <= last
  BY <1>1, LastCommitIs
<1>5. \A k \in 1..last : prefix[k] = F[k]
  <2>1. ASSUME NEW k \in 1..last PROVE prefix[k] = F[k]
    <3>1. k \in DOMAIN prefix /\ k <= last /\ k + 5 <= at
      BY <1>1, <1>4 DEF Checks
    <3> QED
      BY <3>1 DEF CowInv
  <2> QED
    BY <2>1
<1>6. last <= mx
  <2>1. CASE last = 0
    BY <1>1, <2>1
  <2>2. CASE last # 0
    <3>1. last \in DOMAIN prefix /\ prefix[last].size > 0
      BY <1>1, <1>4, <2>2 DEF Commits
    <3> QED
      BY <3>1 DEF CowInv
  <2> QED
    BY <2>1, <2>2
<1> HIDE DEF F, last
<1>7. c <= last
  <2>1. CASE c = 0
    BY <1>4, <2>1
  <2>2. CASE c # 0
    <3>1. c \in 1..Len(prefix) /\ prefix[c] = F[c] /\ F[c].size > 0
      BY <1>1, <1>3, <2>2 DEF Commits
    <3> QED
      BY <1>4, <3>1
  <2> QED
    BY <2>1, <2>2
<1>8. last \in c..mx /\ last \in Nat
  BY <1>1, <1>4, <1>6, <1>7
<1>9. Commits(F, last)
  BY <1>4, <1>5, <1>8, CommitsSame
<1>10. PICK d \in seen : Covers(copy, F, last, d)
  BY <1>3, <1>8, <1>9
<1>11. Covers(copy, prefix, last, d)
  <2>1. \A k \in 1..last : F[k] = prefix[k]
    BY <1>5
  <2> QED
    BY <1>8, <1>10, <2>1, CoversSame
<1>12. Apply(copy, prefix) \in Seq(Val) /\ Covers(copy, prefix, last, Apply(copy, prefix))
  BY <1>1, ApplyCovers DEF last
<1>13. Apply(copy, prefix) = d
  <2>1. d \in Seq(Val)
    BY <1>1, <1>10
  <2> QED
    BY <1>1, <1>4, <1>11, <1>12, <2>1, CoversOnce
<1> QED
  BY <1>1, <1>10, <1>13 DEF Good

LEMMA CowAcceptStep ==
    ASSUME CopyInv, CleanInv, Keeps, late' = late, CowAccept
    PROVE  GivesUp \/ GoesOn
<1> DEFINE k == (at % Checks) + 1
           F == wals[pinned.inode].frames
<1>1. pc = "accept" /\ pc \in Labels.cow /\ "accept" \in Labels.cow /\ "apply" \in Labels.cow
  BY DEF CowAccept, Labels
<1>2. DiskInv /\ path = "cow" /\ CowInv
  BY <1>1, CowFacts
<1>3. /\ at < 2 * Checks /\ at \in Nat /\ Checks \in Nat \ {0} /\ Checks >= 5
      /\ prefix \in Seq(FrameSet) /\ Len(prefix) \in Nat /\ Checks = 5 + Len(prefix)
      /\ pinned.inode # 0
  BY <1>1, <1>2, CowFacts DEF CowInv, Checks
<1>4. at % Checks = (IF at < Checks THEN at ELSE at - Checks)
  BY <1>3, SecondRound
<1>5. k = (IF at < Checks THEN at + 1 ELSE at - Checks + 1) /\ k \in 1..Checks
  BY <1>3, <1>4
<1> HIDE DEF k
<1>6. CASE Raise("hot")
  BY <1>6 DEF GivesUp
<1>7. CASE ~Accepted(k) /\ Busy
  <2>1. ASSUME ~dirty PROVE Accepted(k)
    <3>1. /\ SameMain /\ SameWal /\ wal = pinned.inode /\ wals[wal].gen = gen
          /\ Len(prefix) <= Len(F)
          /\ \A j \in DOMAIN prefix : prefix[j] = F[j]
      BY <1>1, <2>1 DEF CleanInv
    <3>2. main = pin.inode
      BY <3>1 DEF SameMain, Fingerprint
    <3>3. Len(F) = pinned.size /\ wals[pinned.inode].ctime = pinned.mtime
      BY <1>3, <3>1 DEF SameWal, WalFingerprint
    <3>4. Len(F) \in Nat
      BY <1>2, <1>3, <3>1, DiskFacts
    <3>5. k > 5 => k - 5 \in DOMAIN prefix /\ k - 5 <= Len(F) /\ k - 5 \in Nat
      BY <1>3, <1>5, <3>1, <3>4, SMTT(30)
    <3>6. k > 5 => F[k - 5] = prefix[k - 5]
      BY <3>1, <3>5
    <3>7. Len(F) >= Len(prefix)
      BY <1>3, <3>1, <3>4
    <3>8. k \in {1, 2, 3, 4, 5} \/ k > 5
      BY <1>3, <1>5
    <3> QED
      BY <3>1, <3>2, <3>3, <3>5, <3>6, <3>7, <3>8 DEF Accepted, Wal
  <2> QED
    BY <1>7, <2>1 DEF GivesUp, Cause
<1>8. CASE at + 1 = 2 * Checks /\ Accepted(k) /\ Goto("apply") /\ UNCHANGED <<Pinned, Copies>>
  <2>1. Go("apply", 0)
    BY <1>8 DEF Goto
  <2>2. /\ DiskInv' /\ attempt' = attempt /\ out' = out /\ out' = "none" /\ pc' = "apply"
        /\ UNCHANGED <<pin, pinned, gen, prefix, copy, frames, seen, dirty>>
        /\ Good' = Good
    BY <1>1, <1>8, <2>1, CowGo
  <2>3. Good
    <3>1. CASE at >= Checks + 5
      BY <1>1, <1>2, <3>1 DEF CowInv
    <3>2. CASE ~(at >= Checks + 5)
      <4>1. k = 5 /\ at >= Checks + 2
        BY <1>3, <1>5, <1>8, <3>2
      <4>2. wals[pinned.inode].gen = gen
        BY <1>8, <4>1 DEF Accepted, Wal
      <4> QED
        BY <1>1, <1>2, <4>1, <4>2 DEF CowInv
    <3> QED
      BY <3>1, <3>2
  <2>4. CowInv'
    BY <1>1, <1>2, <2>2, <2>3 DEF CowInv
  <2>5. CleanInv'
    BY <2>2 DEF CleanInv
  <2> QED
    BY <1>1, <2>2, <2>4, <2>5, CowFacts DEF GoesOn, CopyInv
<1>9. CASE /\ at + 1 # 2 * Checks /\ Accepted(k) /\ Go(pc, at + 1)
           /\ UNCHANGED <<Pinned, Copies>>
  <2>1. at + 1 \in Nat /\ Go("accept", at + 1)
    BY <1>1, <1>3, <1>9 DEF Go
  <2>2. /\ DiskInv' /\ attempt' = attempt /\ out' = out /\ out' = "none" /\ pc' = "accept"
        /\ UNCHANGED <<pin, pinned, gen, prefix, copy, frames, seen, dirty>> /\ at' = at + 1
        /\ SameMain' = SameMain /\ SameWal' = SameWal /\ Linked' = Linked /\ Good' = Good
    BY <1>1, <1>9, <2>1, CowGo
  <2>3. Checks' = Checks
    BY <2>2 DEF Checks
  <2>4. at + 1 < 2 * Checks
    BY <1>3, <1>9
  <2>5. \A c : Replayed(c) => Replayed(c)'
    <3> SUFFICES ASSUME NEW c, Replayed(c) PROVE Replayed(c)'
      OBVIOUS
    <3>1. c <= pinned.size /\ c <= Len(prefix)
          /\ \A j \in DOMAIN prefix : j <= c => prefix[j] = wals[wal].frames[j]
      BY <1>1 DEF Replayed
    <3> QED
      BY <2>2, <3>1, ReplayedStays
  <2>6. ASSUME Linked, NEW j \in DOMAIN prefix, j + 5 <= at + 1, j <= LastCommit(prefix)
        PROVE  prefix[j] = wals[wal].frames[j]
    <3>1. j \in 1..Len(prefix)
      BY <1>3
    <3>2. CASE j + 5 <= at
      BY <1>1, <1>2, <2>6, <3>2 DEF CowInv
    <3>3. CASE ~(j + 5 <= at)
      <4>1. k = j + 5 /\ k > 5 /\ k - 5 = j
        BY <1>3, <1>5, <2>6, <3>1, <3>3
      <4>2. k # 1 /\ k # 2 /\ k # 4 /\ k # 5
        BY <1>5, <4>1
      <4>3. F[k - 5] = prefix[k - 5]
        BY <1>9, <4>1, <4>2 DEF Accepted, Wal
      <4>4. wal = pinned.inode
        BY <2>6 DEF Linked
      <4> QED
        BY <4>1, <4>3, <4>4
    <3> QED
      BY <3>2, <3>3
  <2>7. wal = pinned.inode => main = pin.inode
    <3>1. CASE at >= 1
      BY <1>1, <1>2, <3>1 DEF CowInv
    <3>2. CASE at = 0
      <4>1. k = 1
        BY <1>3, <1>5, <3>2
      <4> QED
        BY <1>9, <4>1 DEF Accepted
    <3> QED
      BY <1>3, <3>1, <3>2
  <2>8. ASSUME at + 1 >= Checks + 2, wals[pinned.inode].gen = gen PROVE Good
    <3>1. CASE at >= Checks + 2
      BY <1>1, <1>2, <2>8, <3>1 DEF CowInv
    <3>2. CASE at = Checks + 1
      <4>1. k = 2 /\ at >= 1 /\ at >= Checks
        BY <1>3, <1>5, <3>2
      <4>2. wal = pinned.inode
        BY <1>9, <4>1 DEF Accepted
      <4>3. Linked
        BY <2>7, <2>8, <4>2 DEF Linked
      <4> QED
        BY <1>1, <1>2, <4>1, <4>3, AcceptedIsGood
    <3> QED
      BY <1>3, <2>8, <3>1, <3>2
  <2>9. ASSUME at + 1 >= Checks + 5 PROVE Good
    <3>1. CASE at >= Checks + 5
      BY <1>1, <1>2, <3>1 DEF CowInv
    <3>2. CASE at = Checks + 4
      <4>1. k = 5 /\ at + 1 >= Checks + 2
        BY <1>3, <1>5, <3>2
      <4>2. wals[pinned.inode].gen = gen
        BY <1>9, <4>1 DEF Accepted, Wal
      <4> QED
        BY <2>8, <4>1, <4>2
    <3> QED
      BY <1>3, <2>9, <3>1, <3>2
  <2>10. CowInv'
    BY <1>1, <1>2, <2>2, <2>3, <2>4, <2>5, <2>6, <2>7, <2>8, <2>9, CowFacts DEF CowInv
  <2>11. CleanInv'
    BY <1>1, <2>2, CowFacts DEF CleanInv, Follows
  <2> QED
    BY <1>1, <2>2, <2>10, <2>11, CowFacts DEF GoesOn, CopyInv
<1> QED
  <2>1. \/ Raise("hot")
        \/ ~Accepted(k) /\ Busy
        \/ at + 1 = 2 * Checks /\ Accepted(k) /\ Goto("apply") /\ UNCHANGED <<Pinned, Copies>>
        \/ /\ at + 1 # 2 * Checks /\ Accepted(k) /\ Go(pc, at + 1)
           /\ UNCHANGED <<Pinned, Copies>>
    BY DEF CowAccept, k, Checks
  <2> QED
    BY <1>6, <1>7, <1>8, <1>9, <2>1

LEMMA CowApplyStep ==
    ASSUME CopyInv, CleanInv, Keeps, late' = late, CowApply
    PROVE  GivesUp \/ GoesOn
<1>1. DiskInv /\ path = "cow" /\ CowInv /\ pc = "apply" /\ pc # "idle"
  BY PathIs DEF CopyInv, DiskInv, CowApply, Labels
<1>2. Good
  BY <1>1 DEF CowInv
<1>3. CASE Raise("limit")
  BY <1>3 DEF GivesUp
<1>4. CASE /\ copy' = Apply(copy, frames) /\ pc' = "idle" /\ out' = "ok"
           /\ UNCHANGED <<attempt, Pinned, at, prefix, frames, seen, dirty>>
  BY <1>1, <1>2, <1>4, ConnectStep
<1> QED
  BY <1>3, <1>4 DEF CowApply

-----------------------------------------------------------------------------
(* In place *)

LEMMA LiveFacts ==
    ASSUME CopyInv, CleanInv, Keeps, late' = late, pc \in Labels.live
    PROVE  /\ DiskInv /\ path = "live" /\ LiveInv /\ pc # "idle" /\ out = "none"
           /\ UNCHANGED <<mains, main, wals, wal, journal, path, db, mx, pending>>
           /\ prefix \in Seq(FrameSet) /\ frames \in Seq(FrameSet) /\ copy \in Seq(Val)
           /\ at \in Nat /\ pin \in Stamp /\ pin.inode \in 0..Len(mains)
           /\ Labels[path] = Labels.live
<1>1. DiskInv /\ path = "live" /\ pc # "idle"
  BY PathIs DEF CopyInv, DiskInv, Labels
<1>2. UNCHANGED <<mains, main, wals, wal, journal, path, db, mx, pending>>
  BY DEF Keeps, disk
<1>3. /\ prefix \in Seq(FrameSet) /\ frames \in Seq(FrameSet) /\ copy \in Seq(Val) /\ at \in Nat
      /\ pin \in Stamp /\ pin.inode \in 0..Len(mains)
  BY <1>1 DEF DiskInv, ReaderTypes
<1> QED
  BY <1>1, <1>2, <1>3, PathIs DEF CopyInv, DiskInv

LEMMA LiveOpenStep ==
    ASSUME CopyInv, CleanInv, Keeps, late' = late, LiveOpen
    PROVE  GivesUp \/ GoesOn
<1>1. pc = "open" /\ pc \in Labels.live /\ "live" \in Labels.live
  BY DEF LiveOpen, Labels
<1>2. DiskInv /\ path = "live" /\ LiveInv
  BY <1>1, LiveFacts
<1>3. /\ pin' = Fingerprint(main) /\ UNCHANGED <<pinned, gen, prefix, copy, frames, seen, dirty>>
      /\ Go("live", 0) /\ at' = 0
  BY DEF LiveOpen, Copies, Goto, Go
<1>4. Fingerprint(main).inode \in 0..Len(mains) /\ Fingerprint(main).inode # 0
  BY <1>2, FingerprintTypes, DiskFacts
<1>5. DiskInv' /\ attempt' = attempt /\ out' = out /\ out' = "none" /\ pc' = "live"
  BY <1>1, <1>3, <1>4, FingerprintTypes, LiveFacts, GoDisk
<1>6. SameMain'
  BY <1>1, <1>3, LiveFacts DEF SameMain, Fingerprint
<1>7. LiveInv'
  <2>1. 0 < Len(LiveChecks) /\ ~(0 >= 3) /\ ~(0 >= Begin) /\ ~(0 > Begin)
    BY DEF LiveChecks, Begin
  <2> QED
    BY <1>3, <1>4, <1>5, <2>1 DEF LiveInv
<1>8. CleanInv'
  BY <1>3, <1>5, <1>6 DEF CleanInv
<1> QED
  BY <1>1, <1>5, <1>7, <1>8, LiveFacts DEF GoesOn, CopyInv

LEMMA LiveChecksAre ==
    /\ Len(LiveChecks) = 11 /\ Begin = 9
    /\ \A i \in 0..10 : /\ LiveChecks[i + 1] = "side" <=> i \in {0, 4, 6, 9}
                        /\ LiveChecks[i + 1] = "verify" <=> i \in {1, 3, 5, 7, 10}
                        /\ LiveChecks[i + 1] = "header" <=> i = 2
                        /\ LiveChecks[i + 1] = "begin" <=> i = 8
<1>1. ASSUME NEW i \in 0..10
      PROVE  /\ LiveChecks[i + 1] = "side" <=> i \in {0, 4, 6, 9}
             /\ LiveChecks[i + 1] = "verify" <=> i \in {1, 3, 5, 7, 10}
             /\ LiveChecks[i + 1] = "header" <=> i = 2
             /\ LiveChecks[i + 1] = "begin" <=> i = 8
  <2>1. i \in {0, 1, 2, 3, 4, 5, 6, 7, 8, 9, 10}
    OBVIOUS
  <2> QED
    BY <2>1 DEF LiveChecks
<1> QED
  BY <1>1 DEF LiveChecks, Begin

LEMMA LiveCheckStep ==
    ASSUME CopyInv, CleanInv, Keeps, late' = late, LiveCheck
    PROVE  GivesUp \/ GoesOn
<1> DEFINE check == LiveChecks[at + 1]
<1>1. pc = "live" /\ pc \in Labels.live /\ "live" \in Labels.live
  BY DEF LiveCheck, Labels
<1>2. DiskInv /\ path = "live" /\ LiveInv
  BY <1>1, LiveFacts
<1>3. at \in 0..10 /\ at \in Nat /\ pin.inode # 0 /\ Begin = 9 /\ Len(LiveChecks) = 11
  <2>1. at < Len(LiveChecks) /\ pin.inode # 0
    BY <1>1, <1>2 DEF LiveInv
  <2>2. Len(LiveChecks) = 11 /\ Begin = 9
    BY LiveChecksAre
  <2>3. at \in Nat
    BY <1>1, LiveFacts
  <2> QED
    BY <2>1, <2>2, <2>3
<1>4. /\ check = "side" <=> at \in {0, 4, 6, 9}
      /\ check = "verify" <=> at \in {1, 3, 5, 7, 10}
      /\ check = "header" <=> at = 2
      /\ check = "begin" <=> at = 8
  BY <1>3, LiveChecksAre
<1> HIDE DEF check
<1>5. ~dirty => SameMain /\ (at >= 1 => journal = << >>)
  BY <1>1 DEF CleanInv
<1>6. CASE Raise("hot") \/ Raise("liveWal")
  BY <1>6 DEF GivesUp
<1>7. CASE Fingerprint(main) # pin /\ Busy
  BY <1>5, <1>7 DEF GivesUp, Cause, SameMain
<1>8. CASE check = "begin" /\ Exclusive /\ Raise("locked")
  <2>1. journal # << >> /\ at >= 1
    BY <1>3, <1>4, <1>8 DEF Exclusive
  <2> QED
    BY <1>5, <1>8, <2>1 DEF GivesUp, Cause
<1>9. CASE /\ LivePass /\ UNCHANGED <<Pinned, prefix, frames>>
           /\ check = "side" => journal = << >> /\ wal = 0
           /\ check = "verify" => SameMain
           /\ check = "header" => ~mains[pin.inode].wal
           /\ \/ check = "begin" /\ copy' = mains[pin.inode].pages
              \/ check # "begin" /\ copy' = copy
  <2>1. UNCHANGED <<pin, pinned, gen, prefix, frames, seen, dirty>> /\ at' = at + 1
    BY <1>9 DEF LivePass, Go, Pinned
  <2>2. copy' \in Seq(Val)
    <3>1. pin.inode \in DOMAIN mains
      BY <1>1, <1>2, <1>3, LiveFacts, DiskFacts
    <3>2. mains[pin.inode] \in MainFile
      BY <1>2, <3>1 DEF DiskInv, DiskTypes
    <3> QED
      BY <1>1, <1>9, <3>2, LiveFacts DEF MainFile
  <2>3. SameMain' = SameMain /\ (SameMain => main = pin.inode)
    BY <1>1, <2>1, LiveFacts DEF SameMain, Fingerprint
  <2>4. at + 1 >= 3 => (SameMain => ~mains[main].wal)
    <3>1. CASE at >= 3
      BY <1>1, <1>2, <3>1 DEF LiveInv
    <3>2. CASE at = 2
      BY <1>4, <1>9, <2>3, <3>2
    <3> QED
      BY <1>3, <3>1, <3>2
  <2>5. at + 1 >= Begin => (SameMain => /\ copy' = mains[main].pages
                                        /\ (journal = << >> => copy' \in seen))
    <3>1. CASE at >= Begin
      <4>1. check # "begin"
        BY <1>3, <1>4, <3>1
      <4> QED
        BY <1>1, <1>2, <1>9, <3>1, <4>1 DEF LiveInv
    <3>2. CASE at = 8
      <4> SUFFICES ASSUME SameMain
                   PROVE  copy' = mains[main].pages /\ (journal = << >> => copy' \in seen)
        OBVIOUS
      <4>1. copy' = mains[main].pages
        BY <1>4, <1>9, <2>3, <3>2
      <4>2. ~mains[main].wal
        BY <2>4, <3>2
      <4> QED
        BY <1>2, <4>1, <4>2 DEF DiskInv, Database
    <3> QED
      BY <1>3, <3>1, <3>2
  <2>6. at + 1 > Begin => (SameMain => copy' \in seen)
    <3>1. CASE at > Begin
      <4>1. check # "begin"
        BY <1>3, <1>4, <3>1
      <4> QED
        BY <1>1, <1>2, <1>9, <3>1, <4>1 DEF LiveInv
    <3>2. CASE at = 9
      <4>1. journal = << >> /\ at + 1 >= Begin
        BY <1>3, <1>4, <1>9, <3>2
      <4> QED
        BY <2>5, <4>1
    <3> QED
      BY <1>3, <3>1, <3>2
  <2>7. at + 1 >= 1 /\ ~dirty => journal = << >>
    <3>1. CASE at = 0
      BY <1>4, <1>9, <3>1
    <3>2. CASE at >= 1
      BY <1>5, <3>2
    <3> QED
      BY <1>3, <3>1, <3>2
  <2>8. CASE at # 10 /\ Go(pc, at + 1)
    <3>1. Go("live", at + 1) /\ at + 1 \in Nat
      BY <1>1, <1>3, <2>8 DEF Go
    <3>2. DiskInv' /\ attempt' = attempt /\ out' = out /\ out' = "none" /\ pc' = "live"
      BY <1>1, <2>1, <2>2, <3>1, LiveFacts, GoDisk
    <3>3. LiveInv'
      <4>1. at' < Len(LiveChecks)
        BY <1>3, <2>1, <2>8
      <4> QED
        BY <1>1, <1>3, <2>1, <2>3, <2>4, <2>5, <2>6, <3>2, <4>1, LiveFacts DEF LiveInv
    <3>4. CleanInv'
      BY <1>1, <1>5, <2>1, <2>3, <2>7, <3>2, LiveFacts DEF CleanInv
    <3> QED
      BY <1>1, <3>2, <3>3, <3>4, LiveFacts DEF GoesOn, CopyInv
  <2>9. CASE at = 10 /\ pc' = "idle" /\ out' = "ok" /\ UNCHANGED attempt
    <3>1. SameMain /\ at + 1 >= 3 /\ at + 1 >= Begin /\ at + 1 > Begin
      BY <1>3, <1>4, <1>9, <2>9
    <3>2. /\ copy' \in seen /\ main = pin.inode /\ mains[main].pages = copy'
          /\ ~mains[main].wal
      BY <2>3, <2>4, <2>5, <2>6, <3>1
    <3>3. UNCHANGED <<mains, main, wals, path>>
      BY <1>1, LiveFacts
    <3>4. ReaderTypes'
      BY <1>2, <1>3, <2>1, <2>2, <2>9, <3>3 DEF DiskInv, ReaderTypes
    <3>5. DiskInv'
      <4>1. pin'.mtime <= writes /\ pinned'.mtime <= writes /\ gen' <= writes
            /\ dirty' \in BOOLEAN
        BY <1>2, <2>1 DEF DiskInv, Stamps, DiskTypes
      <4> QED
        BY <1>2, <2>1, <3>4, <4>1, ReadDisk
    <3>6. LiveInv' /\ CleanInv'
      BY <1>3, <2>1, <2>9, <3>2, <3>3 DEF LiveInv, CleanInv
    <3> QED
      BY <1>2, <2>9, <3>3, <3>5, <3>6 DEF GoesOn, CopyInv
  <2> QED
    BY <1>3, <1>9, <2>8, <2>9 DEF LivePass
<1> QED
  <2>1. CASE check = "side"
    BY <1>6, <1>9, <2>1 DEF LiveCheck, check, Copies
  <2>2. CASE check = "verify"
    BY <1>7, <1>9, <2>2 DEF LiveCheck, check, Copies, SameMain
  <2>3. CASE check = "header"
    BY <1>6, <1>9, <2>3 DEF LiveCheck, check, Copies
  <2>4. CASE check = "begin"
    BY <1>8, <1>9, <2>4 DEF LiveCheck, check, Copies
  <2> QED
    BY <1>3, <1>4, <2>1, <2>2, <2>3, <2>4

-----------------------------------------------------------------------------
(* The invariant holds *)

LEMMA DeadlineStep ==
    ASSUME CopyInv, Keeps, CowDeadline
    PROVE  CopyInv' /\ CleanInv' /\ attempt' = attempt /\ Cause
<1>1. DiskInv /\ late' = TRUE /\ Raise("busy")
  BY DEF CopyInv, CowDeadline
<1> QED
  BY <1>1, RaiseGivesUp DEF Cause

LEMMA ReadStep ==
    ASSUME CopyInv, CleanInv, Read
    PROVE  /\ CopyInv' /\ CleanInv'
           /\ \/ attempt' = attempt /\ out' \in {out, "ok", "hot", "liveWal", "limit"}
              \/ Cause
<1>1. Keeps
  BY DEF Read, Keeps
<1>2. CASE CowDeadline
  BY <1>1, <1>2, DeadlineStep
<1>3. CASE /\ UNCHANGED late
           /\ \/ FamilyBefore \/ FamilyCopyMain \/ FamilyCopyWal \/ FamilyAfter \/ FamilyLost
              \/ FamilyConnect \/ CowJournal \/ CowPinMain \/ CowPinWal \/ CowClone \/ CowHeader \/ CowStat
              \/ CowValidate \/ CowCopy \/ CowAccept \/ CowApply
              \/ LiveOpen \/ LiveCheck
  <2>1. GivesUp \/ GoesOn
    BY <1>1, <1>3, FamilyBeforeStep, FamilyCopyMainStep, FamilyCopyWalStep, FamilyAfterStep,
       FamilyLostStep, FamilyConnectStep, CowJournalStep, CowPinMainStep, CowPinWalStep, CowCloneStep,
       CowHeaderStep, CowStatStep, CowValidateStep, CowCopyStep, CowAcceptStep, CowApplyStep,
       LiveOpenStep, LiveCheckStep
  <2>2. pc # "idle"
    BY <1>3 DEF FamilyBefore, FamilyCopyMain, FamilyCopyWal, FamilyAfter, FamilyLost,
                FamilyConnect, CowJournal, CowPinMain, CowPinWal, CowClone, CowHeader, CowStat, CowValidate,
                CowCopy, CowAccept, CowApply, LiveOpen, LiveCheck
  <2>3. CASE GivesUp
    <3>1. DiskInv
      BY DEF CopyInv
    <3> QED
      BY <1>1, <1>3, <2>2, <2>3, <3>1, GiveUp
  <2>4. CASE GoesOn
    BY <2>4 DEF GoesOn
  <2> QED
    BY <2>1, <2>3, <2>4
<1> QED
  BY <1>2, <1>3 DEF Read

LEMMA AgentStep ==
    ASSUME CopyInv, CleanInv, Agent
    PROVE  CopyInv' /\ CleanInv' /\ attempt' = attempt /\ out' = out
<1>1. DiskInv /\ DiskInv' /\ Acts
  BY AgentEffect, AgentDisk DEF CopyInv
<1>2. UNCHANGED <<path, attempt, out>> /\ dirty' = TRUE
  BY <1>1, ActsFacts DEF reader
<1>3. path = "family" => FamilyInv'
  BY <1>1, FamilyAgent DEF CopyInv
<1>4. path = "cow" => CowInv'
  BY <1>1, CowAgent DEF CopyInv
<1>5. path = "live" => LiveInv'
  BY <1>1, LiveAgent DEF CopyInv
<1>6. CleanInv'
  BY <1>2 DEF CleanInv
<1> QED
  BY <1>1, <1>2, <1>3, <1>4, <1>5, <1>6 DEF CopyInv

(* The databases of Init.                                                   *)
LEMMA InitValues ==
    /\ {-9, -8, -3, -2, -1, 0} \subseteq Val /\ 0 \in 0..MaxWrites
    /\ {-1, 0} \subseteq -1..MaxWrites
    /\ {1, 2} \subseteq 1..MaxPages /\ {0, 2} \subseteq 0..MaxPages
    /\ \A a, b \in {-9, -8, -2, -1} : <<a, b>> \in Seq(Val)
    /\ <<-9>> \in Seq(Val) /\ <<-3, -1>> \in Seq(Val)
    /\ NoFrame \in (0..MaxPages) \X Val /\ <<1, -2>> \in (0..MaxPages) \X Val
<1>1. /\ {-9, -8, -3, -2, -1, 0} \subseteq Val /\ 0 \in 0..MaxWrites
      /\ {-1, 0} \subseteq -1..MaxWrites
      /\ {1, 2} \subseteq 1..MaxPages /\ {0, 2} \subseteq 0..MaxPages /\ 1 \in 0..MaxPages
  BY Bounds DEF Val
<1>2. \A a, b \in {-9, -8, -2, -1} : <<a, b>> \in Seq(Val)
  BY <1>1
<1>3. <<-9>> \in Seq(Val) /\ <<-3, -1>> \in Seq(Val)
  BY <1>1
<1>4. NoFrame \in (0..MaxPages) \X Val /\ <<1, -2>> \in (0..MaxPages) \X Val
  BY <1>1 DEF NoFrame
<1> QED
  BY <1>1, <1>2, <1>3, <1>4

LEMMA FileType ==
    ASSUME NEW P \in Seq(Val), NEW w \in BOOLEAN
    PROVE  /\ <<File(P, w)>> \in Seq(MainFile) /\ Len(<<File(P, w)>>) = 1
           /\ <<File(P, w)>>[1] = File(P, w)
           /\ File(P, w).pages = P /\ File(P, w).mtime = 0 /\ File(P, w).wal = w
<1>1. File(P, w) \in MainFile
  BY InitValues DEF File, MainFile
<1>2. <<File(P, w)>> \in Seq(MainFile) /\ Len(<<File(P, w)>>) = 1
  BY <1>1
<1> QED
  BY <1>2 DEF File

InitEmpty(w) ==
  /\ mains = <<File(<<-9>>, w)>> /\ wals = << >> /\ wal = 0 /\ mx = 0 /\ db = <<-9>>

InitCommitted(a, b) ==
  /\ mains = <<File(<<a, b>>, TRUE)>>
  /\ wals = <<[gen |-> 0, ctime |-> 0,
               frames |-> <<Frame(0, 1, -2, 0, NoFrame), Frame(0, 2, -1, 2, <<1, -2>>)>>]>>
  /\ wal = 1 /\ mx = 2 /\ db = <<-2, -1>>

InitRestarted ==
  /\ mains = <<File(<<-2, -1>>, TRUE)>>
  /\ wals = <<[gen |-> 0, ctime |-> 0,
               frames |-> <<Frame(0, 1, -3, 2, NoFrame), Frame(-1, 2, -1, 2, <<1, -2>>)>>]>>
  /\ wal = 1 /\ mx = 1 /\ db = <<-3, -1>>

LEMMA InitDisk ==
    ASSUME Init
    PROVE  /\ main = 1 /\ journal = << >> /\ pending = 0 /\ alive = FALSE
           /\ \/ \E w \in BOOLEAN : InitEmpty(w)
              \/ \E a \in {-9, -2}, b \in {-8, -1} : InitCommitted(a, b)
              \/ InitRestarted
<1>1. main = 1 /\ journal = << >> /\ pending = 0 /\ alive = FALSE
  BY DEF Init
<1>2. \/ \E w \in BOOLEAN : InitEmpty(w)
      \/ \E a \in {-9, -2}, b \in {-8, -1} : InitCommitted(a, b)
      \/ InitRestarted
  BY DEF Init, InitEmpty, InitCommitted, InitRestarted
<1> QED
  BY <1>1, <1>2

LEMMA InitReader ==
    ASSUME Init
    PROVE  /\ ReaderTypes /\ pin.mtime = 0 /\ pinned.mtime = 0 /\ gen = 0
           /\ writes = 0 /\ seen = {db} /\ dirty = FALSE /\ dirty \in BOOLEAN
           /\ FamilyInv /\ CowInv /\ LiveInv /\ CleanInv
<1>1. /\ pin = NoPin /\ pinned = NoPin /\ gen = 0 /\ at = 0 /\ prefix = << >> /\ copy = << >>
      /\ frames = << >> /\ late = FALSE /\ out = "none" /\ attempt = 1 /\ pc = First
      /\ path \in Path /\ writes = 0 /\ seen = {db} /\ dirty = FALSE
  BY CopyAssumption DEF Init, NoPin, WalFingerprint
<1>2. /\ NoPin \in Stamp /\ NoPin.inode = 0 /\ NoPin.mtime = 0
      /\ << >> \in Seq(FrameSet) /\ << >> \in Seq(Val) /\ 0 \in -1..MaxWrites
  BY NothingTypes
<1>3. /\ pc \in Labels[path] /\ pc \in {"before", "journal", "open"}
      /\ pc # "idle"
  BY <1>1 DEF First, Labels, Path
<1>4. Len(mains) \in Nat /\ Len(wals) \in Nat /\ 1 \in 1..Attempts
  <2>1. CASE \E w \in BOOLEAN : InitEmpty(w)
    BY <2>1, CopyAssumption DEF InitEmpty
  <2>2. CASE \E a \in {-9, -2}, b \in {-8, -1} : InitCommitted(a, b)
    BY <2>2, CopyAssumption DEF InitCommitted
  <2>3. CASE InitRestarted
    BY <2>3, CopyAssumption DEF InitRestarted
  <2> QED
    BY <2>1, <2>2, <2>3, InitDisk
<1>5. ReaderTypes
  <2>1. pin.inode \in 0..Len(mains) /\ pinned.inode \in 0..Len(wals)
    BY <1>1, <1>2, <1>4
  <2> QED
    BY <1>1, <1>2, <1>3, <1>4, <2>1 DEF ReaderTypes
<1>6. FamilyInv /\ CowInv /\ LiveInv
  <2>1. FamilyInv
    BY <1>1, <1>3 DEF FamilyInv
  <2>2. CowInv
    BY <1>1, <1>3 DEF CowInv
  <2>3. LiveInv
    BY <1>1, <1>3 DEF LiveInv
  <2> QED
    BY <2>1, <2>2, <2>3
<1>7. CleanInv
  BY <1>1, <1>3 DEF CleanInv
<1> QED
  BY <1>1, <1>2, <1>5, <1>6, <1>7

LEMMA InitDatabase ==
    ASSUME Init
    PROVE  DiskTypes /\ Stamps /\ Database
<1>1. /\ main = 1 /\ journal = << >> /\ pending = 0 /\ alive = FALSE /\ writes = 0
      /\ seen = {db} /\ dirty \in BOOLEAN /\ pin.mtime = 0 /\ pinned.mtime = 0 /\ gen = 0
  BY InitDisk, InitReader
<1>2. /\ << >> \in Seq(Val) /\ << >> \in Seq(WalFile) /\ 0 \in 0..MaxWrites /\ 0 \in Nat
      /\ MaxFrames >= 2 /\ MaxFrames \in Nat
  BY InitValues, Bounds
<1>3. CASE \E w \in BOOLEAN : InitEmpty(w)
  <2>1. PICK w \in BOOLEAN : InitEmpty(w)
    BY <1>3
  <2>2. /\ mains \in Seq(MainFile) /\ Len(mains) = 1 /\ mains[1].pages = <<-9>>
        /\ mains[1].mtime = 0 /\ wals = << >> /\ wal = 0 /\ mx = 0 /\ db = <<-9>>
        /\ db \in Seq(Val)
    BY <2>1, FileType, InitValues, ZenonT(40) DEF InitEmpty
  <2>3. DOMAIN mains = {1} /\ DOMAIN wals = {} /\ Len(wals) = 0
    BY <2>2
  <2>4. DiskTypes
    <3>1. main \in DOMAIN mains /\ wal \in 0..Len(wals) /\ seen \subseteq Seq(Val)
      BY <1>1, <2>2, <2>3
    <3>2. /\ journal \in Seq(Val) /\ mx \in Nat /\ pending \in Nat /\ alive \in BOOLEAN
          /\ writes \in 0..MaxWrites /\ wals \in Seq(WalFile)
      BY <1>1, <1>2, <2>2
    <3> QED
      BY <1>1, <2>2, <2>3, <3>1, <3>2 DEF DiskTypes
  <2>5. Stamps
    BY <1>1, <2>2, <2>3 DEF Stamps
  <2>6. Database
    BY <1>1, <2>2 DEF Database
  <2> QED
    BY <2>4, <2>5, <2>6
<1>4. ASSUME NEW P \in Seq(Val), P # << >>, NEW f1 \in FrameSet, NEW f2 \in FrameSet,
             NEW m \in {1, 2}, NEW d \in Seq(Val),
             f1.gen = 0, f2.gen = (IF m = 2 THEN 0 ELSE -1), f1.prev = NoFrame,
             m = 2 => f2.prev = Id(f1) /\ f2.size > 0,
             m = 1 => f1.size > 0,
             mains = <<File(P, TRUE)>>,
             wals = <<[gen |-> 0, ctime |-> 0, frames |-> <<f1, f2>>]>>,
             wal = 1, mx = m, db = d, d # << >>, Covers(P, <<f1, f2>>, m, d)
      PROVE  DiskTypes /\ Stamps /\ Database
  <2>1. /\ mains \in Seq(MainFile) /\ Len(mains) = 1 /\ mains[1].pages = P
        /\ mains[1].mtime = 0 /\ mains[1].wal = TRUE
    BY <1>4, FileType
  <2> DEFINE W == [gen |-> 0, ctime |-> 0, frames |-> <<f1, f2>>]
  <2>2. <<f1, f2>> \in Seq(FrameSet) /\ Len(<<f1, f2>>) = 2
        /\ <<f1, f2>>[1] = f1 /\ <<f1, f2>>[2] = f2 /\ DOMAIN <<f1, f2>> = {1, 2}
    OBVIOUS
  <2>3. W \in WalFile /\ W.gen = 0 /\ W.ctime = 0 /\ W.frames = <<f1, f2>>
    BY <2>2, InitValues DEF WalFile
  <2>4. wals \in Seq(WalFile) /\ Len(wals) = 1 /\ wals[1] = W
    BY <1>4, <2>3
  <2>5. DOMAIN mains = {1} /\ DOMAIN wals = {1}
    BY <2>1, <2>4
  <2> HIDE DEF W
  <2>6. DiskTypes
    <3>1. \A i \in DOMAIN wals : Len(wals[i].frames) <= MaxFrames
      BY <1>2, <2>2, <2>3, <2>4, <2>5
    <3>2. main \in DOMAIN mains /\ wal \in 0..Len(wals) /\ seen \subseteq Seq(Val)
      <4>1. main \in DOMAIN mains
        BY <1>1, <2>5
      <4>2. wal \in 0..Len(wals)
        BY <1>4, <2>4
      <4>3. seen \subseteq Seq(Val)
        BY <1>1, <1>4
      <4> QED
        BY <4>1, <4>2, <4>3
    <3>3. /\ journal \in Seq(Val) /\ mx \in Nat /\ pending \in Nat /\ alive \in BOOLEAN
          /\ writes \in 0..MaxWrites /\ db \in Seq(Val)
      <4>1. mx \in Nat /\ db \in Seq(Val)
        BY <1>4
      <4> QED
        BY <1>1, <1>2, <4>1
    <3> QED
      BY <1>1, <2>1, <2>4, <3>1, <3>2, <3>3 DEF DiskTypes
  <2>7. Stamps
    <3>1. \A k \in {1, 2} : <<f1, f2>>[k].gen <= 0
      BY <1>4, <2>2
    <3>2. \A i \in DOMAIN wals : /\ wals[i].ctime <= writes /\ wals[i].gen <= writes
                                 /\ \A k \in DOMAIN wals[i].frames : wals[i].frames[k].gen <= writes
      BY <1>1, <2>2, <2>3, <2>4, <2>5, <3>1
    <3>3. \A i \in DOMAIN mains : mains[i].mtime <= writes
      BY <1>1, <2>1, <2>5
    <3> QED
      BY <1>1, <3>2, <3>3 DEF Stamps
  <2>8. Database
    <3>1. mx + pending <= Len(<<f1, f2>>) /\ mx + pending = m /\ m \in 1..2
      BY <1>1, <1>4, <2>2
    <3>2. Commits(<<f1, f2>>, mx)
      BY <1>4, <2>2 DEF Commits
    <3>3. \A i \in 1..m : <<f1, f2>>[i].gen = 0 /\ Follows(<<f1, f2>>, i)
      BY <1>4, <2>2 DEF Follows
    <3>4. \A i \in m + 1..2 : <<f1, f2>>[i].gen = 0 => <<f1, f2>>[i].size = 0
      BY <1>4, <2>2
    <3>5. wals[wal].frames = <<f1, f2>> /\ wals[wal].gen = 0 /\ mains[main].pages = P
          /\ mains[main].wal
      BY <1>1, <1>4, <2>1, <2>3, <2>4
    <3>6. Covers(mains[main].pages, wals[wal].frames, mx, db)
      BY <1>4, <3>5
    <3>7. \A i \in mx + 1..Len(wals[wal].frames) : wals[wal].frames[i].gen = wals[wal].gen =>
                                                     wals[wal].frames[i].size = 0
      BY <1>4, <2>2, <3>4, <3>5
    <3>8. \A i \in 1..mx + pending : /\ wals[wal].frames[i].gen = wals[wal].gen
                                     /\ Follows(wals[wal].frames, i)
      BY <3>1, <3>3, <3>5
    <3>9. mx + pending <= Len(wals[wal].frames) /\ Commits(wals[wal].frames, mx)
      BY <3>1, <3>2, <3>5
    <3>10. db # << >> /\ db \in seen /\ P # << >> /\ wal # 0
      BY <1>1, <1>4
    <3> QED
      BY <1>1, <3>5, <3>6, <3>7, <3>8, <3>9, <3>10 DEF Database
  <2> QED
    BY <2>6, <2>7, <2>8
<1>5. ASSUME NEW g \in {-1, 0}, NEW p \in {1, 2}, NEW v \in {-3, -2, -1}, NEW n \in {0, 2},
             NEW b \in {NoFrame, <<1, -2>>}
      PROVE  /\ Frame(g, p, v, n, b) \in FrameSet
             /\ Frame(g, p, v, n, b).gen = g /\ Frame(g, p, v, n, b).page = p
             /\ Frame(g, p, v, n, b).val = v /\ Frame(g, p, v, n, b).size = n
             /\ Frame(g, p, v, n, b).prev = b
  <2>1. /\ g \in -1..MaxWrites /\ p \in 1..MaxPages /\ v \in Val /\ n \in 0..MaxPages
        /\ b \in (0..MaxPages) \X Val
    BY InitValues
  <2> QED
    BY <2>1 DEF Frame, FrameSet
<1>6. CASE \E a \in {-9, -2}, b \in {-8, -1} : InitCommitted(a, b)
  <2>1. PICK a \in {-9, -2}, b \in {-8, -1} : InitCommitted(a, b)
    BY <1>6
  <2> DEFINE f1 == Frame(0, 1, -2, 0, NoFrame)
             f2 == Frame(0, 2, -1, 2, <<1, -2>>)
  <2>2. /\ f1 \in FrameSet /\ f1.gen = 0 /\ f1.page = 1 /\ f1.val = -2 /\ f1.prev = NoFrame
        /\ f2 \in FrameSet /\ f2.gen = 0 /\ f2.page = 2 /\ f2.val = -1 /\ f2.size = 2
        /\ f2.prev = <<1, -2>>
    BY <1>5
  <2>3. /\ mains = <<File(<<a, b>>, TRUE)>>
        /\ wals = <<[gen |-> 0, ctime |-> 0, frames |-> <<f1, f2>>]>>
        /\ wal = 1 /\ mx = 2 /\ db = <<-2, -1>>
    BY <2>1 DEF InitCommitted
  <2> HIDE DEF f1, f2
  <2>4. Covers(<<a, b>>, <<f1, f2>>, 2, <<-2, -1>>)
    <3>1. \A q \in 1..2 : \E i \in 1..2 : /\ <<f1, f2>>[i].page = q
                                          /\ <<-2, -1>>[q] = <<f1, f2>>[i].val
                                          /\ \A j \in i + 1..2 : <<f1, f2>>[j].page # q
      <4>1. /\ <<f1, f2>>[1].page = 1 /\ <<f1, f2>>[1].val = -2
            /\ <<f1, f2>>[2].page = 2 /\ <<f1, f2>>[2].val = -1
        BY <2>2
      <4>2. ASSUME NEW q \in 1..2 PROVE q = 1 \/ q = 2
        OBVIOUS
      <4> QED
        BY <4>1, <4>2
    <3>2. Len(<<-2, -1>>) = 2 /\ <<f1, f2>>[2].size = 2
      BY <2>2
    <3> QED
      BY <3>1, <3>2 DEF Covers
  <2>5. <<a, b>> \in Seq(Val) /\ <<a, b>> # << >> /\ <<-2, -1>> \in Seq(Val)
        /\ <<-2, -1>> # << >>
    BY InitValues
  <2>6. Id(f1) = <<1, -2>>
    BY <2>2 DEF Id
  <2>7. /\ 2 \in {1, 2} /\ f2.gen = (IF 2 = 2 THEN 0 ELSE -1)
        /\ (2 = 2 => f2.prev = Id(f1) /\ f2.size > 0) /\ (2 = 1 => f1.size > 0)
    BY <2>2, <2>6
  <2> QED
    BY <1>4, <2>2, <2>3, <2>4, <2>5, <2>7
<1>7. CASE InitRestarted
  <2> DEFINE f1 == Frame(0, 1, -3, 2, NoFrame)
             f2 == Frame(-1, 2, -1, 2, <<1, -2>>)
  <2>2. /\ f1 \in FrameSet /\ f1.gen = 0 /\ f1.page = 1 /\ f1.val = -3 /\ f1.prev = NoFrame
        /\ f1.size = 2 /\ f2 \in FrameSet /\ f2.gen = -1
    BY <1>5
  <2>3. /\ mains = <<File(<<-2, -1>>, TRUE)>>
        /\ wals = <<[gen |-> 0, ctime |-> 0, frames |-> <<f1, f2>>]>>
        /\ wal = 1 /\ mx = 1 /\ db = <<-3, -1>>
    BY <1>7 DEF InitRestarted
  <2> HIDE DEF f1, f2
  <2>4. Covers(<<-2, -1>>, <<f1, f2>>, 1, <<-3, -1>>)
    <3>1. /\ <<f1, f2>>[1].page = 1 /\ <<f1, f2>>[1].val = -3 /\ <<f1, f2>>[1].size = 2
          /\ Len(<<-3, -1>>) = 2 /\ <<-3, -1>>[1] = -3 /\ <<-3, -1>>[2] = -1
          /\ <<-2, -1>>[2] = -1 /\ 2 \in DOMAIN <<-2, -1>>
      BY <2>2
    <3>2. ASSUME NEW q \in 1..2
          PROVE  \/ \E i \in 1..1 : /\ <<f1, f2>>[i].page = q
                                    /\ <<-3, -1>>[q] = <<f1, f2>>[i].val
                                    /\ \A j \in i + 1..1 : <<f1, f2>>[j].page # q
                 \/ /\ \A i \in 1..1 : <<f1, f2>>[i].page # q
                    /\ <<-3, -1>>[q] =
                         IF q \in DOMAIN <<-2, -1>> THEN <<-2, -1>>[q] ELSE 0
      <4>1. CASE q = 1
        <5>1. 1 \in 1..1 /\ \A j \in 1 + 1..1 : FALSE
          OBVIOUS
        <5> QED
          BY <3>1, <4>1, <5>1
      <4>2. CASE q = 2
        <5>1. \A i \in 1..1 : i = 1
          OBVIOUS
        <5> QED
          BY <3>1, <4>2, <5>1
      <4> QED
        BY <4>1, <4>2
    <3> QED
      BY <3>1, <3>2 DEF Covers
  <2>5. <<-2, -1>> \in Seq(Val) /\ <<-2, -1>> # << >> /\ <<-3, -1>> \in Seq(Val)
        /\ <<-3, -1>> # << >>
    BY InitValues
  <2>7. /\ 1 \in {1, 2} /\ f2.gen = (IF 1 = 2 THEN 0 ELSE -1)
        /\ (1 = 2 => f2.prev = Id(f1) /\ f2.size > 0) /\ (1 = 1 => f1.size > 0)
    BY <2>2
  <2> QED
    BY <1>4, <2>2, <2>3, <2>4, <2>5, <2>7
<1> QED
  BY <1>3, <1>6, <1>7, InitDisk

LEMMA InvariantInit == Init => CopyInv /\ CleanInv
BY InitReader, InitDatabase DEF CopyInv, DiskInv

(* What one step may do, the body of FailureHasCause.                       *)
HasCause ==
  \/ attempt' > attempt
  \/ out' # out /\ out' \in {"busy", "locked", "invariant", "unsafe"}
  => dirty \/ late' \/ (path = "cow" /\ Unusable)

LEMMA InvariantStep ==
    ASSUME CopyInv, CleanInv, [Next]_vars
    PROVE  CopyInv' /\ CleanInv' /\ [HasCause]_vars
<1>1. attempt \in Nat
  BY CopyAssumption DEF CopyInv, DiskInv, ReaderTypes
<1>2. CASE Agent
  BY <1>1, <1>2, AgentStep DEF HasCause
<1>3. CASE Read
  BY <1>1, <1>3, ReadStep DEF HasCause, Cause
<1>4. CASE UNCHANGED vars
  <2>1. /\ UNCHANGED <<mains, main, wals, wal, journal, mx, pending, alive, db, writes>>
        /\ UNCHANGED <<pc, path, attempt, pin, pinned, gen, at, prefix, copy, frames, late, out>>
        /\ UNCHANGED <<seen, dirty>>
    BY <1>4 DEF vars, disk, reader
  <2>2. DiskInv'
    BY <2>1 DEF CopyInv, DiskInv, DiskTypes, ReaderTypes, Stamps, Database, Follows
  <2>3. /\ SameMain' = SameMain /\ SameWal' = SameWal /\ Good' = Good /\ Linked' = Linked
        /\ Checks' = Checks /\ Valid(wals[wal])' = Valid(wals[wal])
    BY <2>1 DEF SameMain, SameWal, Good, Linked, Checks, Fingerprint, WalFingerprint, Valid, Follows
  <2>4. path = "family" => FamilyInv'
    BY <2>1, <2>3 DEF CopyInv, FamilyInv
  <2>5. path = "cow" => CowInv'
    <3>1. \A c : Replayed(c)' <=> Replayed(c)
      BY <2>1 DEF Replayed
    <3> QED
      BY <2>1, <2>3, <3>1 DEF CopyInv, CowInv
  <2>6. path = "live" => LiveInv'
    BY <2>1, <2>3 DEF CopyInv, LiveInv
  <2>7. CleanInv'
    BY <2>1, <2>3 DEF CleanInv, Follows
  <2> QED
    BY <1>4, <2>1, <2>2, <2>4, <2>5, <2>6, <2>7 DEF CopyInv
<1> QED
  BY <1>2, <1>3, <1>4 DEF Next

LEMMA InvariantAlways == Spec => [](CopyInv /\ CleanInv)
<1>1. CopyInv /\ CleanInv /\ [Next]_vars => (CopyInv /\ CleanInv)'
  BY InvariantStep
<1> QED
  BY <1>1, InvariantInit, PTL DEF Spec

LEMMA InvariantTypes ==
    ASSUME CopyInv
    PROVE  TypeOK
<1>1. DiskTypes /\ ReaderTypes /\ Stamps /\ Database
  BY DEF CopyInv, DiskInv
<1>2. ASSUME NEW i \in DOMAIN mains
      PROVE  mains[i].pages \in Seq(Val) /\ mains[i].mtime \in 0..MaxWrites
  <2>1. mains[i] \in MainFile
    BY <1>1 DEF DiskTypes
  <2> QED
    BY <2>1 DEF MainFile
<1>3. ASSUME NEW i \in DOMAIN wals
      PROVE  wals[i].frames \in Seq(FrameSet) /\ Len(wals[i].frames) <= MaxFrames
  <2>1. wals[i] \in WalFile /\ Len(wals[i].frames) <= MaxFrames
    BY <1>1 DEF DiskTypes
  <2> QED
    BY <2>1 DEF WalFile
<1>4. main \in DOMAIN mains /\ wal \in 0..Len(wals)
  BY <1>1 DEF DiskTypes
<1>5. /\ wal # 0 => mx + pending <= Len(wals[wal].frames)
      /\ journal # << >> => wal = 0
      /\ db \in seen
  BY <1>1 DEF Database
<1> QED
  BY <1>1, <1>2, <1>3, <1>4, <1>5 DEF TypeOK, ReaderTypes

-----------------------------------------------------------------------------
(* The files are sequences of pages and frames within the bounds, and the   *)
(* reader is at a step of the path it was called for.                       *)
THEOREM CopyTypeCorrect == Spec => []TypeOK
BY InvariantAlways, InvariantTypes, PTL

(* What a call hands out is one committed state of the database, one it     *)
(* held during the successful attempt; in the live path the main file       *)
(* keeps it as long as the transaction is open.                             *)
THEOREM ReadsOneCommit == Spec => []OneCommit
<1>1. CopyInv => OneCommit
  <2>1. CopyInv => path \in Path
    BY DEF CopyInv, DiskInv, ReaderTypes
  <2> QED
    BY <2>1 DEF CopyInv, FamilyInv, CowInv, LiveInv, OneCommit, Path
<1> QED
  BY <1>1, InvariantAlways, PTL

(* An attempt is given up, and a call fails as busy, locked, unsafe or on   *)
(* its own checks, only if the agent wrote during the attempt, the deadline *)
(* passed or the WAL cannot be used.                                        *)
THEOREM FailuresHaveCause == Spec => FailureHasCause
<1>1. CopyInv /\ CleanInv /\ [Next]_vars => [HasCause]_vars
  BY InvariantStep
<1> QED
  BY <1>1, InvariantAlways, PTL DEF Spec, FailureHasCause, HasCause
=============================================================================
