--------------------------- MODULE MultiTargetProofs -------------------------
(***************************************************************************)
(* Locking several roots never ends in a circle of waiting commands,       *)
(* compensation never destroys what users write, a command installs every  *)
(* target or puts every root back, and a root at rest keeps to its         *)
(* manifest.                                                               *)
(***************************************************************************)
EXTENDS MultiTarget, WellFoundedInduction, SequenceTheorems, TLAPS

-----------------------------------------------------------------------------
(* What the operators of Ownership return.                                 *)

LEMMA NoManifestType == NoManifest \in Manifest
BY DEF NoManifest, Manifest

LEMMA BundleType ==
    ASSUME NEW b \in Bundle
    PROVE  /\ b.release \in Release
           /\ b.files \in [Path -> Digest \cup {Absent}]
           /\ \A f \in Files(b) : b.files[f] \in Digest
BY BundleAssumption DEF Files

LEMMA WithClaimType ==
    ASSUME NEW m \in Manifest, NEW c \in Claim, NEW b \in Bundle
    PROVE  WithClaim(m, c, b) \in Manifest
BY BundleType DEF WithClaim, Manifest, Files

LEMMA WithoutClaimType ==
    ASSUME NEW m \in Manifest, NEW c \in Claim
    PROVE  WithoutClaim(m, c) \in Manifest
BY NoManifestType DEF WithoutClaim, Manifest

LEMMA ContentType ==
    ASSUME NEW b \in Bundle, NEW f \in Path
    PROVE  b.files[f] \in Leaf \ UserData
BY BundleType, ContentAssumption DEF Leaf, Content

LEMMA PayloadAfterType ==
    ASSUME NEW m \in Manifest, NEW new, NEW pay \in [Path -> Leaf], NEW b \in Bundle
    PROVE  PayloadAfter(m, new, pay, b) \in [Path -> Leaf]
BY ContentType DEF PayloadAfter, Leaf

-----------------------------------------------------------------------------
(* Least and greatest roots. *)

LEMMA LeastOf ==
    ASSUME NEW S \in SUBSET Nat, S # {}
    PROVE  Min(S) \in S /\ \A y \in S : Min(S) <= y
<1>1. PICK x \in S : \A y \in S : ~(<<y, x>> \in OpToRel(<, Nat))
  BY NatLessThanWellFounded, WFMin
<1>2. ASSUME NEW y \in S PROVE x <= y
  <2>1. <<y, x>> \in OpToRel(<, Nat) <=> (<<y, x>> \in Nat \X Nat /\ <<y, x>>[1] < <<y, x>>[2])
    BY DEF OpToRel
  <2>2. x \in Nat /\ y \in Nat
    OBVIOUS
  <2>3. ~(y < x)
    BY <1>1, <2>1, <2>2
  <2> QED
    BY <2>2, <2>3
<1> QED
  BY <1>2 DEF Min

LEMMA GreatestOf ==
    ASSUME NEW S \in SUBSET Root, S # {}
    PROVE  Max(S) \in S /\ \A y \in S : y <= Max(S)
<1> DEFINE T == {Roots - r : r \in S}
<1>0. \A r \in S : r \in Nat /\ Roots - r \in Nat
  BY RequestAssumption DEF Root
<1>1. T \in SUBSET Nat /\ T # {}
  BY <1>0
<1>2. PICK r \in S : Min(T) = Roots - r
  BY <1>1, LeastOf
<1>3. \A y \in S : Roots - r <= Roots - y
  BY <1>1, <1>2, LeastOf, SMTT(30)
<1>4. \A y \in S : r >= y
  BY <1>0, <1>3, RequestAssumption
<1>5. Max(S) \in S /\ \A y \in S : Max(S) >= y
  BY <1>4 DEF Max
<1> QED
  BY <1>0, <1>5

-----------------------------------------------------------------------------
(* Types. *)

LEMMA ConstantTypes ==
    /\ NoJournal \in Journal
    /\ NoMem \in Mem
    /\ \A q \in Request : q.bundle \in Bundle /\ q.targets \in SUBSET (Claim \X Root)
<1>1. (CHOOSE b \in Bundle : TRUE) \in Bundle
  BY BundleAssumption
<1>2. <<>> \in Seq(CheckpointType)
  OBVIOUS
<1>3. NoMem \in Mem
  BY <1>1, <1>2 DEF NoMem, Mem
<1> QED
  BY <1>3, RequestAssumption DEF NoJournal, Journal, Leaf

LEMMA MemTypes ==
    ASSUME TypeOK, NEW p \in Proc
    PROVE  /\ mem[p] \in Mem
           /\ mem[p].bundle \in Bundle
           /\ mem[p].targets \in SUBSET (Claim \X Root)
           /\ mem[p].todo \in SUBSET mem[p].targets
           /\ mem[p].cps \in Seq(CheckpointType)
           /\ mem[p].files \in SUBSET Path
           /\ mem[p].gone \in SUBSET Path
BY DEF TypeOK, Mem

LEMMA SetMem ==
    ASSUME TypeOK, NEW p \in Proc, NEW m \in Mem, mem' = [mem EXCEPT ![p] = m],
           m.todo \subseteq m.targets,
           \A q \in Proc \ {p} : pc'[q] = pc[q],
           pc'[p] = "restore" => m.cps # <<>>
    PROVE  /\ mem' \in [Proc -> Mem]
           /\ \A q \in Proc : /\ mem'[q].todo \subseteq mem'[q].targets
                              /\ pc'[q] = "restore" => mem'[q].cps # <<>>
BY DEF TypeOK

LEMMA GotoType ==
    ASSUME TypeOK, NEW p \in Proc,
           NEW ph \in {"idle", "locking", "install", "undo", "restore", "release"},
           Goto(p, ph)
    PROVE  /\ pc' \in [Proc -> {"idle", "locking", "install", "undo", "restore", "release"}]
           /\ pc'[p] = ph
           /\ \A q \in Proc \ {p} : pc'[q] = pc[q]
BY DEF TypeOK, Goto

LEMMA FaultType ==
    ASSUME TypeOK, NEW p \in Proc, NEW n \in Nat, Fault(p, n)
    PROVE  spent' \in Spent
BY DEF TypeOK, Spent, Fault

LEMMA WithGroupType ==
    ASSUME NEW m \in Manifest, NEW cs \in SUBSET Claim, NEW b \in Bundle
    PROVE  WithGroup(m, cs, b) \in Manifest
BY BundleType DEF WithGroup, Manifest, Files

LEMMA PlansType ==
    ASSUME TypeOK, NEW r \in Root, NEW cs \in SUBSET Claim, NEW b \in Bundle,
           NEW plan \in Plans(r, cs, b)
    PROVE  plan.manifest \in Manifest
<1>1. manifest[r] \in Manifest
  BY DEF TypeOK
<1>2. WithGroup(manifest[r], cs, b) \in Manifest
  BY <1>1, WithGroupType
<1>3. \A c \in Claim : WithClaim(manifest[r], c, b) \in Manifest
  BY <1>1, WithClaimType
<1>4. CASE plan = [claims |-> cs, manifest |-> WithGroup(manifest[r], cs, b)]
  BY <1>2, <1>4
<1>5. CASE \E c \in Claim : plan = [claims |-> {c}, manifest |-> WithClaim(manifest[r], c, b)]
  BY <1>3, <1>5
<1>6. \/ plan = [claims |-> cs, manifest |-> WithGroup(manifest[r], cs, b)]
      \/ \E c \in Claim : plan = [claims |-> {c}, manifest |-> WithClaim(manifest[r], c, b)]
  BY DEF Plans
<1> QED
  BY <1>4, <1>5, <1>6

LEMMA NextRootType ==
    ASSUME TypeOK, NEW p \in Proc, mem[p].todo # {}
    PROVE  /\ NextRoot(p) \in RootsOf(mem[p].targets)
           /\ NextRoot(p) \in Root
           /\ Wanting(mem[p].todo, NextRoot(p)) \in SUBSET Claim
<1>1. RootsOf(mem[p].targets) \in SUBSET Root /\ RootsOf(mem[p].todo) \in SUBSET RootsOf(mem[p].targets)
  BY MemTypes DEF RootsOf
<1>2. RootsOf(mem[p].todo) # {}
  BY DEF RootsOf
<1>3. Root \in SUBSET Nat
  BY RequestAssumption DEF Root
<1>4. NextRoot(p) \in RootsOf(mem[p].todo)
  BY <1>1, <1>2, <1>3, LeastOf DEF NextRoot
<1>5. Wanting(mem[p].todo, NextRoot(p)) \in SUBSET Claim
  BY MemTypes DEF Wanting
<1> QED
  BY <1>1, <1>4, <1>5

LEMMA InterruptedType ==
    ASSUME TypeOK, NEW r \in Root, NEW b \in Bundle, Interrupted(r, b)
    PROVE  live' \in [Root -> [Path -> Leaf]] /\ left' \in [Root -> Journal]
<1>1. \A f \in Path : b.files[f] \in Leaf
  BY ContentType
<1>2. live[r] \in [Path -> Leaf] /\ b.files \in [Path -> Digest \cup {Absent}]
  BY BundleType DEF TypeOK
<1> DEFINE different == {f \in Files(b) : live[r][f] # b.files[f]}
           existing  == {f \in Files(b) : live[r][f] # Absent}
<1>3. PICK listed \in SUBSET Files(b), changed \in SUBSET different :
         /\ different \subseteq listed
         /\ listed # {}
         /\ \E saved \in SUBSET (listed \cap existing) :
              /\ changed \cap existing \subseteq saved
              /\ left' = [left EXCEPT ![r] = [paths |-> listed, saved |-> saved,
                                              orig |-> live[r], new |-> b.files]]
         /\ live' = [live EXCEPT ![r] = [f \in Path |->
                        IF f \in changed THEN b.files[f] ELSE live[r][f]]]
  BY Zenon DEF Interrupted
<1>4. Files(b) \subseteq Path
  BY DEF Files
<1>5. \A saved \in SUBSET (listed \cap existing) :
         [paths |-> listed, saved |-> saved, orig |-> live[r], new |-> b.files] \in Journal
  BY <1>2, <1>4 DEF Journal
<1>6. [f \in Path |-> IF f \in changed THEN b.files[f] ELSE live[r][f]] \in [Path -> Leaf]
  BY <1>1, <1>2
<1> QED
  BY <1>3, <1>5, <1>6 DEF TypeOK

LEMMA TopType ==
    ASSUME TypeOK, NEW p \in Proc, mem[p].cps # <<>>
    PROVE  /\ Top(p) \in CheckpointType
           /\ Len(mem[p].cps) \in Nat \ {0}
           /\ Top(p) = mem[p].cps[Len(mem[p].cps)]
           /\ Popped(p) \in Mem
           /\ Popped(p).todo = mem[p].todo
           /\ Popped(p).targets = mem[p].targets
           /\ Popped(p).cps = SubSeq(mem[p].cps, 1, Len(mem[p].cps) - 1)
<1> DEFINE s == mem[p].cps
           t == SubSeq(s, 1, Len(s) - 1)
<1>1. s \in Seq(CheckpointType) /\ s # <<>> /\ mem[p] \in Mem
  BY MemTypes
<1>2. Len(s) \in Nat \ {0} /\ s[Len(s)] \in CheckpointType
  BY <1>1
<1>3. t \in Seq(CheckpointType)
  BY <1>1, <1>2
<1>4. Popped(p) = [mem[p] EXCEPT !.cps = t, !.files = {}, !.gone = {}]
  BY DEF Popped
<1> HIDE DEF t
<1>5. Popped(p) \in Mem /\ Popped(p).cps = t /\ Popped(p).todo = mem[p].todo /\ Popped(p).targets = mem[p].targets
  BY <1>1, <1>3, <1>4 DEF Mem
<1> QED
  BY <1>2, <1>5 DEF Top, t

LEMMA InstallRootType ==
    ASSUME TypeOK, NEW p \in Proc, InstallRoot(p)
    PROVE  TypeOK'
<1> DEFINE r == NextRoot(p)
           b == mem[p].bundle
<1>1. mem[p].todo # {} /\ pc[p] = "install"
  BY DEF InstallRoot
<1>2. PICK plan \in PlansNow(p) :
         /\ live' = [live EXCEPT ![r] = PayloadAfter(manifest[r], plan.manifest, live[r], b)]
         /\ manifest' = [manifest EXCEPT ![r] = plan.manifest]
         /\ mem' = [mem EXCEPT ![p].todo = {t \in @ : ~(t[2] = r /\ t[1] \in plan.claims)},
                               ![p].cps = Append(@, Checkpoint(r, b, plan.manifest))]
  BY Zenon DEF InstallRoot
<1>3. /\ r \in Root /\ b \in Bundle /\ mem[p] \in Mem
      /\ live[r] \in [Path -> Leaf] /\ manifest[r] \in Manifest
      /\ Wanting(mem[p].todo, r) \in SUBSET Claim
  BY <1>1, NextRootType, MemTypes DEF TypeOK
<1>4. plan.manifest \in Manifest
  BY <1>2, <1>3, PlansType DEF PlansNow
<1>5. Checkpoint(r, b, plan.manifest) \in CheckpointType
  BY <1>3, <1>4 DEF Checkpoint, CheckpointType, Files, Owned
<1>6. live' \in [Root -> [Path -> Leaf]]
  BY <1>2, <1>3, PayloadAfterType DEF TypeOK
<1>7. manifest' \in [Root -> Manifest]
  BY <1>2, <1>4 DEF TypeOK
<1> DEFINE todo == {t \in mem[p].todo : ~(t[2] = r /\ t[1] \in plan.claims)}
           cps  == Append(mem[p].cps, Checkpoint(r, b, plan.manifest))
           m    == [mem[p] EXCEPT !.todo = todo, !.cps = cps]
<1>8. todo \in SUBSET mem[p].todo /\ cps \in Seq(CheckpointType)
  <2>1. mem[p].cps \in Seq(CheckpointType)
    BY MemTypes
  <2>2. cps \in Seq(CheckpointType)
    BY <1>5, <2>1, AppendProperties
  <2> QED
    BY <2>2
<1>9. mem' = [mem EXCEPT ![p] = m]
  BY <1>2, <1>3 DEF TypeOK, Mem
<1> HIDE DEF todo, cps
<1>10. m \in Mem /\ m.todo = todo /\ m.targets = mem[p].targets
  BY <1>3, <1>8, MemTypes DEF Mem
<1>11. pc' = pc /\ UNCHANGED <<left, lock, edited, spent>>
  BY DEF InstallRoot
<1>12. m.todo \subseteq m.targets
  BY <1>8, <1>10, MemTypes
<1> HIDE DEF m
<1> QED
  BY <1>1, <1>6, <1>7, <1>9, <1>10, <1>11, <1>12, SetMem DEF TypeOK

(* The memory of a command with other files to restore. *)
FilesSet(p, fs, gs) == [mem[p] EXCEPT !.files = fs, !.gone = gs]

(* What unlinking a file and writing it anew have in common. *)
LEMMA FileStep ==
    ASSUME TypeOK, NEW p \in Proc, NEW f \in Path, RestoreFile(p, f) \/ WriteBack(p, f)
    PROVE  /\ pc[p] = "restore" /\ mem[p].cps # <<>>
           /\ UNCHANGED <<manifest, left, lock, pc, edited, spent>>
           /\ Top(p).root \in Root
           /\ \E x \in Leaf : live' = [live EXCEPT ![Top(p).root][f] = x]
           /\ \A r \in Root \ {Top(p).root} : live'[r] = live[r]
           /\ \E fs, gs \in SUBSET Path :
                 mem' = [mem EXCEPT ![p] = FilesSet(p, fs, gs)]
<1>1. /\ pc[p] = "restore" /\ mem[p].cps # <<>>
      /\ UNCHANGED <<manifest, left, lock, pc, edited, spent>>
  BY DEF RestoreFile, WriteBack, TypeOK
<1>2. Top(p).root \in Root /\ Top(p).live[f] \in Leaf /\ Absent \in Leaf
  BY <1>1, TopType DEF CheckpointType, Leaf
<1>3. \E x \in Leaf : live' = [live EXCEPT ![Top(p).root][f] = x]
  BY <1>2 DEF RestoreFile, WriteBack
<1>4. /\ mem[p].files \in SUBSET Path /\ mem[p].files \ {f} \in SUBSET Path
      /\ mem[p].gone \in SUBSET Path /\ {f} \in SUBSET Path /\ mem[p].gone \ {f} \in SUBSET Path
      /\ mem[p] \in Mem /\ mem \in [Proc -> Mem]
  BY MemTypes DEF TypeOK
<1>5. \/ mem' = [mem EXCEPT ![p] = [mem[p] EXCEPT !.files = mem[p].files \ {f}, !.gone = mem[p].gone]]
      \/ mem' = [mem EXCEPT ![p] = [mem[p] EXCEPT !.files = mem[p].files, !.gone = {f}]]
      \/ mem' = [mem EXCEPT ![p] = [mem[p] EXCEPT !.files = mem[p].files \ {f}, !.gone = mem[p].gone \ {f}]]
  <2>1. CASE RestoreFile(p, f) /\ Top(p).live[f] = Absent
    <3>1. mem' = [mem EXCEPT ![p] = [mem[p] EXCEPT !.files = @ \ {f}]]
      BY <2>1 DEF RestoreFile
    <3> QED
      BY <1>4, <3>1 DEF Mem
  <2>2. CASE RestoreFile(p, f) /\ Top(p).live[f] # Absent
    <3>1. mem' = [mem EXCEPT ![p] = [mem[p] EXCEPT !.gone = {f}]]
      BY <2>2 DEF RestoreFile
    <3> QED
      BY <1>4, <3>1 DEF Mem
  <2>3. CASE WriteBack(p, f)
    BY <1>4, <2>3, Zenon DEF WriteBack
  <2> QED
    BY <2>1, <2>2, <2>3
<1>6. \A r \in Root \ {Top(p).root} : live'[r] = live[r]
  <2>1. PICK x \in Leaf : live' = [live EXCEPT ![Top(p).root][f] = x]
    BY <1>3
  <2> QED
    BY <2>1 DEF TypeOK
<1>7. \E fs, gs \in SUBSET Path : mem' = [mem EXCEPT ![p] = FilesSet(p, fs, gs)]
  BY <1>4, <1>5 DEF FilesSet
<1> QED
  BY <1>1, <1>2, <1>3, <1>6, <1>7

(* Such a step leaves the request and the checkpoints alone. *)
LEMMA FileMemory ==
    ASSUME TypeOK, NEW p \in Proc, NEW fs \in SUBSET Path, NEW gs \in SUBSET Path
    PROVE  LET m == FilesSet(p, fs, gs)
           IN  /\ m \in Mem /\ m.files = fs /\ m.gone = gs
               /\ m.bundle = mem[p].bundle
               /\ m.todo = mem[p].todo /\ m.targets = mem[p].targets /\ m.cps = mem[p].cps
               /\ m.failed = mem[p].failed /\ m.start = mem[p].start
BY MemTypes DEF FilesSet, Mem

LEMMA FileType ==
    ASSUME TypeOK, NEW p \in Proc, NEW f \in Path, RestoreFile(p, f) \/ WriteBack(p, f)
    PROVE  TypeOK'
<1>1. /\ pc[p] = "restore" /\ mem[p].cps # <<>>
      /\ UNCHANGED <<manifest, left, lock, pc, edited, spent>>
      /\ Top(p).root \in Root
  BY FileStep
<1>2. live' \in [Root -> [Path -> Leaf]]
  <2>1. PICK x \in Leaf : live' = [live EXCEPT ![Top(p).root][f] = x]
    BY FileStep
  <2> QED
    BY <1>1, <2>1 DEF TypeOK
<1>3. PICK fs, gs \in SUBSET Path :
        mem' = [mem EXCEPT ![p] = FilesSet(p, fs, gs)]
  BY FileStep
<1> DEFINE m == FilesSet(p, fs, gs)
<1>4. m \in Mem /\ m.todo = mem[p].todo /\ m.targets = mem[p].targets /\ m.cps = mem[p].cps
  BY FileMemory
<1>5. mem' = [mem EXCEPT ![p] = m]
  BY <1>3
<1> HIDE DEF m
<1> QED
  BY <1>1, <1>2, <1>4, <1>5, SetMem, MemTypes DEF TypeOK

(* A manifest that is unlinked and not written anew. *)
LEMMA LostType ==
    ASSUME TypeOK, NEW p \in Proc, ManifestAllowed(p),
           manifest' = [manifest EXCEPT ![Top(p).root] = NoManifest]
    PROVE  mem[p].cps # <<>> /\ Top(p).root \in Root /\ manifest' \in [Root -> Manifest]
<1>1. mem[p].cps # <<>>
  BY DEF ManifestAllowed
<1>2. Top(p).root \in Root
  BY <1>1, TopType DEF CheckpointType
<1> QED
  BY <1>1, <1>2, NoManifestType DEF TypeOK

LEMMA CrashType ==
    ASSUME TypeOK, NEW p \in Proc, Crash(p)
    PROVE  TypeOK'
<1>1. /\ live' \in [Root -> [Path -> Leaf]] /\ left' \in [Root -> Journal]
      /\ manifest' \in [Root -> Manifest]
  <2>1. CASE UNCHANGED roots
    BY <2>1 DEF TypeOK, roots
  <2>2. CASE mem[p].todo # {} /\ Interrupted(NextRoot(p), mem[p].bundle) /\ UNCHANGED manifest
    BY <2>2, NextRootType, InterruptedType, MemTypes DEF TypeOK
  <2>3. CASE /\ ManifestAllowed(p)
             /\ manifest' = [manifest EXCEPT ![Top(p).root] = NoManifest]
             /\ UNCHANGED <<live, left>>
    BY <2>3, LostType DEF TypeOK
  <2> QED
    BY <2>1, <2>2, <2>3 DEF Crash
<1>2. mem' = [mem EXCEPT ![p] = NoMem] /\ NoMem.todo \subseteq NoMem.targets
  BY DEF Crash, NoMem
<1>3. pc' \in [Proc -> {"idle", "locking", "install", "undo", "restore", "release"}]
      /\ pc'[p] = "idle" /\ \A q \in Proc \ {p} : pc'[q] = pc[q]
  BY GotoType DEF Crash
<1>4. lock' \in [Root -> Proc \cup {Nobody}] /\ spent' \in Spent
  BY DEF Crash, TypeOK, Spent
<1> QED
  BY <1>1, <1>2, <1>3, <1>4, ConstantTypes, SetMem DEF Crash, TypeOK

(* The steps that change nothing but pc, mem, locks and counters. *)
LEMMA ControlType ==
    ASSUME TypeOK, NEW p \in Proc, NEW m \in Mem, mem' = [mem EXCEPT ![p] = m],
           m.todo \subseteq m.targets,
           NEW ph \in {"idle", "locking", "install", "undo", "release"}, Goto(p, ph),
           UNCHANGED <<live, left>>, manifest' \in [Root -> Manifest],
           lock' \in [Root -> Proc \cup {Nobody}],
           edited' \in SUBSET (Root \X Path), spent' \in Spent
    PROVE  TypeOK'
BY GotoType, SetMem DEF TypeOK

LEMMA MemUpdates ==
    ASSUME TypeOK, NEW p \in Proc
    PROVE  /\ \A o \in {"ok", "error", "recovery"} :
                 LET m == [mem[p] EXCEPT !.outcome = o]
                 IN  m \in Mem /\ m.todo \subseteq m.targets
           /\ LET m == [mem[p] EXCEPT !.start = [live |-> live, manifest |-> manifest]]
              IN  m \in Mem /\ m.todo \subseteq m.targets
           /\ NoMem \in Mem /\ NoMem.todo \subseteq NoMem.targets
<1>1. \A o \in {"ok", "error", "recovery"} :
        LET m == [mem[p] EXCEPT !.outcome = o]
        IN  m \in Mem /\ m.todo = mem[p].todo /\ m.targets = mem[p].targets
  BY MemTypes DEF Mem
<1>2. [live |-> live, manifest |-> manifest] \in
          [live : [Root -> [Path -> Leaf]], manifest : [Root -> Manifest]]
  BY DEF TypeOK
<1>3. LET m == [mem[p] EXCEPT !.start = [live |-> live, manifest |-> manifest]]
      IN  m \in Mem /\ m.todo = mem[p].todo /\ m.targets = mem[p].targets
  BY <1>2, MemTypes DEF Mem
<1>4. NoMem.todo \subseteq NoMem.targets
  BY DEF NoMem
<1> QED
  BY <1>1, <1>3, <1>4, MemTypes, ConstantTypes

LEMMA StepType ==
    ASSUME TypeOK, NEW p \in Proc, Step(p)
    PROVE  TypeOK'
<1>1. ASSUME NEW q \in Request, Ask(p, q) PROVE TypeOK'
  <2> DEFINE m == [NoMem EXCEPT !.bundle = q.bundle, !.targets = q.targets, !.todo = q.targets]
  <2>1. m \in Mem /\ m.todo = q.targets /\ m.targets = q.targets
    BY ConstantTypes DEF Mem
  <2>2. mem' = [mem EXCEPT ![p] = m] /\ Goto(p, "locking")
    BY <1>1 DEF Ask
  <2> HIDE DEF m
  <2> QED
    BY <1>1, <2>1, <2>2, ControlType DEF Ask, TypeOK, roots
<1>2. ASSUME NEW r \in Root, LockRoot(p, r) PROVE TypeOK'
  BY <1>2 DEF LockRoot, TypeOK, roots
<1>3. CASE LockTimeout(p)
  <2>1. mem' = [mem EXCEPT ![p] = [mem[p] EXCEPT !.outcome = "error"]]
    BY <1>3 DEF LockTimeout, TypeOK, Mem
  <2> QED
    BY <1>3, <2>1, MemUpdates, ControlType DEF LockTimeout, TypeOK, roots
<1>4. CASE LocksHeld(p)
  <2>1. CASE \A r \in Held(p) : left[r] = NoJournal
    <3>1. mem' = [mem EXCEPT ![p] = [mem[p] EXCEPT !.start = [live |-> live, manifest |-> manifest]]]
      BY <1>4, <2>1 DEF LocksHeld, TypeOK, Mem
    <3> QED
      BY <1>4, <2>1, <3>1, MemUpdates, ControlType DEF LocksHeld, TypeOK, roots
  <2>2. CASE ~(\A r \in Held(p) : left[r] = NoJournal)
    <3>1. mem' = [mem EXCEPT ![p] = [mem[p] EXCEPT !.outcome = "error"]]
      BY <1>4, <2>2 DEF LocksHeld, TypeOK, Mem
    <3> QED
      BY <1>4, <2>2, <3>1, MemUpdates, ControlType DEF LocksHeld, TypeOK, roots
  <2> QED
    BY <2>1, <2>2
<1>5. CASE InstallRoot(p)
  BY <1>5, InstallRootType
<1>6. CASE AllInstalled(p)
  <2>1. mem' = [mem EXCEPT ![p] = mem[p]]
    BY <1>6 DEF AllInstalled, TypeOK
  <2> QED
    BY <1>6, <2>1, MemTypes, ControlType DEF AllInstalled, TypeOK, roots
<1>7. CASE InstallFails(p)
  <2>1. mem' = [mem EXCEPT ![p] = [mem[p] EXCEPT !.outcome = "error"]]
    BY <1>7 DEF InstallFails, StartUndo, TypeOK, Mem
  <2>2. spent' \in Spent
    BY <1>7, FaultType DEF InstallFails, TypeOK
  <2> QED
    BY <1>7, <2>1, <2>2, MemUpdates, ControlType DEF InstallFails, StartUndo, TypeOK, roots
<1>8. CASE InstallBreaks(p)
  <2>1. mem' = [mem EXCEPT ![p] = [mem[p] EXCEPT !.outcome = "error"]]
    BY <1>8 DEF InstallBreaks, StartUndo, TypeOK, Mem
  <2>2. spent' \in Spent
    BY <1>8, FaultType DEF InstallBreaks
  <2>3. live' \in [Root -> [Path -> Leaf]] /\ left' \in [Root -> Journal]
    BY <1>8, NextRootType, InterruptedType, MemTypes DEF InstallBreaks
  <2>4. pc' \in [Proc -> {"idle", "locking", "install", "undo", "restore", "release"}]
        /\ pc'[p] = "undo" /\ \A q \in Proc \ {p} : pc'[q] = pc[q]
    BY <1>8, GotoType DEF InstallBreaks, StartUndo
  <2> QED
    BY <1>8, <2>1, <2>2, <2>3, <2>4, MemUpdates, SetMem DEF InstallBreaks, TypeOK
<1>9. CASE RestoreManifest(p)
  <2> DEFINE m == [mem[p] EXCEPT !.files = Top(p).files, !.gone = {}]
  <2>1. mem[p].cps # <<>> /\ mem' = [mem EXCEPT ![p] = m]
    BY <1>9 DEF RestoreManifest, ManifestAllowed, TypeOK, Mem
  <2>2. Top(p).files \in SUBSET Path /\ Top(p).manifest \in Manifest /\ Top(p).root \in Root
    BY <2>1, TopType DEF CheckpointType
  <2>3. m \in Mem /\ m.todo = mem[p].todo /\ m.targets = mem[p].targets /\ m.cps = mem[p].cps
    BY <2>2, MemTypes DEF Mem
  <2> HIDE DEF m
  <2>4. manifest' \in [Root -> Manifest]
    BY <1>9, <2>2 DEF RestoreManifest, TypeOK
  <2>5. pc' \in [Proc -> {"idle", "locking", "install", "undo", "restore", "release"}]
        /\ \A q \in Proc \ {p} : pc'[q] = pc[q]
    BY <1>9, GotoType DEF RestoreManifest
  <2> QED
    BY <1>9, <2>1, <2>3, <2>4, <2>5, SetMem, MemTypes DEF RestoreManifest, TypeOK
<1>10. ASSUME NEW f \in Path, RestoreFile(p, f) \/ WriteBack(p, f) PROVE TypeOK'
  BY <1>10, FileType
<1>11. CASE CheckpointRestored(p)
  <2>1. mem[p].cps # <<>>
    BY <1>11 DEF CheckpointRestored, TypeOK
  <2> QED
    BY <1>11, <2>1, TopType, MemTypes, ControlType DEF CheckpointRestored, TypeOK, roots
<1>12. CASE CheckpointFails(p) \/ ManifestLost(p)
  <2> DEFINE m == [Popped(p) EXCEPT !.failed = TRUE]
  <2>1. mem[p].cps # <<>> /\ mem' = [mem EXCEPT ![p] = m]
    BY <1>12 DEF CheckpointFails, ManifestLost, ManifestAllowed, GiveUp
  <2>2. m \in Mem /\ m.todo = mem[p].todo /\ m.targets = mem[p].targets
    BY <2>1, TopType DEF Mem
  <2> HIDE DEF m
  <2>3. spent' \in Spent
    BY <1>12, FaultType DEF CheckpointFails, ManifestLost, TypeOK
  <2>4. manifest' \in [Root -> Manifest]
    <3>1. CASE CheckpointFails(p)
      BY <3>1 DEF CheckpointFails, roots, TypeOK
    <3>2. CASE ManifestLost(p)
      BY <3>2, LostType DEF ManifestLost
    <3> QED
      BY <1>12, <3>1, <3>2
  <2>5. /\ Goto(p, "undo") /\ UNCHANGED <<live, left>>
        /\ lock' \in [Root -> Proc \cup {Nobody}] /\ edited' \in SUBSET (Root \X Path)
    BY <1>12 DEF CheckpointFails, ManifestLost, GiveUp, TypeOK, roots
  <2> QED
    BY <2>1, <2>2, <2>3, <2>4, <2>5, MemTypes, ControlType
<1>13. CASE UndoDone(p)
  <2>1. PICK o \in {"ok", "error", "recovery"} :
           mem' = [mem EXCEPT ![p] = [mem[p] EXCEPT !.outcome = o]]
    BY <1>13 DEF UndoDone, TypeOK, Mem
  <2> QED
    BY <1>13, <2>1, MemUpdates, ControlType DEF UndoDone, TypeOK, roots
<1>14. CASE Unlock(p)
  BY <1>14 DEF Unlock, TypeOK, roots
<1>15. CASE Return(p)
  BY <1>15, MemUpdates, ControlType DEF Return, TypeOK, roots
<1>16. CASE Crash(p)
  BY <1>16, CrashType
<1> QED
  BY <1>1, <1>2, <1>3, <1>4, <1>5, <1>6, <1>7, <1>8, <1>9, <1>10, <1>11, <1>12, <1>13,
     <1>14, <1>15, <1>16 DEF Step

LEMMA OthersType ==
    ASSUME TypeOK, Others
    PROVE  TypeOK'
<1>1. ASSUME NEW r \in Root, Recover(r) PROVE TypeOK'
  <2> DEFINE j == left[r]
             back(f) == IF f \in j.saved \/ (j.orig[f] = Absent /\ live[r][f] = j.new[f])
                        THEN j.orig[f] ELSE live[r][f]
  <2>1. j \in Journal /\ live[r] \in [Path -> Leaf]
    BY DEF TypeOK
  <2>2. \A f \in Path : back(f) \in Leaf
    BY <2>1 DEF Journal
  <2>3. [f \in Path |-> IF f \in j.paths THEN back(f) ELSE live[r][f]] \in [Path -> Leaf]
    BY <2>1, <2>2
  <2>4. live' = [live EXCEPT ![r] = [f \in Path |-> IF f \in j.paths THEN back(f) ELSE live[r][f]]]
    BY <1>1 DEF Recover
  <2>5. [j EXCEPT !.saved = {}] \in Journal
    BY <2>1 DEF Journal
  <2>6. left' \in [Root -> Journal]
    BY <1>1, <2>5, ConstantTypes DEF Recover, TypeOK
  <2>7. live' \in [Root -> [Path -> Leaf]]
    BY <2>3, <2>4 DEF TypeOK
  <2> QED
    BY <1>1, <2>6, <2>7 DEF Recover, TypeOK
<1>2. ASSUME NEW r \in Root, NEW c \in Claim, Uninstall(r, c) PROVE TypeOK'
  <2>1. WithoutClaim(manifest[r], c) \in Manifest
    BY WithoutClaimType DEF TypeOK
  <2>2. [f \in Path |-> IF f \in SoleOwned(manifest[r], c) /\ live[r][f] = manifest[r].sha[f]
                        THEN Absent ELSE live[r][f]] \in [Path -> Leaf]
    BY DEF TypeOK, Leaf
  <2>3. live' \in [Root -> [Path -> Leaf]] /\ manifest' \in [Root -> Manifest]
    BY <1>2, <2>1, <2>2 DEF Uninstall, TypeOK
  <2> QED
    BY <1>2, <2>3 DEF Uninstall, TypeOK
<1>3. ASSUME NEW r \in Root, NEW f \in Path, NEW d \in UserData \cup {Absent}, UserEdit(r, f, d)
      PROVE  TypeOK'
  <2>1. live' \in [Root -> [Path -> Leaf]]
    BY <1>3 DEF UserEdit, TypeOK, Leaf, Content
  <2>2. spent' \in Spent /\ edited' \in SUBSET (Root \X Path)
    BY <1>3 DEF UserEdit, TypeOK, Spent
  <2> QED
    BY <1>3, <2>1, <2>2 DEF UserEdit, TypeOK
<1> QED
  BY <1>1, <1>2, <1>3 DEF Others

(* Every state that installs into several roots reach is well typed.       *)
THEOREM MultiTypeCorrect == Spec => []TypeOK
<1>1. Init => TypeOK
  <2> SUFFICES ASSUME Init PROVE TypeOK
    OBVIOUS
  <2>1. live \in [Root -> [Path -> Leaf]]
    BY DEF Init, Leaf, Content
  <2>2. mem \in [Proc -> Mem] /\ \A p \in Proc : mem[p] = NoMem /\ pc[p] = "idle"
    BY ConstantTypes DEF Init
  <2>3. NoMem.todo \subseteq NoMem.targets
    BY DEF NoMem
  <2> QED
    BY <2>1, <2>2, <2>3, ConstantTypes, NoManifestType DEF Init, TypeOK, Spent
<1>2. TypeOK /\ [Next]_vars => TypeOK'
  <2> SUFFICES ASSUME TypeOK, [Next]_vars PROVE TypeOK'
    OBVIOUS
  <2>1. CASE UNCHANGED vars
    BY <2>1 DEF vars, TypeOK
  <2> QED
    BY <2>1, StepType, OthersType DEF Next
<1> QED
  BY <1>1, <1>2, PTL DEF Spec

-----------------------------------------------------------------------------
(* Locks.  The inductive invariant: an idle command holds nothing, one at  *)
(* work holds all its roots, those of its checkpoints among them.          *)

CheckpointRoots(m) == {m.cps[i].root : i \in 1 .. Len(m.cps)}

LockInv ==
    /\ LocksInOrder
    /\ \A p \in Proc :
         /\ pc[p] = "idle" => Held(p) = {}
         /\ pc[p] \in {"install", "undo", "restore"} => RootsOf(mem[p].targets) \subseteq Held(p)
         /\ CheckpointRoots(mem[p]) \subseteq RootsOf(mem[p].targets)

(* A step of p that leaves the locks alone and does not start locking.     *)
LEMMA KeepsLocks ==
    ASSUME TypeOK, LockInv, NEW p \in Proc, NEW m, mem' = [mem EXCEPT ![p] = m],
           lock' = lock, \A q \in Proc \ {p} : pc'[q] = pc[q],
           pc'[p] \in {"idle", "locking"} => Held(p) = {},
           pc'[p] \in {"install", "undo", "restore"} => RootsOf(m.targets) \subseteq Held(p),
           CheckpointRoots(m) \subseteq RootsOf(m.targets)
    PROVE  LockInv'
<1>1. \A q \in Proc : Held(q)' = Held(q)
  BY DEF Held
<1>2. \A q \in Proc \ {p} : mem'[q] = mem[q] /\ mem'[p] = m
  BY DEF TypeOK
<1>3. \A q \in Proc : mem'[q].targets = mem[q].targets => Wants(q)' = Wants(q)
  BY <1>1 DEF Wants, Unlocked
<1>4. LocksInOrder'
  <2> SUFFICES ASSUME NEW q \in Proc, pc'[q] = "locking", NEW r \in Held(q)', NEW w \in Wants(q)'
               PROVE  r < w
    BY DEF LocksInOrder
  <2> QED
    BY <1>1, <1>2, <1>3 DEF LockInv, LocksInOrder, TypeOK
<1> QED
  BY <1>1, <1>2, <1>4 DEF LockInv, TypeOK

(* A root p locks or gives up changes what the others hold in no way.      *)
LEMMA LockedHeld ==
    ASSUME TypeOK, NEW p \in Proc, NEW r \in Root, lock[r] = Nobody, lock' = [lock EXCEPT ![r] = p]
    PROVE  /\ Held(p)' = Held(p) \cup {r}
           /\ \A q \in Proc \ {p} : Held(q)' = Held(q)
BY RequestAssumption DEF TypeOK, Held

LEMMA ReleasedHeld ==
    ASSUME TypeOK, NEW p \in Proc, NEW r \in Root, lock[r] = p, lock' = [lock EXCEPT ![r] = Nobody]
    PROVE  \A q \in Proc \ {p} : Held(q)' = Held(q)
BY RequestAssumption DEF TypeOK, Held

LEMMA UnlockedType ==
    ASSUME TypeOK, NEW p \in Proc
    PROVE  Unlocked(p) \in SUBSET Root /\ Unlocked(p) \in SUBSET Nat
<1>1. Unlocked(p) \in SUBSET Root
  BY MemTypes DEF Unlocked, RootsOf
<1>2. Root \in SUBSET Nat
  BY RequestAssumption DEF Root
<1> QED
  BY <1>1, <1>2

LEMMA LockRootKeeps ==
    ASSUME TypeOK, LockInv, NEW p \in Proc, NEW r \in Root, LockRoot(p, r)
    PROVE  LockInv'
<1>1. pc[p] = "locking" /\ UNCHANGED <<pc, mem>>
  BY DEF LockRoot
<1>2. Held(p)' = Held(p) \cup {r} /\ \A q \in Proc \ {p} : Held(q)' = Held(q)
  BY LockedHeld DEF LockRoot
<1>3. Unlocked(p) \in SUBSET Nat /\ Unlocked(p) # {} /\ r = Min(Unlocked(p))
  <2>1. Unlocked(p) \in SUBSET Nat
    BY UnlockedType
  <2>3. r \in Wants(p)
    BY DEF LockRoot
  <2>4. Unlocked(p) # {} /\ r = Min(Unlocked(p))
    BY <2>3 DEF Wants
  <2> QED
    BY <2>1, <2>4
<1>4. \A y \in Unlocked(p) : r <= y
  BY <1>3, LeastOf
<1>5. \A h \in Held(p) : h < r
  BY <1>1 DEF LockInv, LocksInOrder, LockRoot
<1>6. Unlocked(p)' = Unlocked(p) \ {r}
  BY <1>1, <1>2 DEF Unlocked
<1>7. \A w \in Wants(p)' : w \in Unlocked(p) \ {r}
  <2>1. Unlocked(p)' \in SUBSET Nat
    BY <1>3, <1>6
  <2>2. Unlocked(p)' # {} => Min(Unlocked(p)') \in Unlocked(p)'
    BY <2>1, LeastOf
  <2>3. Wants(p)' = IF Unlocked(p)' = {} THEN {} ELSE {Min(Unlocked(p)')}
    BY DEF Wants
  <2> QED
    BY <1>6, <2>2, <2>3
<1>8. \A h \in Held(p)', w \in Wants(p)' : h < w
  <2>1. ASSUME NEW w \in Wants(p)' PROVE w \in Nat /\ r < w
    <3>1. w \in Unlocked(p) /\ w # r
      BY <1>7
    <3>2. w \in Nat /\ r \in Nat /\ r <= w
      <4>1. w \in Nat /\ r \in Unlocked(p)
        BY <1>3, <3>1, LeastOf
      <4> QED
        BY <1>3, <1>4, <3>1, <4>1
    <3> QED
      BY <3>1, <3>2
  <2>2. Held(p) \in SUBSET Nat /\ r \in Nat
    BY RequestAssumption DEF Held, Root
  <2> QED
    BY <1>2, <1>5, <2>1, <2>2
<1>9. \A q \in Proc \ {p} : Wants(q)' = Wants(q)
  BY <1>1, <1>2 DEF Wants, Unlocked
<1>10. LocksInOrder'
  <2> SUFFICES ASSUME NEW q \in Proc, pc'[q] = "locking", NEW h \in Held(q)', NEW w \in Wants(q)'
               PROVE  h < w
    BY DEF LocksInOrder
  <2>1. CASE q = p
    BY <1>8, <2>1
  <2>2. CASE q # p
    BY <1>1, <1>2, <1>9, <2>2 DEF LockInv, LocksInOrder
  <2> QED
    BY <2>1, <2>2
<1> QED
  BY <1>1, <1>2, <1>10 DEF LockInv

(* A step that gives up locks of p, which no longer locks or works.        *)
LEMMA GivesUp ==
    ASSUME TypeOK, LockInv, NEW p \in Proc,
           \A q \in Proc \ {p} : Held(q)' = Held(q) /\ pc'[q] = pc[q] /\ mem'[q] = mem[q],
           pc'[p] = "release" \/ (pc'[p] = "idle" /\ Held(p)' = {}),
           CheckpointRoots(mem'[p]) \subseteq RootsOf(mem'[p].targets)
    PROVE  LockInv'
<1>1. \A q \in Proc \ {p} : Wants(q)' = Wants(q)
  BY DEF Wants, Unlocked
<1>2. LocksInOrder'
  BY <1>1 DEF LockInv, LocksInOrder
<1> QED
  BY <1>2 DEF LockInv

LEMMA NoMemRoots == CheckpointRoots(NoMem) = {} /\ NoMem.targets = {}
BY DEF CheckpointRoots, NoMem

LEMMA PoppedRoots ==
    ASSUME TypeOK, NEW p \in Proc, mem[p].cps # <<>>, NEW m, m.cps = Popped(p).cps
    PROVE  CheckpointRoots(m) \subseteq CheckpointRoots(mem[p])
<1> DEFINE s == mem[p].cps
<1>1. s \in Seq(CheckpointType) /\ Len(s) \in Nat \ {0}
      /\ m.cps = SubSeq(s, 1, Len(s) - 1)
  BY MemTypes, TopType
<1>2. Len(m.cps) = Len(s) - 1 /\ \A i \in 1 .. Len(s) - 1 : m.cps[i] = s[i]
  BY <1>1
<1> QED
  BY <1>1, <1>2 DEF CheckpointRoots

LEMMA PushedRoots ==
    ASSUME TypeOK, NEW p \in Proc, NEW c \in CheckpointType, NEW m, m.cps = Append(mem[p].cps, c)
    PROVE  CheckpointRoots(m) \subseteq CheckpointRoots(mem[p]) \cup {c.root}
<1> DEFINE s == mem[p].cps
<1>1. s \in Seq(CheckpointType)
  BY MemTypes
<1>2. Len(m.cps) = Len(s) + 1 /\ m.cps[Len(s) + 1] = c /\ \A i \in 1 .. Len(s) : m.cps[i] = s[i]
  BY <1>1, AppendProperties
<1> QED
  BY <1>1, <1>2 DEF CheckpointRoots

LEMMA StepKeepsLocks ==
    ASSUME TypeOK, LockInv, NEW p \in Proc, Step(p)
    PROVE  LockInv'
<1>1. ASSUME NEW q \in Request, Ask(p, q) PROVE LockInv'
  <2> DEFINE m == [NoMem EXCEPT !.bundle = q.bundle, !.targets = q.targets, !.todo = q.targets]
  <2>1. m.cps = <<>>
    BY DEF NoMem
  <2>2. CheckpointRoots(m) = {}
    BY <2>1 DEF CheckpointRoots
  <2>3. mem' = [mem EXCEPT ![p] = m] /\ Goto(p, "locking") /\ lock' = lock /\ pc[p] = "idle"
    BY <1>1 DEF Ask
  <2>4. Held(p) = {}
    BY <2>3 DEF LockInv
  <2> HIDE DEF m
  <2> QED
    BY <2>2, <2>3, <2>4, GotoType, KeepsLocks
<1>2. ASSUME NEW r \in Root, LockRoot(p, r) PROVE LockInv'
  BY <1>2, LockRootKeeps
<1>3. ASSUME NEW m, mem' = [mem EXCEPT ![p] = m], lock' = lock,
             m.targets = mem[p].targets, m.cps = mem[p].cps,
             NEW ph \in {"install", "undo", "restore", "release"}, Goto(p, ph),
             ph # "release" => pc[p] \in {"install", "undo", "restore"} \/ Unlocked(p) = {}
      PROVE  LockInv'
  <2>1. CheckpointRoots(m) \subseteq RootsOf(m.targets)
    BY <1>3 DEF LockInv, CheckpointRoots
  <2>2. Unlocked(p) = {} => RootsOf(mem[p].targets) \subseteq Held(p)
    BY DEF Unlocked
  <2>3. pc'[p] = ph /\ \A q \in Proc \ {p} : pc'[q] = pc[q]
    BY <1>3, GotoType
  <2>4. pc'[p] \in {"install", "undo", "restore"} => RootsOf(m.targets) \subseteq Held(p)
    BY <1>3, <2>2, <2>3 DEF LockInv
  <2> QED
    BY <1>3, <2>1, <2>3, <2>4, KeepsLocks
<1>4. CASE LockTimeout(p)
  <2> DEFINE m == [mem[p] EXCEPT !.outcome = "error"]
  <2>1. mem' = [mem EXCEPT ![p] = m] /\ m.targets = mem[p].targets /\ m.cps = mem[p].cps
    BY <1>4, MemTypes DEF LockTimeout, TypeOK, Mem
  <2> HIDE DEF m
  <2> QED
    BY <1>3, <1>4, <2>1 DEF LockTimeout
<1>5. CASE LocksHeld(p)
  <2>1. PICK ph \in {"install", "release"} : Goto(p, ph)
    BY <1>5 DEF LocksHeld
  <2>2. PICK m : /\ mem' = [mem EXCEPT ![p] = m]
                 /\ m.targets = mem[p].targets /\ m.cps = mem[p].cps
    <3>1. CASE mem' = [mem EXCEPT ![p].start = [live |-> live, manifest |-> manifest]]
      <4> DEFINE m == [mem[p] EXCEPT !.start = [live |-> live, manifest |-> manifest]]
      <4>1. mem' = [mem EXCEPT ![p] = m] /\ m.targets = mem[p].targets /\ m.cps = mem[p].cps
        BY <3>1, MemTypes DEF TypeOK, Mem
      <4> HIDE DEF m
      <4> QED
        BY <4>1
    <3>2. CASE mem' = [mem EXCEPT ![p].outcome = "error"]
      <4> DEFINE m == [mem[p] EXCEPT !.outcome = "error"]
      <4>1. mem' = [mem EXCEPT ![p] = m] /\ m.targets = mem[p].targets /\ m.cps = mem[p].cps
        BY <3>2, MemTypes DEF TypeOK, Mem
      <4> HIDE DEF m
      <4> QED
        BY <4>1
    <3> QED
      BY <1>5, <3>1, <3>2 DEF LocksHeld
  <2> QED
    BY <1>3, <1>5, <2>1, <2>2 DEF LocksHeld
<1>6. CASE InstallRoot(p)
  <2> DEFINE r == NextRoot(p)
  <2>1. mem[p].todo # {} /\ pc[p] = "install" /\ pc' = pc /\ lock' = lock
    BY <1>6 DEF InstallRoot
  <2>2. r \in RootsOf(mem[p].targets) /\ r \in Root /\ Wanting(mem[p].todo, r) \in SUBSET Claim
    BY <2>1, NextRootType
  <2>3. PICK plan \in PlansNow(p) :
          mem' = [mem EXCEPT ![p].todo = {t \in @ : ~(t[2] = r /\ t[1] \in plan.claims)},
                             ![p].cps = Append(@, Checkpoint(r, mem[p].bundle, plan.manifest))]
    BY <1>6, Zenon DEF InstallRoot
  <2> DEFINE todo == {t \in mem[p].todo : ~(t[2] = r /\ t[1] \in plan.claims)}
             c == Checkpoint(r, mem[p].bundle, plan.manifest)
             m == [mem[p] EXCEPT !.todo = todo, !.cps = Append(mem[p].cps, c)]
  <2>4. c \in CheckpointType /\ c.root = r
    <3>1. plan.manifest \in Manifest
      BY <2>2, <2>3, MemTypes, PlansType DEF PlansNow
    <3> QED
      BY <2>2, <3>1, MemTypes DEF Checkpoint, CheckpointType, Files, Owned, TypeOK
  <2>5. mem' = [mem EXCEPT ![p] = m]
    BY <2>3 DEF TypeOK, Mem
  <2>6. m.targets = mem[p].targets /\ m.cps = Append(mem[p].cps, c)
    BY MemTypes DEF Mem
  <2> HIDE DEF m, c
  <2>7. CheckpointRoots(m) \subseteq RootsOf(m.targets)
    BY <2>2, <2>4, <2>6, PushedRoots DEF LockInv
  <2>8. RootsOf(m.targets) \subseteq Held(p)
    BY <2>1, <2>6 DEF LockInv
  <2> QED
    BY <2>1, <2>5, <2>7, <2>8, KeepsLocks
<1>7. CASE AllInstalled(p)
  <2>1. mem' = [mem EXCEPT ![p] = mem[p]]
    BY <1>7 DEF AllInstalled, TypeOK
  <2> QED
    BY <1>3, <1>7, <2>1 DEF AllInstalled
<1>8. CASE InstallFails(p) \/ InstallBreaks(p)
  <2> DEFINE m == [mem[p] EXCEPT !.outcome = "error"]
  <2>1. mem' = [mem EXCEPT ![p] = m] /\ m.targets = mem[p].targets /\ m.cps = mem[p].cps
    BY <1>8, MemTypes DEF InstallFails, InstallBreaks, StartUndo, TypeOK, Mem
  <2>2. lock' = lock /\ pc[p] = "install" /\ Goto(p, "undo")
    BY <1>8 DEF InstallFails, InstallBreaks, StartUndo, roots
  <2> HIDE DEF m
  <2> QED
    BY <1>3, <2>1, <2>2
<1>9. CASE RestoreManifest(p)
  <2> DEFINE m == [mem[p] EXCEPT !.files = Top(p).files, !.gone = {}]
  <2>1. mem' = [mem EXCEPT ![p] = m] /\ m.targets = mem[p].targets /\ m.cps = mem[p].cps
    BY <1>9, MemTypes DEF RestoreManifest, TypeOK, Mem
  <2> HIDE DEF m
  <2> QED
    BY <1>3, <1>9, <2>1 DEF RestoreManifest, ManifestAllowed
<1>10. ASSUME NEW f \in Path, RestoreFile(p, f) \/ WriteBack(p, f) PROVE LockInv'
  <2>0. PICK fs, gs \in SUBSET Path :
          mem' = [mem EXCEPT ![p] = FilesSet(p, fs, gs)]
    BY <1>10, FileStep
  <2> DEFINE m == FilesSet(p, fs, gs)
  <2>1. mem' = [mem EXCEPT ![p] = m] /\ m.targets = mem[p].targets /\ m.cps = mem[p].cps
    BY <2>0, FileMemory
  <2>2. lock' = lock /\ pc' = pc /\ pc[p] = "restore"
    BY <1>10, FileStep
  <2>3. Goto(p, "restore")
    BY <2>2 DEF Goto, TypeOK
  <2> HIDE DEF m
  <2> QED
    BY <1>3, <2>1, <2>2, <2>3
<1>11. CASE CheckpointRestored(p) \/ CheckpointFails(p) \/ ManifestLost(p)
  <2>1. /\ mem[p].cps # <<>> /\ pc[p] \in {"undo", "restore"}
        /\ lock' = lock /\ Goto(p, "undo")
    BY <1>11 DEF CheckpointRestored, CheckpointFails, ManifestLost, ManifestAllowed, GiveUp,
                 TypeOK, roots
  <2>2. PICK m : /\ mem' = [mem EXCEPT ![p] = m]
                 /\ m.targets = mem[p].targets /\ m.cps = Popped(p).cps
    <3>1. Popped(p).targets = mem[p].targets /\ Popped(p) \in Mem
      BY <2>1, TopType
    <3>2. CASE mem' = [mem EXCEPT ![p] = Popped(p)]
      BY <3>1, <3>2
    <3>3. CASE mem' = [mem EXCEPT ![p] = [Popped(p) EXCEPT !.failed = TRUE]]
      <4>1. [Popped(p) EXCEPT !.failed = TRUE].targets = mem[p].targets
        BY <3>1 DEF Mem
      <4>2. [Popped(p) EXCEPT !.failed = TRUE].cps = Popped(p).cps
        BY <3>1 DEF Mem
      <4> QED
        BY <3>3, <4>1, <4>2
    <3> QED
      BY <1>11, <3>2, <3>3 DEF CheckpointRestored, CheckpointFails, ManifestLost, GiveUp
  <2>3. CheckpointRoots(m) \subseteq RootsOf(m.targets)
    BY <2>1, <2>2, PoppedRoots DEF LockInv
  <2>4. RootsOf(m.targets) \subseteq Held(p)
    BY <2>1, <2>2 DEF LockInv
  <2>5. pc'[p] = "undo" /\ \A q \in Proc \ {p} : pc'[q] = pc[q]
    BY <2>1, GotoType
  <2> QED
    BY <2>1, <2>2, <2>3, <2>4, <2>5, KeepsLocks
<1>12. CASE UndoDone(p)
  <2> DEFINE m == [mem[p] EXCEPT !.outcome = IF mem[p].failed THEN "recovery" ELSE "error"]
  <2>1. mem' = [mem EXCEPT ![p] = m]
    BY <1>12, Zenon DEF UndoDone
  <2>2. m.targets = mem[p].targets /\ m.cps = mem[p].cps
    BY MemTypes DEF Mem
  <2> HIDE DEF m
  <2> QED
    BY <1>3, <1>12, <2>1, <2>2 DEF UndoDone
<1>13. CASE Unlock(p)
  <2>1. Held(p) \in SUBSET Root /\ Held(p) # {}
    BY <1>13 DEF Held, Unlock
  <2>2. Max(Held(p)) \in Root /\ lock[Max(Held(p))] = p
    BY <2>1, GreatestOf DEF Held
  <2>3. \A q \in Proc \ {p} : Held(q)' = Held(q)
    BY <1>13, <2>2, ReleasedHeld DEF Unlock
  <2> QED
    BY <1>13, <2>3, GivesUp DEF Unlock, LockInv
<1>14. CASE Return(p)
  <2>1. pc'[p] = "idle" /\ \A q \in Proc \ {p} : pc'[q] = pc[q]
    BY <1>14, GotoType DEF Return
  <2> QED
    BY <1>14, <2>1, NoMemRoots, KeepsLocks DEF Return
<1>15. CASE Crash(p)
  <2>1. pc'[p] = "idle" /\ \A q \in Proc \ {p} : pc'[q] = pc[q] /\ mem'[q] = mem[q] /\ mem'[p] = NoMem
    BY <1>15, GotoType DEF Crash, TypeOK
  <2>2. Held(p)' = {} /\ \A q \in Proc \ {p} : Held(q)' = Held(q)
    BY <1>15, RequestAssumption DEF Crash, Held, TypeOK
  <2>3. mem'[p] = NoMem
    BY <1>15 DEF Crash, TypeOK
  <2> QED
    BY <2>1, <2>2, <2>3, NoMemRoots, GivesUp
<1> QED
  BY <1>1, <1>2, <1>4, <1>5, <1>6, <1>7, <1>8, <1>9, <1>10, <1>11, <1>12, <1>13, <1>14, <1>15
     DEF Step

LEMMA LocksAlways == Spec => [](TypeOK /\ LockInv)
<1>1. Init => LockInv
  <2> SUFFICES ASSUME Init PROVE LockInv
    OBVIOUS
  <2>1. \A p \in Proc : pc[p] = "idle" /\ Held(p) = {} /\ mem[p] = NoMem
    BY RequestAssumption DEF Init, Held
  <2> QED
    BY <2>1, NoMemRoots DEF LockInv, LocksInOrder
<1>2. TypeOK /\ LockInv /\ [Next]_vars => LockInv'
  <2> SUFFICES ASSUME TypeOK, LockInv, [Next]_vars PROVE LockInv'
    OBVIOUS
  <2>1. CASE UNCHANGED <<lock, pc, mem>>
    BY <2>1 DEF LockInv, LocksInOrder, Held, Wants, Unlocked, CheckpointRoots
  <2>2. CASE Others
    BY <2>1, <2>2 DEF Others, Recover, Uninstall, UserEdit
  <2>3. CASE UNCHANGED vars
    BY <2>1, <2>3 DEF vars
  <2> QED
    BY <2>2, <2>3, StepKeepsLocks DEF Next
<1> QED
  BY <1>1, <1>2, MultiTypeCorrect, PTL DEF Spec

(* Commands that lock several roots never wait for each other in a circle, *)
(* however many they are and whatever order their targets were given in:   *)
(* of the locks a circle waits for, the holder of the greatest would wait  *)
(* for a greater one.                                                      *)
THEOREM NoDeadlyEmbrace == Spec => []NoWaitCycle
<1>1. TypeOK /\ LockInv => NoWaitCycle
  <2> SUFFICES ASSUME TypeOK, LockInv, NEW S \in (SUBSET Proc) \ {{}},
                      \A p \in S : pc[p] = "locking" /\ \E w \in Wants(p) : lock[w] \in S
               PROVE  FALSE
    BY DEF NoWaitCycle
  <2> DEFINE W == {r \in Root : lock[r] \in S}
  <2>1. \A p \in S : Wants(p) \subseteq Root
    <3> SUFFICES ASSUME NEW p \in S PROVE Wants(p) \subseteq Root
      OBVIOUS
    <3>1. Unlocked(p) \in SUBSET Root /\ Unlocked(p) \in SUBSET Nat
      BY UnlockedType
    <3>2. Unlocked(p) # {} => Min(Unlocked(p)) \in Root
      BY <3>1, LeastOf
    <3> QED
      BY <3>2 DEF Wants
  <2>2. W \in SUBSET Root /\ W # {}
    BY <2>1
  <2>3. Max(W) \in W /\ \A y \in W : y <= Max(W)
    BY <2>2, GreatestOf
  <2>4. PICK q \in S : lock[Max(W)] = q
    BY <2>3
  <2>5. PICK w \in Wants(q) : lock[w] \in S
    OBVIOUS
  <2>6. w \in W /\ Max(W) \in Held(q)
    BY <2>1, <2>3, <2>4, <2>5 DEF Held
  <2>7. Max(W) < w /\ w <= Max(W)
    BY <2>3, <2>5, <2>6 DEF LockInv, LocksInOrder
  <2>8. w \in Nat /\ Max(W) \in Nat
    BY <2>3, <2>6, RequestAssumption DEF Root
  <2> QED
    BY <2>7, <2>8
<1> QED
  BY <1>1, LocksAlways, PTL

-----------------------------------------------------------------------------
(* Compensation and user files. *)

(* Every root a command at work touches is locked by it.                   *)
LEMMA WorkIsLocked ==
    ASSUME TypeOK, LockInv, NEW q \in Proc
    PROVE  /\ pc[q] = "install" /\ mem[q].todo # {} => lock[NextRoot(q)] = q
           /\ pc[q] = "restore" => lock[Top(q).root] = q
<1>1. CASE pc[q] = "install" /\ mem[q].todo # {}
  BY <1>1, NextRootType DEF LockInv, Held
<1>2. CASE pc[q] = "restore"
  <2>1. mem[q].cps # <<>>
    BY <1>2 DEF TypeOK
  <2>2. Top(q).root \in CheckpointRoots(mem[q])
    BY <2>1, TopType DEF CheckpointRoots
  <2> QED
    BY <1>2, <2>2 DEF LockInv, Held
<1> QED
  BY <1>1, <1>2

LEMMA InterruptedElsewhere ==
    ASSUME NEW r, NEW b, Interrupted(r, b), NEW s \in Root, s # r,
           live \in [Root -> [Path -> Leaf]]
    PROVE  live'[s] = live[s]
BY DEF Interrupted

(* Bytes f had in the checkpoint p restores, now about to be written anew. *)
TakenAway(p, r, f) ==
    r = Top(p).root /\ live[r][f] = Top(p).live[f] /\ f \in mem'[p].gone

LEMMA UserBytesStay ==
    ASSUME TypeOK, LockInv, NEW q \in Proc, Step(q), NEW p \in Proc, NEW r \in Root,
           NEW f \in Path, pc[p] = "restore", lock[r] = p, live[r][f] \in UserData
    PROVE  live'[r][f] = live[r][f] \/ TakenAway(p, r, f)
<1>1. CASE live' = live
  BY <1>1
<1>2. CASE InstallRoot(q)
  <2>1. lock[NextRoot(q)] = q /\ pc[q] = "install"
    BY <1>2, WorkIsLocked DEF InstallRoot
  <2>2. r # NextRoot(q)
    BY <2>1
  <2>3. \E x : live' = [live EXCEPT ![NextRoot(q)] = x]
    BY <1>2 DEF InstallRoot
  <2> QED
    BY <2>2, <2>3 DEF TypeOK
<1>3. CASE InstallBreaks(q)
  <2>1. /\ lock[NextRoot(q)] = q /\ pc[q] = "install"
        /\ Interrupted(NextRoot(q), mem[q].bundle)
    BY <1>3, WorkIsLocked DEF InstallBreaks
  <2>2. r # NextRoot(q)
    BY <2>1
  <2> QED
    BY <2>1, <2>2, InterruptedElsewhere DEF TypeOK
<1>4. CASE Crash(q) /\ live' # live
  <2>1. /\ lock[NextRoot(q)] = q /\ pc[q] = "install"
        /\ Interrupted(NextRoot(q), mem[q].bundle)
    BY <1>4, WorkIsLocked DEF Crash, roots
  <2>2. r # NextRoot(q)
    BY <2>1
  <2> QED
    BY <2>1, <2>2, InterruptedElsewhere DEF TypeOK
<1>5. ASSUME NEW g \in Path, RestoreFile(q, g)
      PROVE  live'[r][f] = live[r][f] \/ TakenAway(p, r, f)
  <2>1. lock[Top(q).root] = q /\ pc[q] = "restore" /\ mem[q].cps # <<>>
    BY <1>5, WorkIsLocked DEF RestoreFile, TypeOK
  <2>2. Top(q).root \in Root /\ Top(q).bundle \in Bundle
    BY <2>1, TopType DEF CheckpointType
  <2>3. /\ live[Top(q).root][g] \in Allowed(Top(q), g)
        /\ live' = [live EXCEPT ![Top(q).root][g] = Absent]
    BY <1>5 DEF RestoreFile
  <2>4. CASE r = Top(q).root /\ f = g
    <3>1. Top(q).bundle.files[f] \notin UserData /\ Absent \notin UserData
      BY <2>2, ContentType, ContentAssumption DEF Content
    <3>2. live[r][f] = Top(q).live[f] /\ live[r][f] # Absent
      BY <2>3, <2>4, <3>1 DEF Allowed
    <3>3. p = q
      BY <2>1, <2>4
    <3>4. mem'[p].gone = {f}
      <4>1. mem' = [mem EXCEPT ![q].gone = {g}]
        BY <1>5, <2>4, <3>2 DEF RestoreFile
      <4> QED
        BY <2>4, <3>3, <4>1, MemTypes DEF TypeOK, Mem
    <3> QED
      BY <2>4, <3>2, <3>3, <3>4 DEF TakenAway
  <2>5. CASE r # Top(q).root \/ f # g
    BY <2>2, <2>3, <2>5, SMTT(30) DEF TypeOK
  <2> QED
    BY <2>4, <2>5
<1>6. ASSUME NEW g \in Path, WriteBack(q, g) PROVE live'[r][f] = live[r][f]
  <2>1. live[r][f] # Absent
    BY ContentAssumption DEF Content
  <2>2. r # Top(q).root \/ f # g
    BY <1>6, <2>1 DEF WriteBack
  <2>3. Top(q).root \in Root /\ \E x \in Leaf : live' = [live EXCEPT ![Top(q).root][g] = x]
    BY <1>6, FileStep
  <2> QED
    BY <2>2, <2>3, SMTT(30) DEF TypeOK
<1>7. \/ live' = live
      \/ InstallRoot(q) \/ InstallBreaks(q) \/ Crash(q)
      \/ \E g \in Path : RestoreFile(q, g) \/ WriteBack(q, g)
  BY DEF Step, Ask, LockRoot, LockTimeout, LocksHeld, AllInstalled, InstallFails,
         RestoreManifest, ManifestLost, CheckpointRestored, CheckpointFails, UndoDone,
         Unlock, Return, roots
<1> QED
  BY <1>1, <1>2, <1>3, <1>4, <1>5, <1>6, <1>7

LEMMA OthersMemory ==
    ASSUME TypeOK, NEW q \in Proc, Step(q), NEW p \in Proc \ {q}
    PROVE  mem'[p] = mem[p]
<1>1. \E x : mem' = [mem EXCEPT ![q] = x]
  <2>1. ASSUME NEW f \in Path, RestoreFile(q, f) \/ WriteBack(q, f)
        PROVE  \E x : mem' = [mem EXCEPT ![q] = x]
    BY <2>1, FileStep
  <2>2. ASSUME mem' = mem PROVE \E x : mem' = [mem EXCEPT ![q] = x]
    <3>1. mem' = [mem EXCEPT ![q] = mem[q]]
      BY <2>2 DEF TypeOK
    <3> QED
      BY <3>1
  <2> QED
    BY <2>1, <2>2, ZenonT(40) DEF Step, Ask, LockRoot, LockTimeout, LocksHeld, InstallRoot,
         AllInstalled, InstallFails, InstallBreaks, StartUndo, RestoreManifest, ManifestLost,
         GiveUp, CheckpointRestored, CheckpointFails, UndoDone, Unlock, Return, Crash
<1> QED
  BY <1>1 DEF TypeOK

(* A file that was unlinked is written anew, or the failure is noted.      *)
LEMMA GoneIsFollowed ==
    ASSUME TypeOK, NEW p \in Proc, Step(p), NEW f \in Path, pc[p] = "restore",
           f \in mem[p].gone, f \notin mem'[p].gone
    PROVE  live'[Top(p).root][f] = Top(p).live[f] \/ mem'[p].failed \/ pc'[p] = "idle"
<1>1. mem[p] \in Mem /\ mem \in [Proc -> Mem] /\ mem[p].cps # <<>>
  BY DEF TypeOK
<1>2. ASSUME NEW g \in Path, WriteBack(p, g) PROVE live'[Top(p).root][f] = Top(p).live[f]
  <2>1. Top(p).root \in Root /\ live' = [live EXCEPT ![Top(p).root][g] = Top(p).live[g]]
    BY <1>2, FileStep DEF WriteBack
  <2>2. CASE f = g
    BY <2>1, <2>2 DEF TypeOK
  <2>3. CASE f # g
    <3>1. mem' = [mem EXCEPT ![p].files = @ \ {g}, ![p].gone = @ \ {g}]
      BY <1>2 DEF WriteBack
    <3>2. mem'[p].gone = mem[p].gone \ {g}
      BY <1>1, <3>1 DEF Mem
    <3> QED
      BY <2>3, <3>2
  <2> QED
    BY <2>2, <2>3
<1>3. ASSUME NEW g \in Path, RestoreFile(p, g) PROVE FALSE
  BY <1>3 DEF RestoreFile
<1>4. CASE CheckpointFails(p)
  <2>1. mem' = [mem EXCEPT ![p] = [Popped(p) EXCEPT !.failed = TRUE]] /\ Popped(p) \in Mem
    BY <1>1, <1>4, TopType DEF CheckpointFails, GiveUp
  <2> QED
    BY <1>1, <2>1 DEF Mem
<1>5. CASE CheckpointRestored(p)
  <2>1. mem[p].gone = {}
    BY <1>5 DEF CheckpointRestored
  <2> QED
    BY <2>1
<1>6. CASE Crash(p)
  BY <1>6 DEF Crash, Goto, TypeOK
<1> QED
  BY <1>2, <1>3, <1>4, <1>5, <1>6
     DEF Step, Ask, LockRoot, LockTimeout, LocksHeld, InstallRoot, AllInstalled, InstallFails,
         InstallBreaks, RestoreManifest, ManifestLost, ManifestAllowed, UndoDone, Unlock, Return

(* While a command restores the roots it had installed, bytes that a user  *)
(* wrote in them stay as they are, whatever the checkpoint holds, but for  *)
(* those the checkpoint saw: they are unlinked to be written anew, and if  *)
(* they are not, the command reports it or has died.                       *)
THEOREM CompensationIsHarmless == Spec => UndoKeepsUserData
<1> DEFINE Keeps == \A p \in Proc, r \in Root, f \in Path :
         pc[p] = "restore" =>
         /\ (lock[r] = p /\ live[r][f] \in UserData /\ spent'.edits = spent.edits) =>
               \/ live'[r][f] = live[r][f]
               \/ r = Top(p).root /\ live[r][f] = Top(p).live[f] /\ f \in mem'[p].gone
         /\ (f \in mem[p].gone /\ f \notin mem'[p].gone) =>
               \/ live'[Top(p).root][f] = Top(p).live[f]
               \/ mem'[p].failed
               \/ pc'[p] = "idle"
<1>1. TypeOK /\ LockInv /\ [Next]_vars => [Keeps]_vars
  <2> SUFFICES ASSUME TypeOK, LockInv, Next,
                      NEW p \in Proc, NEW r \in Root, NEW f \in Path, pc[p] = "restore"
               PROVE  /\ (lock[r] = p /\ live[r][f] \in UserData /\ spent'.edits = spent.edits)
                            => live'[r][f] = live[r][f] \/ TakenAway(p, r, f)
                      /\ (f \in mem[p].gone /\ f \notin mem'[p].gone) =>
                            \/ live'[Top(p).root][f] = Top(p).live[f]
                            \/ mem'[p].failed
                            \/ pc'[p] = "idle"
    BY DEF TakenAway
  <2>1. ASSUME lock[r] = p, live[r][f] \in UserData, spent'.edits = spent.edits
        PROVE  live'[r][f] = live[r][f] \/ TakenAway(p, r, f)
    <3>1. ASSUME NEW q \in Proc, Step(q) PROVE live'[r][f] = live[r][f] \/ TakenAway(p, r, f)
      BY <2>1, <3>1, UserBytesStay
    <3>2. ASSUME NEW s \in Root, Recover(s) \/ \E c \in Claim : Uninstall(s, c)
          PROVE  live'[r][f] = live[r][f]
      <4>1. lock[s] = Nobody /\ \E x : live' = [live EXCEPT ![s] = x]
        BY <3>2 DEF Recover, Uninstall
      <4>2. r # s
        BY <2>1, <4>1, RequestAssumption
      <4> QED
        BY <4>1, <4>2 DEF TypeOK
    <3>3. ASSUME NEW s \in Root, NEW g \in Path, NEW d, UserEdit(s, g, d) PROVE FALSE
      BY <2>1, <3>3 DEF UserEdit, TypeOK, Spent
    <3> QED
      BY <3>1, <3>2, <3>3 DEF Next, Others
  <2>2. ASSUME f \in mem[p].gone, f \notin mem'[p].gone
        PROVE  live'[Top(p).root][f] = Top(p).live[f] \/ mem'[p].failed \/ pc'[p] = "idle"
    <3>1. mem' # mem
      BY <2>2
    <3>2. ~Others
      BY <3>1 DEF Others, Recover, Uninstall, UserEdit
    <3>3. Step(p)
      BY <2>2, <3>2, OthersMemory DEF Next
    <3> QED
      BY <2>2, <3>3, GoneIsFollowed
  <2> QED
    BY <2>1, <2>2
<1>2. Spec => [][Keeps]_vars
  BY <1>1, LocksAlways, PTL DEF Spec
<1> QED
  BY <1>2 DEF UndoKeepsUserData

-----------------------------------------------------------------------------
(* All or nothing.  The inductive invariant follows the stack of           *)
(* checkpoints downwards: what a root holds is what the newest checkpoint  *)
(* of that root was to bring about, what that checkpoint found is what the *)
(* one before it was to bring about, and the oldest found what the command *)
(* found.  Files that users changed are left out, and so are the bytes of  *)
(* a root whose install broke off.                                         *)

NoneOf(cps, n, r) == \A k \in 1 .. n : cps[k].root # r

Newest(cps, n, r, j) ==
    /\ cps[j].root = r
    /\ \A k \in 1 .. n : cps[k].root = r => k <= j

SameBut(ed, r, l1, l2) == \A f \in Path : <<r, f>> \in ed \/ l1[f] = l2[f]

(* l is what checkpoint cp saw, but for the files fs that may be changed.  *)
Within(ed, cp, fs, l) ==
    \A f \in Path : <<cp.root, f>> \in ed \/ IF f \in fs THEN l[f] \in Allowed(cp, f)
                                                         ELSE l[f] = cp.live[f]

(* The files gs of checkpoint cp, unlinked, are not there. *)
Away(ed, cp, gs, l) == \A f \in gs : <<cp.root, f>> \in ed \/ l[f] = Absent

(* x is the manifest, l the payload of root r after the first n installs.  *)
AfterManifest(m, n, r, x) ==
    /\ NoneOf(m.cps, n, r) => x = m.start.manifest[r]
    /\ \A j \in 1 .. n : Newest(m.cps, n, r, j) => x = m.cps[j].new

AfterLive(ed, m, n, r, l) ==
    /\ NoneOf(m.cps, n, r) => SameBut(ed, r, l, m.start.live[r])
    /\ \A j \in 1 .. n : Newest(m.cps, n, r, j) => Within(ed, m.cps[j], m.cps[j].files, l)

Stack(ed, m) ==
    \A i \in 1 .. Len(m.cps) :
        /\ AfterManifest(m, i - 1, m.cps[i].root, m.cps[i].manifest)
        /\ AfterLive(ed, m, i - 1, m.cps[i].root, m.cps[i].live)

Working(p) == pc[p] \in {"install", "undo", "restore"}

Restoring(p, r) == pc[p] = "restore" /\ Top(p).root = r

PresentAt(p, r) ==
    IF Restoring(p, r)
    THEN /\ manifest[r] = Top(p).manifest
         /\ left[r] = NoJournal => /\ Within(edited, Top(p), mem[p].files, live[r])
                                   /\ Away(edited, Top(p), mem[p].gone, live[r])
    ELSE /\ AfterManifest(mem[p], Len(mem[p].cps), r, manifest[r])
         /\ left[r] = NoJournal => AfterLive(edited, mem[p], Len(mem[p].cps), r, live[r])

Installed(p, t) ==
    /\ t[1] \in manifest[t[2]].claims
    /\ \A f \in Files(mem[p].bundle) :
         /\ t[1] \in manifest[t[2]].owner[f]
         /\ <<t[2], f>> \in edited \/ live[t[2]][f] = mem[p].bundle.files[f]

(* Root r is what the command found when it had all its locks.             *)
PutBack(p, r) ==
    /\ manifest[r] = mem[p].start.manifest[r]
    /\ \A f \in Path : \/ left[r] # NoJournal
                       \/ <<r, f>> \in edited
                       \/ live[r][f] = mem[p].start.live[r][f]

Targeted(p) == RootsOf(mem[p].targets)

WorkInv(p) ==
    /\ Held(p) \subseteq Targeted(p)
    /\ pc[p] = "locking" => /\ mem[p].start = <<>> /\ mem[p].cps = <<>>
                            /\ ~mem[p].failed /\ mem[p].outcome = "ok"
                            /\ mem[p].todo = mem[p].targets
    /\ pc[p] = "install" => /\ ~mem[p].failed /\ mem[p].outcome = "ok"
                            /\ \A r \in Targeted(p) : left[r] = NoJournal
                            /\ \A t \in mem[p].targets \ mem[p].todo : Installed(p, t)
    /\ (Working(p) /\ ~mem[p].failed) =>
           Stack(edited, mem[p]) /\ \A r \in Targeted(p) : PresentAt(p, r)
    /\ (pc[p] = "release" /\ Held(p) = Targeted(p)) =>
           /\ mem[p].outcome = "ok" => \A t \in mem[p].targets : Installed(p, t)
           /\ (mem[p].outcome = "error" /\ mem[p].start # <<>>) =>
                  \A r \in Targeted(p) : PutBack(p, r)

(* Lemmas about the stack. *)

LEMMA AfterPrefix ==
    ASSUME NEW m, NEW w, NEW n \in Nat, NEW r, NEW ed,
           w.start = m.start, \A i \in 1 .. n : w.cps[i] = m.cps[i]
    PROVE  /\ \A x : AfterManifest(m, n, r, x) <=> AfterManifest(w, n, r, x)
           /\ \A l : AfterLive(ed, m, n, r, l) <=> AfterLive(ed, w, n, r, l)
BY DEF AfterManifest, AfterLive, NoneOf, Newest

LEMMA AfterSkip ==
    ASSUME NEW m, NEW n \in Nat \ {0}, NEW r, NEW ed, m.cps[n].root # r
    PROVE  /\ \A x : AfterManifest(m, n, r, x) <=> AfterManifest(m, n - 1, r, x)
           /\ \A l : AfterLive(ed, m, n, r, l) <=> AfterLive(ed, m, n - 1, r, l)
<1>1. \A k \in 1 .. n : m.cps[k].root = r => k \in 1 .. n - 1
  OBVIOUS
<1>2. 1 .. n - 1 \subseteq 1 .. n
  OBVIOUS
<1>3. NoneOf(m.cps, n, r) <=> NoneOf(m.cps, n - 1, r)
  BY <1>1, <1>2 DEF NoneOf
<1>4. \A j : Newest(m.cps, n, r, j) <=> Newest(m.cps, n - 1, r, j)
  BY <1>1, <1>2 DEF Newest
<1>5. \A j \in 1 .. n : Newest(m.cps, n, r, j) => j \in 1 .. n - 1
  BY <1>1 DEF Newest
<1> QED
  BY <1>2, <1>3, <1>4, <1>5 DEF AfterManifest, AfterLive

LEMMA AfterTop ==
    ASSUME NEW m, NEW n \in Nat \ {0}, NEW ed
    PROVE  /\ \A x : AfterManifest(m, n, m.cps[n].root, x) <=> x = m.cps[n].new
           /\ \A l : AfterLive(ed, m, n, m.cps[n].root, l)
                        <=> Within(ed, m.cps[n], m.cps[n].files, l)
<1> DEFINE r == m.cps[n].root
<1>1. n \in 1 .. n /\ ~NoneOf(m.cps, n, r)
  BY DEF NoneOf
<1>2. Newest(m.cps, n, r, n)
  BY DEF Newest
<1>3. \A j \in 1 .. n : Newest(m.cps, n, r, j) => j = n
  BY <1>1 DEF Newest
<1> HIDE DEF r
<1>4. /\ \A x : AfterManifest(m, n, r, x) <=> x = m.cps[n].new
      /\ \A l : AfterLive(ed, m, n, r, l) <=> Within(ed, m.cps[n], m.cps[n].files, l)
  BY <1>1, <1>2, <1>3 DEF AfterManifest, AfterLive
<1> QED
  BY <1>4 DEF r

(* More files may be edited, and only edited files may differ.             *)
LEMMA AfterEdits ==
    ASSUME NEW m, NEW n, NEW r, NEW ed, NEW ed2, NEW l, NEW l2,
           AfterLive(ed, m, n, r, l),
           \A f \in Path : <<r, f>> \in ed => <<r, f>> \in ed2,
           \A f \in Path : <<r, f>> \in ed2 \/ l2[f] = l[f]
    PROVE  AfterLive(ed2, m, n, r, l2)
BY DEF AfterLive, SameBut, Within, Newest

LEMMA WithinEdits ==
    ASSUME NEW cp, NEW fs, NEW ed, NEW ed2, NEW l, NEW l2,
           Within(ed, cp, fs, l),
           \A f \in Path : <<cp.root, f>> \in ed => <<cp.root, f>> \in ed2,
           \A f \in Path : <<cp.root, f>> \in ed2 \/ l2[f] = l[f]
    PROVE  Within(ed2, cp, fs, l2)
BY DEF Within

(* The stack looks at nothing but the checkpoints, the start and the edits *)
(* of the roots of its checkpoints.                                        *)
LEMMA StackEdits ==
    ASSUME NEW m, NEW w, NEW ed, NEW ed2, Stack(ed, m), Len(w.cps) \in Nat, Len(m.cps) \in Nat,
           Len(w.cps) <= Len(m.cps), w.start = m.start,
           \A i \in 1 .. Len(w.cps) : w.cps[i] = m.cps[i],
           \A i \in 1 .. Len(m.cps), f \in Path :
               <<m.cps[i].root, f>> \in ed => <<m.cps[i].root, f>> \in ed2
    PROVE  Stack(ed2, w)
<1> SUFFICES ASSUME NEW i \in 1 .. Len(w.cps)
             PROVE  /\ AfterManifest(w, i - 1, w.cps[i].root, w.cps[i].manifest)
                    /\ AfterLive(ed2, w, i - 1, w.cps[i].root, w.cps[i].live)
  BY DEF Stack
<1>1. i \in 1 .. Len(m.cps) /\ w.cps[i] = m.cps[i] /\ i - 1 \in Nat
  OBVIOUS
<1>2. \A k \in 1 .. i - 1 : w.cps[k] = m.cps[k]
  OBVIOUS
<1>3. /\ AfterManifest(m, i - 1, m.cps[i].root, m.cps[i].manifest)
      /\ AfterLive(ed, m, i - 1, m.cps[i].root, m.cps[i].live)
  BY <1>1 DEF Stack
<1>4. AfterLive(ed2, m, i - 1, m.cps[i].root, m.cps[i].live)
  BY <1>1, <1>3, AfterEdits
<1> QED
  BY <1>1, <1>2, <1>3, <1>4, AfterPrefix

(* What a step may do to a root whose lock somebody else holds.            *)
Untouched(r) ==
    /\ manifest'[r] = manifest[r]
    /\ left'[r] = left[r]
    /\ \A f \in Path : /\ <<r, f>> \in edited => <<r, f>> \in edited'
                       /\ <<r, f>> \in edited' \/ live'[r][f] = live[r][f]

LEMMA PresentKept ==
    ASSUME TypeOK, NEW p \in Proc, NEW r, PresentAt(p, r),
           mem'[p].cps = mem[p].cps, mem'[p].start = mem[p].start,
           Restoring(p, r)' <=> Restoring(p, r),
           Restoring(p, r) => mem'[p].files = mem[p].files /\ mem'[p].gone = mem[p].gone,
           manifest'[r] = manifest[r],
           left'[r] = NoJournal => left[r] = NoJournal,
           left'[r] = NoJournal =>
               \A f \in Path : /\ <<r, f>> \in edited => <<r, f>> \in edited'
                               /\ <<r, f>> \in edited' \/ live'[r][f] = live[r][f]
    PROVE  PresentAt(p, r)'
<1>1. Len(mem[p].cps) \in Nat /\ Top(p)' = Top(p)
  BY MemTypes DEF Top
<1>2. CASE Restoring(p, r)
  <2>1. Top(p).root = r /\ manifest[r] = Top(p).manifest
    BY <1>2 DEF Restoring, PresentAt
  <2>2. left'[r] = NoJournal => Within(edited', Top(p), mem[p].files, live'[r])
    BY <1>2, <2>1, WithinEdits DEF PresentAt
  <2>3. left'[r] = NoJournal => Away(edited', Top(p), mem[p].gone, live'[r])
    BY <1>2, <2>1, MemTypes DEF PresentAt, Away
  <2> QED
    BY <1>1, <1>2, <2>1, <2>2, <2>3 DEF PresentAt
<1>3. CASE ~Restoring(p, r)
  <2> DEFINE n == Len(mem[p].cps)
  <2>1. AfterManifest(mem[p], n, r, manifest[r])
    BY <1>3 DEF PresentAt
  <2>2. left'[r] = NoJournal => AfterLive(edited', mem[p], n, r, live'[r])
    BY <1>3, AfterEdits DEF PresentAt
  <2>3. AfterManifest(mem'[p], n, r, manifest'[r])
    BY <1>1, <2>1, AfterPrefix
  <2>4. left'[r] = NoJournal => AfterLive(edited', mem'[p], n, r, live'[r])
    BY <1>1, <2>2, AfterPrefix
  <2> QED
    BY <1>3, <2>3, <2>4 DEF PresentAt
<1> QED
  BY <1>2, <1>3

LEMMA InstalledKept ==
    ASSUME NEW p \in Proc, NEW t, Installed(p, t), mem'[p].bundle = mem[p].bundle, Untouched(t[2])
    PROVE  Installed(p, t)'
BY DEF Installed, Untouched, Files

LEMMA TargetRoots ==
    ASSUME TypeOK, LockInv, NEW p \in Proc
    PROVE  /\ Targeted(p) \in SUBSET Root
           /\ \A t \in mem[p].targets : t[2] \in Targeted(p)
           /\ Working(p) => Targeted(p) \subseteq Held(p)
           /\ \A i \in 1 .. Len(mem[p].cps) : mem[p].cps[i].root \in Targeted(p)
           /\ Len(mem[p].cps) \in Nat
<1>0. mem[p].cps \in Seq(CheckpointType) /\ mem[p].targets \in SUBSET (Claim \X Root)
  BY MemTypes
<1>1. mem[p].targets \in SUBSET (Claim \X Root) /\ Len(mem[p].cps) \in Nat
  BY <1>0
<1>2. Targeted(p) \in SUBSET Root /\ \A t \in mem[p].targets : t[2] \in Targeted(p)
  BY <1>1 DEF Targeted, RootsOf
<1>3. \A i \in 1 .. Len(mem[p].cps) : mem[p].cps[i].root \in CheckpointRoots(mem[p])
  BY DEF CheckpointRoots
<1>4. CheckpointRoots(mem[p]) \subseteq Targeted(p) /\ (Working(p) => Targeted(p) \subseteq Held(p))
  BY DEF LockInv, Working, Targeted
<1> QED
  BY <1>1, <1>2, <1>3, <1>4

(* Nobody else's step disturbs a command.                                  *)
LEMMA Undisturbed ==
    ASSUME TypeOK, LockInv, NEW p \in Proc, WorkInv(p), mem'[p] = mem[p], pc'[p] = pc[p],
           Held(p)' = Held(p), \A r \in Held(p) : Untouched(r)
    PROVE  WorkInv(p)'
<1>1. Targeted(p)' = Targeted(p) /\ Working(p)' = Working(p)
  BY DEF Targeted, Working
<1>2. ASSUME pc[p] = "install"
      PROVE  /\ \A r \in Targeted(p) : left'[r] = NoJournal
             /\ \A t \in mem[p].targets \ mem[p].todo : Installed(p, t)'
  <2>1. Targeted(p) \subseteq Held(p)
    BY <1>2, TargetRoots DEF Working
  <2>2. ASSUME NEW t \in mem[p].targets \ mem[p].todo PROVE Installed(p, t)'
    <3>1. Installed(p, t) /\ t[2] \in Held(p)
      BY <1>2, <2>1, TargetRoots DEF WorkInv
    <3> QED
      BY <3>1, InstalledKept
  <2> QED
    BY <1>2, <2>1, <2>2 DEF WorkInv, Untouched
<1>3. ASSUME Working(p), ~mem[p].failed
      PROVE  Stack(edited', mem[p]) /\ \A r \in Targeted(p) : PresentAt(p, r)'
  <2>1. Targeted(p) \subseteq Held(p)
    BY <1>3, TargetRoots
  <2>2. Stack(edited', mem[p])
    BY <1>3, <2>1, TargetRoots, StackEdits DEF WorkInv, Untouched
  <2>3. ASSUME NEW r \in Targeted(p) PROVE PresentAt(p, r)'
    <3>1. PresentAt(p, r) /\ Untouched(r)
      BY <1>3, <2>1 DEF WorkInv
    <3>2. Restoring(p, r)' <=> Restoring(p, r)
      BY DEF Restoring, Top
    <3> QED
      BY <3>1, <3>2, PresentKept DEF Untouched
  <2> QED
    BY <2>2, <2>3
<1>4. ASSUME pc[p] = "release", Held(p) = Targeted(p)
      PROVE  /\ mem[p].outcome = "ok" => \A t \in mem[p].targets : Installed(p, t)'
             /\ (mem[p].outcome = "error" /\ mem[p].start # <<>>) =>
                    \A r \in Targeted(p) : PutBack(p, r)'
  <2>1. ASSUME mem[p].outcome = "ok", NEW t \in mem[p].targets PROVE Installed(p, t)'
    <3>1. Installed(p, t) /\ t[2] \in Held(p)
      BY <1>4, <2>1, TargetRoots DEF WorkInv
    <3> QED
      BY <3>1, InstalledKept
  <2>2. ASSUME mem[p].outcome = "error", mem[p].start # <<>>, NEW r \in Targeted(p)
        PROVE  PutBack(p, r)'
    <3>1. PutBack(p, r) /\ Untouched(r)
      BY <1>4, <2>2 DEF WorkInv
    <3> QED
      BY <3>1 DEF PutBack, Untouched
  <2> QED
    BY <2>1, <2>2
<1> QED
  BY <1>1, <1>2, <1>3, <1>4 DEF WorkInv

LEMMA OthersUntouched ==
    ASSUME TypeOK, Others, NEW r \in Root, lock[r] # Nobody
    PROVE  Untouched(r) /\ UNCHANGED <<lock, pc, mem>>
<1>1. ASSUME NEW s \in Root, Recover(s) \/ \E c \in Claim : Uninstall(s, c)
      PROVE  Untouched(r) /\ UNCHANGED <<lock, pc, mem>>
  <2>1. /\ lock[s] = Nobody /\ UNCHANGED <<lock, pc, mem, edited>>
        /\ \E x : live' = [live EXCEPT ![s] = x]
        /\ (\E x : left' = [left EXCEPT ![s] = x]) \/ left' = left
        /\ (\E x : manifest' = [manifest EXCEPT ![s] = x]) \/ manifest' = manifest
    BY <1>1 DEF Recover, Uninstall
  <2>2. r # s
    BY <2>1
  <2>3. live'[r] = live[r] /\ left'[r] = left[r] /\ manifest'[r] = manifest[r]
    BY <2>1, <2>2 DEF TypeOK
  <2> QED
    BY <2>1, <2>3 DEF Untouched
<1>2. ASSUME NEW s \in Root, NEW g \in Path, NEW d, UserEdit(s, g, d)
      PROVE  Untouched(r) /\ UNCHANGED <<lock, pc, mem>>
  <2>1. /\ UNCHANGED <<manifest, left, lock, pc, mem>>
        /\ live' = [live EXCEPT ![s][g] = d] /\ edited \subseteq edited'
        /\ r = s => <<r, g>> \in edited'
    BY <1>2 DEF UserEdit
  <2>2. \A f \in Path : (r # s \/ f # g) => live'[r][f] = live[r][f]
    BY <2>1 DEF TypeOK
  <2> QED
    BY <2>1, <2>2 DEF Untouched
<1> QED
  BY <1>1, <1>2 DEF Others

(* A step of q changes at most one root, which it holds.                   *)
LEMMA OneRoot ==
    ASSUME TypeOK, LockInv, NEW q \in Proc, Step(q)
    PROVE  \/ UNCHANGED roots
           \/ \E s \in Root : /\ lock[s] = q
                              /\ \A r \in Root \ {s} : /\ live'[r] = live[r]
                                                       /\ left'[r] = left[r]
                                                       /\ manifest'[r] = manifest[r]
<1> DEFINE Only(s) == \A r \in Root \ {s} : /\ live'[r] = live[r]
                                            /\ left'[r] = left[r]
                                            /\ manifest'[r] = manifest[r]
<1>1. ASSUME pc[q] = "install", mem[q].todo # {}
      PROVE  NextRoot(q) \in Root /\ lock[NextRoot(q)] = q
  BY <1>1, NextRootType, WorkIsLocked
<1>2. ASSUME pc[q] \in {"undo", "restore"}, mem[q].cps # <<>>
      PROVE  Top(q).root \in Root /\ lock[Top(q).root] = q
  <2>1. Top(q).root \in Targeted(q) /\ Working(q)
    BY <1>2, TopType, TargetRoots DEF Working
  <2> QED
    BY <2>1, TargetRoots DEF Held
<1>3. ASSUME InstallRoot(q) PROVE Only(NextRoot(q))
  BY <1>3 DEF InstallRoot, TypeOK
<1>4. ASSUME UNCHANGED manifest, Interrupted(NextRoot(q), mem[q].bundle) PROVE Only(NextRoot(q))
  <2>1. /\ \E x : live' = [live EXCEPT ![NextRoot(q)] = x]
        /\ \E x : left' = [left EXCEPT ![NextRoot(q)] = x]
    BY <1>4 DEF Interrupted
  <2> QED
    BY <1>4, <2>1 DEF TypeOK
<1>5. ASSUME NEW x, manifest' = [manifest EXCEPT ![Top(q).root] = x], UNCHANGED <<live, left>>
      PROVE  Only(Top(q).root)
  BY <1>5 DEF TypeOK
<1>6. ASSUME NEW f \in Path, RestoreFile(q, f) \/ WriteBack(q, f) PROVE Only(Top(q).root)
  BY <1>6, FileStep DEF TypeOK
<1>7. CASE InstallRoot(q)
  BY <1>1, <1>3, <1>7 DEF InstallRoot
<1>8. CASE InstallBreaks(q)
  BY <1>1, <1>4, <1>8 DEF InstallBreaks
<1>9. CASE Crash(q)
  <2>1. CASE UNCHANGED roots
    BY <2>1
  <2>2. CASE /\ pc[q] = "install" /\ mem[q].todo # {} /\ UNCHANGED manifest
             /\ Interrupted(NextRoot(q), mem[q].bundle)
    BY <1>1, <1>4, <2>2
  <2>3. CASE /\ ManifestAllowed(q) /\ UNCHANGED <<live, left>>
             /\ manifest' = [manifest EXCEPT ![Top(q).root] = NoManifest]
    BY <1>2, <1>5, <2>3 DEF ManifestAllowed
  <2> QED
    BY <1>9, <2>1, <2>2, <2>3 DEF Crash
<1>10. CASE RestoreManifest(q) \/ ManifestLost(q)
  BY <1>2, <1>5, <1>10 DEF RestoreManifest, ManifestLost, ManifestAllowed
<1>11. ASSUME NEW f \in Path, RestoreFile(q, f) \/ WriteBack(q, f)
       PROVE  \E s \in Root : lock[s] = q /\ Only(s)
  BY <1>2, <1>6, <1>11, FileStep, SMTT(30)
<1>12. \/ UNCHANGED roots
       \/ InstallRoot(q) \/ InstallBreaks(q) \/ Crash(q) \/ RestoreManifest(q) \/ ManifestLost(q)
       \/ \E f \in Path : RestoreFile(q, f) \/ WriteBack(q, f)
  BY DEF Step, Ask, LockRoot, LockTimeout, LocksHeld, AllInstalled, InstallFails,
         CheckpointRestored, CheckpointFails, UndoDone, Unlock, Return
<1> QED
  BY <1>7, <1>8, <1>9, <1>10, <1>11, <1>12

(* The locks, the control and the memory of the others.                    *)
LEMMA OwnMemory ==
    ASSUME TypeOK, NEW q \in Proc, Step(q), NEW p \in Proc \ {q}
    PROVE  /\ mem'[p] = mem[p] /\ pc'[p] = pc[p] /\ Held(p)' = Held(p)
           /\ \A r \in Held(p), f \in Path : <<r, f>> \in edited <=> <<r, f>> \in edited'
<1>1. mem'[p] = mem[p]
  BY OthersMemory
<1>2. pc'[p] = pc[p]
  BY DEF TypeOK, Goto, Step, Ask, LockRoot, LockTimeout, LocksHeld, InstallRoot, AllInstalled,
         InstallFails, InstallBreaks, StartUndo, RestoreManifest, ManifestLost, GiveUp,
         RestoreFile, WriteBack, CheckpointRestored, CheckpointFails, UndoDone, Unlock, Return, Crash
<1>3. CASE UNCHANGED <<lock, edited>>
  BY <1>1, <1>2, <1>3 DEF Held
<1>4. ASSUME NEW s \in Root, LockRoot(q, s)
      PROVE  /\ Held(p)' = Held(p)
             /\ \A r \in Held(p), f \in Path : <<r, f>> \in edited <=> <<r, f>> \in edited'
  <2>1. lock[s] = Nobody /\ lock' = [lock EXCEPT ![s] = q] /\ edited' = {e \in edited : e[1] # s}
    BY <1>4 DEF LockRoot
  <2>2. Held(p)' = Held(p)
    BY <2>1, LockedHeld
  <2>3. \A r \in Held(p) : r # s
    BY <2>1, RequestAssumption DEF Held
  <2> QED
    BY <2>1, <2>2, <2>3
<1>5. CASE Unlock(q)
  <2>1. Held(q) \in SUBSET Root /\ Held(q) # {}
    BY <1>5 DEF Held, Unlock
  <2>2. Max(Held(q)) \in Root /\ lock[Max(Held(q))] = q
    BY <2>1, GreatestOf DEF Held
  <2>3. Held(p)' = Held(p)
    BY <1>5, <2>2, ReleasedHeld DEF Unlock
  <2> QED
    BY <1>1, <1>2, <1>5, <2>3 DEF Unlock
<1>6. CASE Crash(q)
  BY <1>1, <1>2, <1>6, RequestAssumption DEF Crash, Held, TypeOK
<1>7. \/ UNCHANGED <<lock, edited>>
      \/ \E s \in Root : LockRoot(q, s)
      \/ Unlock(q) \/ Crash(q)
  BY DEF Step, Ask, LockTimeout, LocksHeld, InstallRoot, AllInstalled,
         InstallFails, InstallBreaks, RestoreManifest, ManifestLost, RestoreFile, WriteBack,
         CheckpointRestored, CheckpointFails, UndoDone, Return
<1> QED
  BY <1>1, <1>2, <1>3, <1>4, <1>5, <1>6, <1>7

LEMMA OthersWork ==
    ASSUME TypeOK, LockInv, NEW q \in Proc, Step(q), NEW p \in Proc \ {q}, WorkInv(p)
    PROVE  WorkInv(p)'
<1>1. \A r \in Held(p) : r \in Root /\ lock[r] # q
  BY DEF Held
<1>2. ASSUME NEW r \in Held(p) PROVE Untouched(r)
  <2>1. live'[r] = live[r] /\ left'[r] = left[r] /\ manifest'[r] = manifest[r]
    BY <1>1, OneRoot DEF roots
  <2> QED
    BY <2>1, OwnMemory DEF Untouched
<1> QED
  BY <1>2, OwnMemory, Undisturbed

(* p's own steps. *)

LEMMA OwnLocking ==
    ASSUME TypeOK, LockInv, NEW p \in Proc, WorkInv(p),
           \/ \E q \in Request : Ask(p, q)
           \/ \E r \in Root : LockRoot(p, r)
           \/ LockTimeout(p) \/ LocksHeld(p)
    PROVE  WorkInv(p)'
<1>1. ASSUME NEW q \in Request, Ask(p, q) PROVE WorkInv(p)'
  <2> DEFINE m == [NoMem EXCEPT !.bundle = q.bundle, !.targets = q.targets, !.todo = q.targets]
  <2>1. /\ m.start = <<>> /\ m.cps = <<>> /\ ~m.failed /\ m.outcome = "ok"
        /\ m.todo = q.targets /\ m.targets = q.targets
    BY DEF NoMem
  <2>2. mem' = [mem EXCEPT ![p] = m] /\ Goto(p, "locking") /\ lock' = lock /\ pc[p] = "idle"
    BY <1>1 DEF Ask
  <2> HIDE DEF m
  <2>3. mem'[p] = m /\ pc'[p] = "locking"
    BY <2>2 DEF Goto, TypeOK
  <2>4. Held(p)' = {}
    BY <2>2 DEF LockInv, Held
  <2> QED
    BY <2>1, <2>3, <2>4 DEF WorkInv, Working
<1>2. ASSUME NEW r \in Root, LockRoot(p, r) PROVE WorkInv(p)'
  <2>1. pc[p] = "locking" /\ UNCHANGED <<pc, mem>>
    BY <1>2 DEF LockRoot
  <2>2. Held(p)' = Held(p) \cup {r}
    BY <1>2, LockedHeld DEF LockRoot
  <2>3. r \in Targeted(p)
    <3>1. Unlocked(p) \in SUBSET Nat /\ r \in Wants(p)
      BY <1>2, UnlockedType DEF LockRoot
    <3>2. r \in Unlocked(p)
      BY <3>1, LeastOf DEF Wants
    <3> QED
      BY <3>2 DEF Unlocked, Targeted
  <2>4. Targeted(p)' = Targeted(p)
    BY <2>1 DEF Targeted
  <2> QED
    BY <2>1, <2>2, <2>3, <2>4 DEF WorkInv, Working
<1>3. ASSUME pc[p] = "locking", mem' = [mem EXCEPT ![p].outcome = "error"], Goto(p, "release"),
             lock' = lock
      PROVE  WorkInv(p)'
  <2>1. /\ mem'[p].outcome = "error" /\ mem'[p].start = <<>>
        /\ mem'[p].targets = mem[p].targets /\ pc'[p] = "release"
    BY <1>3, MemTypes DEF WorkInv, Goto, TypeOK, Mem
  <2>2. Held(p)' = Held(p) /\ Targeted(p)' = Targeted(p)
    BY <1>3, <2>1 DEF Held, Targeted
  <2> QED
    BY <2>1, <2>2 DEF WorkInv, Working
<1>4. CASE LockTimeout(p)
  BY <1>3, <1>4 DEF LockTimeout
<1>5. CASE LocksHeld(p) /\ pc'[p] = "release"
  BY <1>3, <1>5 DEF LocksHeld, Goto, TypeOK
<1>6. CASE LocksHeld(p) /\ pc'[p] # "release"
  <2>1. /\ pc[p] = "locking" /\ Unlocked(p) = {} /\ Goto(p, "install")
        /\ \A r \in Held(p) : left[r] = NoJournal
        /\ mem' = [mem EXCEPT ![p].start = [live |-> live, manifest |-> manifest]]
        /\ UNCHANGED <<live, manifest, left, lock, edited>>
    BY <1>6 DEF LocksHeld, Goto, TypeOK, roots
  <2>2. /\ mem'[p].start = [live |-> live, manifest |-> manifest]
        /\ mem'[p].cps = <<>> /\ ~mem'[p].failed /\ mem'[p].outcome = "ok"
        /\ mem'[p].todo = mem'[p].targets /\ mem'[p].targets = mem[p].targets
        /\ pc'[p] = "install"
    BY <2>1, MemTypes DEF WorkInv, Goto, TypeOK, Mem
  <2>3. Held(p)' = Held(p) /\ Targeted(p)' = Targeted(p) /\ Targeted(p) \subseteq Held(p)
    BY <2>1, <2>2 DEF Held, Targeted, Unlocked
  <2>4. Len(mem'[p].cps) = 0
    BY <2>2
  <2>5. Stack(edited, mem[p])'
    BY <2>4 DEF Stack
  <2>6. ASSUME NEW r \in Targeted(p) PROVE PresentAt(p, r)'
    <3>1. AfterManifest(mem'[p], 0, r, manifest'[r])
      BY <2>1, <2>2 DEF AfterManifest
    <3>2. AfterLive(edited', mem'[p], 0, r, live'[r])
      BY <2>1, <2>2 DEF AfterLive, SameBut
    <3> QED
      BY <2>2, <2>4, <3>1, <3>2 DEF PresentAt, Restoring
  <2> QED
    BY <2>1, <2>2, <2>3, <2>5, <2>6 DEF WorkInv, Working
<1> QED
  BY <1>1, <1>2, <1>4, <1>5, <1>6

LEMMA OwnEnd ==
    ASSUME TypeOK, LockInv, NEW p \in Proc, WorkInv(p), Unlock(p) \/ Return(p) \/ Crash(p)
    PROVE  WorkInv(p)'
<1>1. CASE Unlock(p)
  <2>1. Held(p) \in SUBSET Root /\ Held(p) # {} /\ pc[p] = "release" /\ UNCHANGED <<pc, mem>>
    BY <1>1 DEF Held, Unlock
  <2>2. Max(Held(p)) \in Held(p)
    BY <2>1, GreatestOf
  <2>3. Held(p)' = Held(p) \ {Max(Held(p))}
    BY <1>1, <2>1, <2>2, RequestAssumption DEF Unlock, Held, TypeOK
  <2>4. Targeted(p)' = Targeted(p)
    BY <2>1 DEF Targeted
  <2> QED
    BY <2>1, <2>2, <2>3, <2>4 DEF WorkInv, Working
<1>2. CASE Return(p)
  <2>1. pc'[p] = "idle" /\ Held(p)' = {}
    BY <1>2 DEF Return, Goto, TypeOK, Held
  <2> QED
    BY <2>1 DEF WorkInv, Working
<1>3. CASE Crash(p)
  <2>1. pc'[p] = "idle" /\ Held(p)' = {}
    BY <1>3, RequestAssumption DEF Crash, Goto, TypeOK, Held
  <2> QED
    BY <2>1 DEF WorkInv, Working
<1> QED
  BY <1>1, <1>2, <1>3

(* A step of p to undo, which leaves the checkpoints and the manifests     *)
(* alone, and the roots but for one whose install breaks off.              *)
LEMMA OwnUndo ==
    ASSUME TypeOK, LockInv, NEW p \in Proc, WorkInv(p), pc[p] = "install", pc'[p] = "undo",
           mem' = [mem EXCEPT ![p].outcome = "error"], UNCHANGED <<manifest, lock, edited>>,
           \A r \in Root : left'[r] # NoJournal \/ (left'[r] = left[r] /\ live'[r] = live[r])
    PROVE  WorkInv(p)'
<1>1. /\ mem'[p].targets = mem[p].targets /\ mem'[p].cps = mem[p].cps
      /\ mem'[p].start = mem[p].start /\ mem'[p].failed = mem[p].failed
  BY MemTypes DEF TypeOK, Mem
<1>2. Targeted(p)' = Targeted(p) /\ Held(p)' = Held(p)
  BY <1>1 DEF Targeted, Held
<1>3. Stack(edited, mem[p]) /\ \A r \in Targeted(p) : PresentAt(p, r)
  BY DEF WorkInv, Working
<1>4. Stack(edited, mem'[p])
  <2>1. Len(mem[p].cps) \in Nat
    BY TargetRoots
  <2>2. \A w : (w.cps = mem[p].cps /\ w.start = mem[p].start) => Stack(edited, w)
    BY <1>3, <2>1, StackEdits
  <2> QED
    BY <1>1, <2>2
<1>5. ASSUME NEW r \in Targeted(p) PROVE PresentAt(p, r)'
  <2>1. r \in Root /\ PresentAt(p, r) /\ ~Restoring(p, r) /\ ~Restoring(p, r)'
    BY <1>3, TargetRoots DEF Restoring
  <2> QED
    BY <1>1, <2>1, PresentKept
<1> QED
  BY <1>2, <1>4, <1>5 DEF WorkInv, Working

LEMMA OwnFailure ==
    ASSUME TypeOK, LockInv, NEW p \in Proc, WorkInv(p), InstallFails(p) \/ InstallBreaks(p)
    PROVE  WorkInv(p)'
<1>1. /\ pc[p] = "install" /\ pc'[p] = "undo" /\ UNCHANGED <<manifest, lock, edited>>
      /\ mem' = [mem EXCEPT ![p].outcome = "error"]
  BY DEF InstallFails, InstallBreaks, StartUndo, Goto, TypeOK, roots
<1>2. CASE InstallFails(p)
  BY <1>1, <1>2, OwnUndo DEF InstallFails, roots
<1>3. CASE InstallBreaks(p)
  <2>1. Interrupted(NextRoot(p), mem[p].bundle) /\ NextRoot(p) \in Root
    BY <1>3, NextRootType DEF InstallBreaks
  <2>2. left'[NextRoot(p)] # NoJournal
    <3>1. PICK listed \in SUBSET Files(mem[p].bundle) :
             /\ listed # {}
             /\ \E saved : left' = [left EXCEPT ![NextRoot(p)] =
                    [paths |-> listed, saved |-> saved,
                     orig |-> live[NextRoot(p)], new |-> mem[p].bundle.files]]
      BY <2>1, Zenon DEF Interrupted
    <3>2. left'[NextRoot(p)].paths # {}
      BY <2>1, <3>1 DEF TypeOK
    <3> QED
      BY <3>2 DEF NoJournal
  <2>3. \A r \in Root : r # NextRoot(p) => left'[r] = left[r] /\ live'[r] = live[r]
    BY <2>1 DEF Interrupted, TypeOK
  <2> QED
    BY <1>1, <2>2, <2>3, OwnUndo
<1> QED
  BY <1>2, <1>3

(* What a plan brings about for the targets it serves and those before.    *)
LEMMA PlanServes ==
    ASSUME TypeOK, NEW r \in Root, NEW cs \in SUBSET Claim, NEW b \in Bundle,
           NEW plan \in Plans(r, cs, b)
    PROVE  /\ \A c \in plan.claims : /\ c \in plan.manifest.claims
                                     /\ \A f \in Files(b) : c \in plan.manifest.owner[f]
           /\ \A c \in manifest[r].claims \ cs :
                 (\A f \in Files(b) : c \in manifest[r].owner[f]) =>
                     /\ c \in plan.manifest.claims
                     /\ \A f \in Files(b) : c \in plan.manifest.owner[f]
           /\ plan.claims \subseteq cs
           /\ cs # {} => plan.claims # {}
<1> DEFINE m == manifest[r]
           owners == cs \cap m.claims
<1>1. m \in Manifest /\ Files(b) \subseteq Path
  BY DEF TypeOK, Files
<1>2. CASE /\ m.claims \subseteq cs
           /\ plan = [claims |-> cs, manifest |-> WithGroup(m, cs, b)]
  BY <1>1, <1>2 DEF WithGroup
<1>3. CASE \E c \in IF owners # {} THEN owners ELSE cs :
              plan = [claims |-> {c}, manifest |-> WithClaim(m, c, b)]
  <2>1. PICK c \in IF owners # {} THEN owners ELSE cs :
              plan = [claims |-> {c}, manifest |-> WithClaim(m, c, b)]
    BY <1>3
  <2> DEFINE next == WithClaim(m, c, b)
  <2>2. c \in cs /\ plan.claims = {c} /\ plan.manifest = next
    <3> HIDE DEF next
    <3> QED
      BY <2>1 DEF next
  <2>3. /\ next.claims = m.claims \cup {c}
        /\ \A f \in Path : next.owner[f] = IF f \in Files(b) THEN m.owner[f] \cup {c} ELSE m.owner[f] \ {c}
    BY DEF WithClaim
  <2> HIDE DEF next
  <2>4. \A f \in Files(b) : next.owner[f] = m.owner[f] \cup {c}
    BY <1>1, <2>3
  <2>5. \A d \in plan.claims : /\ d \in plan.manifest.claims
                               /\ \A f \in Files(b) : d \in plan.manifest.owner[f]
    BY <2>2, <2>3, <2>4
  <2>6. ASSUME NEW d \in m.claims \ cs, \A f \in Files(b) : d \in m.owner[f]
        PROVE  d \in plan.manifest.claims /\ \A f \in Files(b) : d \in plan.manifest.owner[f]
    BY <2>2, <2>3, <2>4, <2>6
  <2>7. plan.claims \subseteq cs /\ plan.claims # {}
    BY <2>2
  <2> QED
    BY <2>5, <2>6, <2>7
<1>4. \/ /\ m.claims \subseteq cs
         /\ plan = [claims |-> cs, manifest |-> WithGroup(m, cs, b)]
      \/ \E c \in IF owners # {} THEN owners ELSE cs :
              plan = [claims |-> {c}, manifest |-> WithClaim(m, c, b)]
  BY Zenon DEF Plans
<1> QED
  BY <1>2, <1>3, <1>4

(* The install of the next root, in full.                                  *)
LEMMA InstallFacts ==
    ASSUME TypeOK, LockInv, NEW p \in Proc, InstallRoot(p)
    PROVE  \E plan : LET r == NextRoot(p)
                         b == mem[p].bundle
                         cp == Checkpoint(r, b, plan.manifest)
                     IN  /\ plan \in Plans(r, Wanting(mem[p].todo, r), b)
                         /\ plan.manifest \in Manifest
                         /\ pc[p] = "install" /\ left[r] = NoJournal
                         /\ r \in Targeted(p) /\ r \in Root /\ b \in Bundle
                         /\ Wanting(mem[p].todo, r) \in SUBSET Claim
                         /\ Wanting(mem[p].todo, r) # {}
                         /\ live' = [live EXCEPT ![r] =
                                        PayloadAfter(manifest[r], plan.manifest, live[r], b)]
                         /\ manifest' = [manifest EXCEPT ![r] = plan.manifest]
                         /\ mem'[p].cps = Append(mem[p].cps, cp)
                         /\ mem'[p].todo = {t \in mem[p].todo : ~(t[2] = r /\ t[1] \in plan.claims)}
                         /\ mem'[p].start = mem[p].start /\ mem'[p].bundle = b
                         /\ mem'[p].targets = mem[p].targets
                         /\ mem'[p].failed = mem[p].failed /\ mem'[p].outcome = mem[p].outcome
                         /\ UNCHANGED <<left, lock, pc, edited, spent>>
<1> DEFINE r == NextRoot(p)
           b == mem[p].bundle
<1>1. pc[p] = "install" /\ mem[p].todo # {} /\ UNCHANGED <<left, lock, pc, edited, spent>>
  BY DEF InstallRoot
<1>2. PICK plan \in PlansNow(p) :
         /\ left[r] = NoJournal
         /\ live' = [live EXCEPT ![r] = PayloadAfter(manifest[r], plan.manifest, live[r], b)]
         /\ manifest' = [manifest EXCEPT ![r] = plan.manifest]
         /\ mem' = [mem EXCEPT ![p].todo = {t \in @ : ~(t[2] = r /\ t[1] \in plan.claims)},
                               ![p].cps = Append(@, Checkpoint(r, b, plan.manifest))]
  BY Zenon DEF InstallRoot
<1>3. /\ r \in Targeted(p) /\ r \in Root /\ b \in Bundle
      /\ Wanting(mem[p].todo, r) \in SUBSET Claim
  BY <1>1, NextRootType, MemTypes DEF Targeted
<1>4. Wanting(mem[p].todo, r) # {}
  <2>0. mem[p].todo \in SUBSET (Claim \X Root)
    BY MemTypes
  <2>1. RootsOf(mem[p].todo) \in SUBSET Nat /\ RootsOf(mem[p].todo) # {}
    BY <1>1, <2>0, RequestAssumption DEF RootsOf, Root
  <2>2. r \in RootsOf(mem[p].todo)
    BY <2>1, LeastOf DEF NextRoot
  <2> QED
    BY <2>2 DEF RootsOf, Wanting
<1>5. plan \in Plans(r, Wanting(mem[p].todo, r), b) /\ plan.manifest \in Manifest
  BY <1>2, <1>3, PlansType DEF PlansNow
<1> HIDE DEF r, b
<1>6. mem[p] \in Mem
  BY MemTypes
<1>7. /\ mem'[p].cps = Append(mem[p].cps, Checkpoint(r, b, plan.manifest))
      /\ mem'[p].todo = {t \in mem[p].todo : ~(t[2] = r /\ t[1] \in plan.claims)}
      /\ mem'[p].start = mem[p].start /\ mem'[p].bundle = mem[p].bundle
      /\ mem'[p].targets = mem[p].targets
      /\ mem'[p].failed = mem[p].failed /\ mem'[p].outcome = mem[p].outcome
  BY <1>2, <1>6 DEF TypeOK, Mem
<1> QED
  BY <1>1, <1>2, <1>3, <1>4, <1>5, <1>7 DEF r, b

LEMMA PushedStack ==
    ASSUME TypeOK, NEW p \in Proc, NEW c, NEW w, w.cps = Append(mem[p].cps, c),
           w.start = mem[p].start, Stack(edited, mem[p]),
           AfterManifest(mem[p], Len(mem[p].cps), c.root, c.manifest),
           AfterLive(edited, mem[p], Len(mem[p].cps), c.root, c.live)
    PROVE  /\ Stack(edited, w)
           /\ Len(w.cps) = Len(mem[p].cps) + 1 /\ w.cps[Len(w.cps)] = c
           /\ \A i \in 1 .. Len(mem[p].cps) : w.cps[i] = mem[p].cps[i]
           /\ Len(mem[p].cps) \in Nat
<1> DEFINE s == mem[p].cps
           n == Len(s)
<1>1. s \in Seq(CheckpointType)
  BY MemTypes
<1>2. n \in Nat
  BY <1>1
<1>3. Len(w.cps) = n + 1 /\ w.cps[n + 1] = c /\ \A i \in 1 .. n : w.cps[i] = s[i]
  BY <1>1, AppendProperties
<1>4. ASSUME NEW i \in 1 .. Len(w.cps)
      PROVE  /\ AfterManifest(w, i - 1, w.cps[i].root, w.cps[i].manifest)
             /\ AfterLive(edited, w, i - 1, w.cps[i].root, w.cps[i].live)
  <2>1. i - 1 \in Nat /\ \A k \in 1 .. i - 1 : w.cps[k] = mem[p].cps[k]
    BY <1>2, <1>3
  <2>2. /\ AfterManifest(mem[p], i - 1, w.cps[i].root, w.cps[i].manifest)
        /\ AfterLive(edited, mem[p], i - 1, w.cps[i].root, w.cps[i].live)
    <3>1. CASE i \in 1 .. n
      BY <1>3, <3>1 DEF Stack
    <3>2. CASE i = n + 1
      <4>1. i - 1 = n /\ w.cps[i] = c
        BY <1>2, <1>3, <3>2
      <4> QED
        BY <4>1
    <3> QED
      BY <1>2, <1>3, <3>1, <3>2
  <2> QED
    BY <2>1, <2>2, AfterPrefix
<1> QED
  BY <1>2, <1>3, <1>4 DEF Stack

LEMMA OwnInstall ==
    ASSUME TypeOK, LockInv, NEW p \in Proc, WorkInv(p), InstallRoot(p)
    PROVE  WorkInv(p)'
<1> DEFINE r == NextRoot(p)
           b == mem[p].bundle
           cs == Wanting(mem[p].todo, r)
<1>1. PICK plan : LET cp == Checkpoint(r, b, plan.manifest)
                  IN  /\ plan \in Plans(r, cs, b)
                      /\ plan.manifest \in Manifest
                      /\ pc[p] = "install" /\ left[r] = NoJournal
                      /\ r \in Targeted(p) /\ r \in Root /\ b \in Bundle
                      /\ cs \in SUBSET Claim /\ cs # {}
                      /\ live' = [live EXCEPT ![r] =
                                     PayloadAfter(manifest[r], plan.manifest, live[r], b)]
                      /\ manifest' = [manifest EXCEPT ![r] = plan.manifest]
                      /\ mem'[p].cps = Append(mem[p].cps, cp)
                      /\ mem'[p].todo = {t \in mem[p].todo : ~(t[2] = r /\ t[1] \in plan.claims)}
                      /\ mem'[p].start = mem[p].start /\ mem'[p].bundle = b
                      /\ mem'[p].targets = mem[p].targets
                      /\ mem'[p].failed = mem[p].failed /\ mem'[p].outcome = mem[p].outcome
                      /\ UNCHANGED <<left, lock, pc, edited, spent>>
  BY InstallFacts, Zenon
<1> DEFINE cp == Checkpoint(r, b, plan.manifest)
           n == Len(mem[p].cps)
<1> HIDE DEF r, b
<1>2. Targeted(p)' = Targeted(p) /\ Held(p)' = Held(p) /\ pc'[p] = "install"
  BY <1>1 DEF Targeted, Held
<1>3. /\ ~mem[p].failed /\ mem[p].outcome = "ok"
      /\ \A s \in Targeted(p) : left[s] = NoJournal /\ PresentAt(p, s) /\ ~Restoring(p, s)
      /\ \A t \in mem[p].targets \ mem[p].todo : Installed(p, t)
      /\ Stack(edited, mem[p])
  BY <1>1 DEF WorkInv, Working, Restoring
<1>4. /\ cp.root = r /\ cp.manifest = manifest[r] /\ cp.live = live[r]
      /\ cp.files = Files(b) \cup Owned(manifest[r]) /\ cp.new = plan.manifest
      /\ cp.bundle = b
  BY DEF Checkpoint
<1>5. AfterManifest(mem[p], n, cp.root, cp.manifest) /\ AfterLive(edited, mem[p], n, cp.root, cp.live)
  BY <1>1, <1>3, <1>4 DEF PresentAt
<1> HIDE DEF cp, cs
<1>6. /\ Stack(edited, mem'[p])
      /\ Len(mem'[p].cps) = n + 1 /\ mem'[p].cps[n + 1] = cp
      /\ \A i \in 1 .. n : mem'[p].cps[i] = mem[p].cps[i]
      /\ n \in Nat
  <2>1. \A w : (w.cps = Append(mem[p].cps, cp) /\ w.start = mem[p].start) =>
           /\ Stack(edited, w)
           /\ Len(w.cps) = Len(mem[p].cps) + 1 /\ w.cps[Len(w.cps)] = cp
           /\ \A i \in 1 .. Len(mem[p].cps) : w.cps[i] = mem[p].cps[i]
           /\ Len(mem[p].cps) \in Nat
    BY <1>3, <1>5, PushedStack
  <2>2. mem'[p].cps = Append(mem[p].cps, cp) /\ mem'[p].start = mem[p].start
    BY <1>1 DEF cp
  <2> QED
    BY <2>1, <2>2
<1>7. /\ manifest'[r] = plan.manifest
      /\ live'[r] = PayloadAfter(manifest[r], plan.manifest, live[r], b)
      /\ \A s \in Root \ {r} : manifest'[s] = manifest[s] /\ live'[s] = live[s]
  BY <1>1 DEF TypeOK
<1>8. ASSUME NEW s \in Targeted(p) PROVE PresentAt(p, s)'
  <2>1. s \in Root /\ left'[s] = NoJournal /\ ~Restoring(p, s)'
    BY <1>1, <1>2, <1>3, TargetRoots DEF Restoring
  <2>2. CASE s = r
    <3>0. /\ \A x : AfterManifest(mem'[p], n + 1, mem'[p].cps[n + 1].root, x)
                       <=> x = mem'[p].cps[n + 1].new
          /\ \A l : AfterLive(edited, mem'[p], n + 1, mem'[p].cps[n + 1].root, l)
                       <=> Within(edited, mem'[p].cps[n + 1], mem'[p].cps[n + 1].files, l)
      <4>1. n + 1 \in Nat \ {0}
        BY <1>6
      <4> QED
        BY <4>1, AfterTop
    <3>1. AfterManifest(mem'[p], n + 1, r, manifest'[r])
      <4>1. cp.root = r /\ cp.new = manifest'[r]
        BY <1>4, <1>7
      <4> QED
        BY <1>6, <3>0, <4>1
    <3>2. Within(edited, cp, cp.files, live'[r])
      <4> SUFFICES ASSUME NEW f \in Path
                   PROVE  IF f \in cp.files THEN live'[r][f] \in Allowed(cp, f)
                                            ELSE live'[r][f] = cp.live[f]
        BY DEF Within
      <4> QED
        BY <1>4, <1>7 DEF Allowed, PayloadAfter
    <3>3. AfterLive(edited, mem'[p], n + 1, r, live'[r])
      BY <1>4, <1>6, <3>0, <3>2
    <3> QED
      BY <1>1, <1>6, <2>1, <2>2, <3>1, <3>3 DEF PresentAt
  <2>3. CASE s # r
    <3>1. AfterManifest(mem[p], n, s, manifest[s]) /\ AfterLive(edited, mem[p], n, s, live[s])
      BY <1>3 DEF PresentAt
    <3>2. AfterManifest(mem'[p], n, s, manifest[s]) /\ AfterLive(edited, mem'[p], n, s, live[s])
      <4>1. mem'[p].start = mem[p].start
        BY <1>1
      <4> QED
        BY <1>6, <3>1, <4>1, AfterPrefix
    <3>3. n + 1 \in Nat \ {0} /\ mem'[p].cps[n + 1].root # s /\ (n + 1) - 1 = n
      BY <1>4, <1>6, <2>3
    <3>4. AfterManifest(mem'[p], n + 1, s, manifest[s]) /\ AfterLive(edited, mem'[p], n + 1, s, live[s])
      BY <3>2, <3>3, AfterSkip, ZenonT(40)
    <3> QED
      BY <1>1, <1>6, <1>7, <2>1, <2>3, <3>4 DEF PresentAt
  <2> QED
    BY <2>2, <2>3
<1>9. /\ \A c \in plan.claims : /\ c \in plan.manifest.claims
                               /\ \A f \in Files(b) : c \in plan.manifest.owner[f]
      /\ \A c \in manifest[r].claims \ cs :
            (\A f \in Files(b) : c \in manifest[r].owner[f]) =>
                /\ c \in plan.manifest.claims
                /\ \A f \in Files(b) : c \in plan.manifest.owner[f]
  <2>1. plan \in Plans(r, cs, b) /\ r \in Root /\ b \in Bundle /\ cs \in SUBSET Claim
    BY <1>1
  <2> QED
    BY <2>1, PlanServes
<1>10. ASSUME NEW t \in mem[p].targets \ mem'[p].todo PROVE Installed(p, t)'
  <2>1. mem'[p].bundle = b /\ edited' = edited
    BY <1>1
  <2>2. t \in Claim \X Root
    BY MemTypes
  <2>3. CASE t[2] # r
    <3>1. Installed(p, t)
      BY <1>1, <1>3, <2>3
    <3> QED
      BY <1>7, <2>1, <2>2, <2>3, <3>1 DEF Installed, b
  <2>4. CASE t[2] = r
    <3>1. t[1] \in plan.manifest.claims /\ \A f \in Files(b) : t[1] \in plan.manifest.owner[f]
      <4>1. CASE t[1] \in plan.claims
        BY <1>9, <4>1
      <4>2. CASE t[1] \notin plan.claims
        <5>1. t \notin mem[p].todo
          BY <1>1, <4>2
        <5>2. t[1] \in manifest[r].claims /\ \A f \in Files(b) : t[1] \in manifest[r].owner[f]
          BY <1>3, <2>4, <5>1 DEF Installed, b
        <5>3. t[1] \notin cs
          <6>1. \A u \in Claim \X Root : (u[1] = t[1] /\ u[2] = r) => u = t
            BY <2>2, <2>4
          <6>2. mem[p].todo \subseteq Claim \X Root
            BY MemTypes
          <6> QED
            BY <5>1, <6>1, <6>2 DEF cs, Wanting
        <5> QED
          BY <1>9, <5>2, <5>3
      <4> QED
        BY <4>1, <4>2
    <3>2. \A f \in Files(b) : live'[r][f] = b.files[f]
      BY <1>7 DEF PayloadAfter, Files
    <3> QED
      BY <1>7, <2>1, <2>4, <3>1, <3>2 DEF Installed
  <2> QED
    BY <2>3, <2>4
<1> QED
  BY <1>1, <1>2, <1>3, <1>6, <1>8, <1>10 DEF WorkInv, Working

LEMMA SameStack ==
    ASSUME TypeOK, NEW p \in Proc, Stack(edited, mem[p]), NEW w,
           w.cps = mem[p].cps, w.start = mem[p].start
    PROVE  Stack(edited, w)
<1>1. mem[p].cps \in Seq(CheckpointType)
  BY MemTypes
<1>2. Len(mem[p].cps) \in Nat
  BY <1>1
<1> QED
  BY <1>2, StackEdits

LEMMA OwnRestoreManifest ==
    ASSUME TypeOK, LockInv, NEW p \in Proc, WorkInv(p), RestoreManifest(p)
    PROVE  WorkInv(p)'
<1> DEFINE n == Len(mem[p].cps)
           cp == Top(p)
<1>1. /\ pc[p] = "undo" /\ pc'[p] = "restore" /\ mem[p].cps # <<>>
      /\ manifest' = [manifest EXCEPT ![cp.root] = cp.manifest]
      /\ UNCHANGED <<live, left, lock, edited>>
  BY DEF RestoreManifest, ManifestAllowed, Goto, TypeOK
<1>2. /\ mem'[p].files = cp.files /\ mem'[p].gone = {} /\ mem'[p].cps = mem[p].cps /\ mem'[p].start = mem[p].start
      /\ mem'[p].targets = mem[p].targets /\ mem'[p].failed = mem[p].failed
  BY MemTypes DEF RestoreManifest, TypeOK, Mem
<1>3. Targeted(p)' = Targeted(p) /\ Held(p)' = Held(p) /\ Top(p)' = cp
  BY <1>1, <1>2 DEF Targeted, Held, Top
<1>4. /\ cp = mem[p].cps[n] /\ n \in Nat \ {0} /\ cp.root \in Targeted(p) /\ cp.root \in Root
      /\ Targeted(p) \subseteq Root
  <2>1. cp = mem[p].cps[n] /\ n \in Nat \ {0}
    BY <1>1, TopType
  <2>2. Targeted(p) \in SUBSET Root /\ \A i \in 1 .. n : mem[p].cps[i].root \in Targeted(p)
    BY TargetRoots
  <2> QED
    BY <2>1, <2>2
<1>5. ASSUME ~mem[p].failed
      PROVE  Stack(edited, mem'[p]) /\ \A s \in Targeted(p) : PresentAt(p, s)'
  <2>1. Stack(edited, mem[p]) /\ \A s \in Targeted(p) : PresentAt(p, s) /\ ~Restoring(p, s)
    BY <1>1, <1>5 DEF WorkInv, Working, Restoring
  <2>2. Stack(edited, mem'[p])
    BY <1>2, <2>1, SameStack
  <2>3. ASSUME NEW s \in Targeted(p), s # cp.root PROVE PresentAt(p, s)'
    <3>1. manifest'[s] = manifest[s] /\ ~Restoring(p, s)'
      BY <1>1, <1>3, <1>4, <2>3 DEF Restoring, TypeOK
    <3> QED
      BY <1>1, <1>2, <2>1, <3>1, PresentKept
  <2>4. ASSUME NEW s \in Targeted(p), s = cp.root PROVE PresentAt(p, s)'
    <3>1. left[s] = NoJournal => AfterLive(edited, mem[p], n, mem[p].cps[n].root, live[s])
      BY <1>4, <2>1, <2>4 DEF PresentAt
    <3>2. \A l : AfterLive(edited, mem[p], n, mem[p].cps[n].root, l)
                    <=> Within(edited, mem[p].cps[n], mem[p].cps[n].files, l)
      BY <1>4, AfterTop
    <3>3. left[s] = NoJournal => Within(edited, cp, cp.files, live[s])
      BY <1>4, <3>1, <3>2
    <3>4. manifest'[s] = cp.manifest
      BY <1>1, <1>4, <2>4 DEF TypeOK
    <3>5. Restoring(p, s)'
      BY <1>1, <1>3, <2>4 DEF Restoring
    <3> QED
      BY <1>1, <1>2, <1>3, <3>3, <3>4, <3>5 DEF PresentAt, Away
  <2> QED
    BY <2>2, <2>3, <2>4
<1> QED
  BY <1>1, <1>2, <1>3, <1>5 DEF WorkInv, Working

LEMMA FileDone ==
    ASSUME TypeOK, NEW p \in Proc, NEW f \in Path, RestoreFile(p, f) \/ WriteBack(p, f)
    PROVE  LET cp == Top(p)
               x  == live'[cp.root][f]
               fs == mem'[p].files
               gs == mem'[p].gone
           IN  \/ x = cp.live[f] /\ fs = mem[p].files \ {f} /\ gs \subseteq mem[p].gone \ {f}
               \/ x = Absent /\ f \in mem[p].files /\ fs = mem[p].files /\ gs = {f}
<1>1. mem[p] \in Mem /\ mem \in [Proc -> Mem] /\ Top(p).root \in Root
  BY FileStep DEF TypeOK
<1>2. \A x : live' = [live EXCEPT ![Top(p).root][f] = x] => live'[Top(p).root][f] = x
  BY <1>1 DEF TypeOK
<1>3. CASE RestoreFile(p, f)
  <2>1. live'[Top(p).root][f] = Absent /\ f \in mem[p].files /\ mem[p].gone = {}
    BY <1>2, <1>3 DEF RestoreFile
  <2>2. CASE Top(p).live[f] = Absent
    <3>1. mem' = [mem EXCEPT ![p].files = @ \ {f}]
      BY <1>3, <2>2 DEF RestoreFile
    <3>2. mem'[p].files = mem[p].files \ {f} /\ mem'[p].gone = mem[p].gone
      BY <1>1, <3>1 DEF Mem
    <3> QED
      BY <2>1, <2>2, <3>2
  <2>3. CASE Top(p).live[f] # Absent
    <3>1. mem' = [mem EXCEPT ![p].gone = {f}]
      BY <1>3, <2>3 DEF RestoreFile
    <3>2. mem'[p].files = mem[p].files /\ mem'[p].gone = {f}
      BY <1>1, <3>1 DEF Mem
    <3> QED
      BY <2>1, <3>2
  <2> QED
    BY <2>2, <2>3
<1>4. CASE WriteBack(p, f)
  <2>1. live'[Top(p).root][f] = Top(p).live[f]
    BY <1>2, <1>4 DEF WriteBack
  <2>2. mem' = [mem EXCEPT ![p].files = @ \ {f}, ![p].gone = @ \ {f}]
    BY <1>4 DEF WriteBack
  <2>3. mem'[p].files = mem[p].files \ {f} /\ mem'[p].gone = mem[p].gone \ {f}
    BY <1>1, <2>2 DEF Mem
  <2> QED
    BY <2>1, <2>3
<1> QED
  BY <1>3, <1>4

(* Unlinking a file and writing it anew keep the files still to restore    *)
(* within what the checkpoint allows.                                      *)
LEMMA OwnFile ==
    ASSUME TypeOK, LockInv, NEW p \in Proc, WorkInv(p), NEW f \in Path,
           RestoreFile(p, f) \/ WriteBack(p, f)
    PROVE  WorkInv(p)'
<1> DEFINE cp == Top(p)
<1>a. PICK x \in Leaf : live' = [live EXCEPT ![cp.root][f] = x]
  BY FileStep
<1>b. PICK fs, gs \in SUBSET Path : mem' = [mem EXCEPT ![p] = FilesSet(p, fs, gs)]
  BY FileStep
<1>1. /\ pc[p] = "restore" /\ pc'[p] = "restore" /\ mem[p].cps # <<>>
      /\ UNCHANGED <<manifest, left, lock, edited>>
  BY FileStep
<1>2. /\ mem'[p].files = fs /\ mem'[p].gone = gs /\ mem'[p].cps = mem[p].cps
      /\ mem'[p].start = mem[p].start
      /\ mem'[p].targets = mem[p].targets /\ mem'[p].failed = mem[p].failed
  BY <1>b, FileMemory DEF TypeOK
<1>3. Targeted(p)' = Targeted(p) /\ Held(p)' = Held(p) /\ Top(p)' = cp
  BY <1>1, <1>2 DEF Targeted, Held, Top
<1>4. cp.root \in Root /\ Targeted(p) \subseteq Root
  BY <1>1, TopType, TargetRoots DEF CheckpointType
<1>5. ASSUME ~mem[p].failed
      PROVE  Stack(edited, mem'[p]) /\ \A s \in Targeted(p) : PresentAt(p, s)'
  <2>1. Stack(edited, mem[p]) /\ \A s \in Targeted(p) : PresentAt(p, s)
    BY <1>1, <1>5 DEF WorkInv, Working
  <2>2. Stack(edited, mem'[p])
    BY <1>2, <2>1, SameStack
  <2>3. ASSUME NEW s \in Targeted(p), s # cp.root PROVE PresentAt(p, s)'
    <3>1. live'[s] = live[s] /\ ~Restoring(p, s) /\ ~Restoring(p, s)'
      BY <1>1, <1>3, <1>4, <2>3, FileStep DEF Restoring
    <3> QED
      BY <1>1, <1>2, <2>1, <3>1, PresentKept
  <2>4. ASSUME NEW s \in Targeted(p), s = cp.root PROVE PresentAt(p, s)'
    <3>1. /\ manifest[s] = cp.manifest /\ Restoring(p, s)'
          /\ left[s] = NoJournal => /\ Within(edited, cp, mem[p].files, live[s])
                                    /\ Away(edited, cp, mem[p].gone, live[s])
      BY <1>1, <1>3, <2>1, <2>4 DEF PresentAt, Restoring
    <3>2. live'[s] = [live[s] EXCEPT ![f] = x] /\ live[s] \in [Path -> Leaf]
      BY <1>a, <1>4, <2>4 DEF TypeOK
    <3>3. \/ x = cp.live[f] /\ fs = mem[p].files \ {f} /\ gs \subseteq mem[p].gone \ {f}
          \/ x = Absent /\ f \in mem[p].files /\ fs = mem[p].files /\ gs = {f}
      BY <1>2, <1>4, <2>4, <3>2, FileDone
    <3>4. left[s] = NoJournal => Within(edited, cp, fs, live'[s]) /\ Away(edited, cp, gs, live'[s])
      BY <1>a, <3>1, <3>2, <3>3 DEF Within, Away, Allowed
    <3> QED
      BY <1>1, <1>2, <1>3, <3>1, <3>4 DEF PresentAt
  <2> QED
    BY <2>2, <2>3, <2>4
<1> QED
  BY <1>1, <1>2, <1>3, <1>5 DEF WorkInv, Working

LEMMA OwnRestored ==
    ASSUME TypeOK, LockInv, NEW p \in Proc, WorkInv(p), CheckpointRestored(p)
    PROVE  WorkInv(p)'
<1> DEFINE n == Len(mem[p].cps)
           cp == Top(p)
<1>1. /\ pc[p] = "restore" /\ pc'[p] = "undo" /\ mem[p].cps # <<>> /\ mem[p].files = {}
      /\ UNCHANGED <<live, manifest, left, lock, edited>>
      /\ mem'[p] = Popped(p)
  BY DEF CheckpointRestored, Goto, TypeOK, roots
<1>2. /\ mem'[p].cps = SubSeq(mem[p].cps, 1, n - 1)
      /\ mem'[p].start = mem[p].start
      /\ mem'[p].targets = mem[p].targets /\ mem'[p].failed = mem[p].failed
  BY <1>1, MemTypes, TopType DEF Popped, Mem
<1>3. /\ cp = mem[p].cps[n] /\ n \in Nat \ {0}
      /\ Len(mem'[p].cps) = n - 1 /\ \A i \in 1 .. n - 1 : mem'[p].cps[i] = mem[p].cps[i]
  <2>1. mem[p].cps \in Seq(CheckpointType)
    BY MemTypes
  <2> QED
    BY <1>1, <1>2, <2>1, TopType
<1>4. Targeted(p)' = Targeted(p) /\ Held(p)' = Held(p)
  BY <1>1, <1>2 DEF Targeted, Held
<1>5. ASSUME ~mem[p].failed
      PROVE  Stack(edited, mem'[p]) /\ \A s \in Targeted(p) : PresentAt(p, s)'
  <2>1. Stack(edited, mem[p]) /\ \A s \in Targeted(p) : PresentAt(p, s)
    BY <1>1, <1>5 DEF WorkInv, Working
  <2>2. Stack(edited, mem'[p])
    <3>1. \A w : (/\ Len(w.cps) = n - 1 /\ w.start = mem[p].start
                  /\ \A i \in 1 .. n - 1 : w.cps[i] = mem[p].cps[i]) => Stack(edited, w)
      <4>1. n - 1 \in Nat /\ n \in Nat /\ n - 1 <= n
        BY <1>3
      <4> QED
        BY <2>1, <4>1, StackEdits
    <3> QED
      BY <1>2, <1>3, <3>1
  <2>3. ASSUME NEW s \in Targeted(p)
        PROVE  /\ AfterManifest(mem[p], n - 1, s, manifest[s])
               /\ left[s] = NoJournal => AfterLive(edited, mem[p], n - 1, s, live[s])
    <3>1. CASE s = cp.root
      <4>1. /\ manifest[s] = cp.manifest
            /\ left[s] = NoJournal => Within(edited, cp, {}, live[s])
        BY <1>1, <2>1, <3>1 DEF PresentAt, Restoring
      <4>2. /\ AfterManifest(mem[p], n - 1, s, cp.manifest)
            /\ AfterLive(edited, mem[p], n - 1, s, cp.live)
        <5>1. n \in 1 .. n
          BY <1>3
        <5> QED
          BY <1>3, <2>1, <3>1, <5>1 DEF Stack
      <4>3. left[s] = NoJournal => \A f \in Path : <<s, f>> \in edited \/ live[s][f] = cp.live[f]
        BY <3>1, <4>1 DEF Within
      <4> QED
        BY <4>1, <4>2, <4>3, AfterEdits
    <3>2. CASE s # cp.root
      <4>1. /\ AfterManifest(mem[p], n, s, manifest[s])
            /\ left[s] = NoJournal => AfterLive(edited, mem[p], n, s, live[s])
        BY <2>1, <3>2 DEF PresentAt, Restoring
      <4> QED
        BY <1>3, <3>2, <4>1, AfterSkip
    <3> QED
      BY <3>1, <3>2
  <2>4. ASSUME NEW s \in Targeted(p) PROVE PresentAt(p, s)'
    <3>1. n - 1 \in Nat
      BY <1>3
    <3>2. /\ AfterManifest(mem'[p], n - 1, s, manifest[s])
          /\ left[s] = NoJournal => AfterLive(edited, mem'[p], n - 1, s, live[s])
      BY <1>2, <1>3, <2>3, <3>1, AfterPrefix
    <3> QED
      BY <1>1, <1>3, <3>2 DEF PresentAt, Restoring
  <2> QED
    BY <2>2, <2>4
<1> QED
  BY <1>1, <1>2, <1>4, <1>5 DEF WorkInv, Working

LEMMA OwnOutcome ==
    ASSUME TypeOK, LockInv, NEW p \in Proc, WorkInv(p),
           AllInstalled(p) \/ CheckpointFails(p) \/ ManifestLost(p) \/ UndoDone(p)
    PROVE  WorkInv(p)'
<1>1. CASE AllInstalled(p)
  <2>1. /\ pc[p] = "install" /\ mem[p].todo = {} /\ pc'[p] = "release"
        /\ UNCHANGED <<live, manifest, lock, mem, edited>>
    BY <1>1 DEF AllInstalled, Goto, TypeOK, roots
  <2>2. Targeted(p)' = Targeted(p) /\ Held(p)' = Held(p)
    BY <2>1 DEF Targeted, Held
  <2>3. \A t : Installed(p, t) => Installed(p, t)'
    BY <2>1 DEF Installed
  <2> QED
    BY <2>1, <2>2, <2>3 DEF WorkInv, Working
<1>2. CASE CheckpointFails(p) \/ ManifestLost(p)
  <2>1. /\ pc'[p] = "undo" /\ lock' = lock /\ mem[p].cps # <<>>
        /\ mem'[p] = [Popped(p) EXCEPT !.failed = TRUE]
    BY <1>2 DEF CheckpointFails, ManifestLost, ManifestAllowed, GiveUp, Goto, TypeOK
  <2>2. mem'[p].failed /\ mem'[p].targets = mem[p].targets
    BY <2>1, TopType DEF Mem
  <2>3. Targeted(p)' = Targeted(p) /\ Held(p)' = Held(p)
    BY <2>1, <2>2 DEF Targeted, Held
  <2> QED
    BY <2>1, <2>2, <2>3 DEF WorkInv, Working
<1>3. CASE UndoDone(p)
  <2>1. /\ pc[p] = "undo" /\ pc'[p] = "release" /\ mem[p].cps = <<>>
        /\ UNCHANGED <<live, manifest, left, lock, edited>>
        /\ mem' = [mem EXCEPT ![p] = [mem[p] EXCEPT
                      !.outcome = IF mem[p].failed THEN "recovery" ELSE "error"]]
    BY <1>3 DEF UndoDone, Goto, TypeOK, roots
  <2>2. /\ mem'[p].outcome = IF mem[p].failed THEN "recovery" ELSE "error"
        /\ mem'[p].start = mem[p].start /\ mem'[p].targets = mem[p].targets
    BY <2>1, MemTypes DEF TypeOK, Mem
  <2>3. Targeted(p)' = Targeted(p) /\ Held(p)' = Held(p)
    BY <2>1, <2>2 DEF Targeted, Held
  <2>4. ASSUME ~mem[p].failed, NEW r \in Targeted(p) PROVE PutBack(p, r)'
    <3>1. PresentAt(p, r) /\ ~Restoring(p, r) /\ Len(mem[p].cps) = 0
      BY <2>1, <2>4 DEF WorkInv, Working, Restoring
    <3>2. NoneOf(mem[p].cps, 0, r)
      BY DEF NoneOf
    <3>3. /\ manifest[r] = mem[p].start.manifest[r]
          /\ left[r] = NoJournal => SameBut(edited, r, live[r], mem[p].start.live[r])
      BY <3>1, <3>2 DEF PresentAt, AfterManifest, AfterLive
    <3> QED
      BY <2>1, <2>2, <3>3 DEF PutBack, SameBut
  <2> QED
    BY <2>1, <2>2, <2>3, <2>4 DEF WorkInv, Working
<1> QED
  BY <1>1, <1>2, <1>3

LEMMA WorkAlways == Spec => [](TypeOK /\ LockInv /\ \A p \in Proc : WorkInv(p))
<1>1. Init => \A p \in Proc : WorkInv(p)
  <2> SUFFICES ASSUME Init, NEW p \in Proc PROVE WorkInv(p)
    OBVIOUS
  <2>1. pc[p] = "idle" /\ Held(p) = {}
    BY RequestAssumption DEF Init, Held
  <2> QED
    BY <2>1 DEF WorkInv, Working
<1>2. TypeOK /\ LockInv /\ (\A p \in Proc : WorkInv(p)) /\ [Next]_vars => (\A p \in Proc : WorkInv(p))'
  <2> SUFFICES ASSUME TypeOK, LockInv, \A q \in Proc : WorkInv(q), [Next]_vars, NEW p \in Proc
               PROVE  WorkInv(p)'
    OBVIOUS
  <2>1. CASE UNCHANGED vars
    <3>1. mem'[p] = mem[p] /\ pc'[p] = pc[p] /\ Held(p)' = Held(p) /\ \A r \in Held(p) : Untouched(r)
      BY <2>1 DEF vars, Held, Untouched
    <3> QED
      BY <3>1, Undisturbed
  <2>2. CASE Others
    <3>1. \A r \in Held(p) : r \in Root /\ lock[r] # Nobody
      BY RequestAssumption DEF Held
    <3>2. UNCHANGED <<lock, pc, mem>>
      BY <2>2 DEF Others, Recover, Uninstall, UserEdit
    <3>3. mem'[p] = mem[p] /\ pc'[p] = pc[p] /\ Held(p)' = Held(p)
      BY <3>2 DEF Held
    <3>4. \A r \in Held(p) : Untouched(r)
      BY <2>2, <3>1, OthersUntouched
    <3> QED
      BY <3>3, <3>4, Undisturbed
  <2>3. ASSUME NEW q \in Proc, q # p, Step(q) PROVE WorkInv(p)'
    BY <2>3, OthersWork
  <2>4. CASE Step(p)
    BY <2>4, OwnLocking, OwnEnd, OwnFailure, OwnInstall, OwnRestoreManifest, OwnFile,
       OwnRestored, OwnOutcome DEF Step
  <2> QED
    BY <2>1, <2>2, <2>3, <2>4 DEF Next
<1> QED
  BY <1>1, <1>2, LocksAlways, PTL DEF Spec

(* A command that installs into several roots and succeeded has installed  *)
(* every target; one that failed and could compensate has put every root   *)
(* back to what it found when it had all the locks, manifest and payload,  *)
(* whatever fails, dies and is edited meanwhile: the checkpoints unwind to *)
(* the start of the command even where several of them are of one root.    *)
THEOREM AllOrNothingHolds == Spec => []AllOrNothing
<1>1. (\A p \in Proc : WorkInv(p)) => AllOrNothing
  <2> SUFFICES ASSUME \A p \in Proc : WorkInv(p), NEW p \in Proc,
                      pc[p] = "release", Held(p) = RootsOf(mem[p].targets)
               PROVE  /\ mem[p].outcome = "ok" =>
                            \A t \in mem[p].targets : Installed(p, t)
                      /\ (mem[p].outcome = "error" /\ mem[p].start # <<>>) =>
                            \A r \in Held(p) : PutBack(p, r)
    BY DEF AllOrNothing, Installed, PutBack
  <2> QED
    BY DEF WorkInv, Targeted
<1> QED
  BY <1>1, WorkAlways, PTL

-----------------------------------------------------------------------------
(* Roots between commands.  Each root keeps to its manifest, but for the   *)
(* one whose checkpoint is being restored; the checkpoints do too; and a   *)
(* journal left in a root leads back to bytes that keep to the manifest.   *)

(* Nobody edits a root, compensation itself neither fails nor dies, and an *)
(* install may break off beyond its own rollback only where each root is   *)
(* the target of one host: the journal left in a root two hosts share      *)
(* outlives the compensation of the first host's install.                  *)
Calm == /\ MaxEdits = 0
        /\ {"undo", "restore"} \cap (FaultPhase \cup CrashPhase) = {}
        /\ \/ MaxFaults \in {0, 1}
           \/ \A q \in Request : \A t, u \in q.targets : t[2] = u[2] => t = u

Consistent(m, l) ==
    \A f \in Path : IF f \in Owned(m) THEN l[f] = m.sha[f] ELSE l[f] \notin Digest

OwnersClaim(m) == \A f \in Path : m.owner[f] \subseteq m.claims

(* recover_root puts back what the interrupted install found.              *)
Undoable(r) ==
    LET j == left[r]
    IN  j # NoJournal =>
            /\ Consistent(manifest[r], j.orig)
            /\ \A f \in Path :
                 \/ live[r][f] = j.orig[f]
                 \/ f \in j.paths /\ (f \in j.saved \/ (j.orig[f] = Absent /\ live[r][f] = j.new[f]))

BeingRestored(r) == \E p \in Proc : lock[r] = p /\ Restoring(p, r)

RootInv(r) ==
    /\ OwnersClaim(manifest[r])
    /\ Undoable(r)
    /\ (left[r] = NoJournal /\ ~BeingRestored(r)) => Consistent(manifest[r], live[r])

CommandInv(p) ==
    /\ ~mem[p].failed
    /\ MaxFaults \in {0, 1} \/ \A t, u \in mem[p].targets : t[2] = u[2] => t = u
    /\ \A i \in 1 .. Len(mem[p].cps) :
          /\ OwnersClaim(mem[p].cps[i].manifest)
          /\ Consistent(mem[p].cps[i].manifest, mem[p].cps[i].live)
          /\ \E t \in mem[p].targets \ mem[p].todo : t[2] = mem[p].cps[i].root
    /\ Working(p) => \A r \in Targeted(p) :
           left[r] = NoJournal \/ NoneOf(mem[p].cps, Len(mem[p].cps), r)

CalmInv ==
    /\ edited = {}
    /\ \A r \in Root : RootInv(r)
    /\ \A p \in Proc : CommandInv(p) /\ WorkInv(p)

LEMMA PlanConsistent ==
    ASSUME TypeOK, NEW r \in Root, NEW cs \in SUBSET Claim, cs # {}, NEW b \in Bundle,
           NEW plan \in Plans(r, cs, b),
           OwnersClaim(manifest[r]), Consistent(manifest[r], live[r])
    PROVE  /\ OwnersClaim(plan.manifest)
           /\ Consistent(plan.manifest, PayloadAfter(manifest[r], plan.manifest, live[r], b))
<1> DEFINE m == manifest[r]
           x == plan.manifest
           after == PayloadAfter(m, x, live[r], b)
<1>1. m \in Manifest /\ Files(b) \subseteq Path /\ b.files \in [Path -> Digest \cup {Absent}]
      /\ Absent \notin Digest
  BY BundleType, ContentAssumption DEF TypeOK, Files, Content
<1>2. x = WithGroup(m, cs, b) \/ \E c \in Claim : x = WithClaim(m, c, b)
  BY DEF Plans
<1>3. CASE x = WithGroup(m, cs, b)
  <2>1. /\ x.claims = cs /\ x.sha = b.files
        /\ \A f \in Path : x.owner[f] = IF f \in Files(b) THEN cs ELSE {}
    BY <1>3 DEF WithGroup
  <2> HIDE DEF x
  <2>2. OwnersClaim(x)
    BY <2>1 DEF OwnersClaim
  <2>3. ASSUME NEW f \in Path
        PROVE  IF f \in Owned(x) THEN after[f] = x.sha[f] ELSE after[f] \notin Digest
    BY <1>1, <2>1 DEF Owned, PayloadAfter, Consistent
  <2> QED
    BY <2>2, <2>3 DEF Consistent, x
<1>4. ASSUME NEW c \in Claim, x = WithClaim(m, c, b)
      PROVE  OwnersClaim(x) /\ Consistent(x, after)
  <2>1. /\ x.claims = m.claims \cup {c}
        /\ \A f \in Path : /\ x.owner[f] = IF f \in Files(b) THEN m.owner[f] \cup {c} ELSE m.owner[f] \ {c}
                           /\ x.sha[f] = IF f \in Files(b) THEN b.files[f]
                                         ELSE IF x.owner[f] # {} THEN m.sha[f] ELSE Absent
    BY <1>4 DEF WithClaim
  <2> HIDE DEF x
  <2>2. OwnersClaim(x)
    BY <2>1 DEF OwnersClaim
  <2>3. ASSUME NEW f \in Path
        PROVE  IF f \in Owned(x) THEN after[f] = x.sha[f] ELSE after[f] \notin Digest
    <3>1. CASE f \in Files(b)
      BY <1>1, <2>1, <3>1 DEF Owned, PayloadAfter
    <3>2. CASE f \notin Files(b)
      BY <1>1, <2>1, <3>2 DEF Owned, PayloadAfter, Consistent
    <3> QED
      BY <3>1, <3>2
  <2> QED
    BY <2>2, <2>3 DEF Consistent
<1> QED
  BY <1>2, <1>3, <1>4

LEMMA UninstallConsistent ==
    ASSUME TypeOK, NEW r \in Root, NEW c \in Claim, Uninstall(r, c),
           OwnersClaim(manifest[r]), Consistent(manifest[r], live[r])
    PROVE  OwnersClaim(manifest'[r]) /\ Consistent(manifest'[r], live'[r])
<1> DEFINE m == manifest[r]
<1>1. /\ manifest'[r] = WithoutClaim(m, c)
      /\ live'[r] = [f \in Path |-> IF f \in SoleOwned(m, c) /\ live[r][f] = m.sha[f]
                                    THEN Absent ELSE live[r][f]]
  BY DEF Uninstall, TypeOK
<1>2. m \in Manifest /\ Absent \notin Digest
  BY ContentAssumption DEF TypeOK, Content
<1>3. CASE m.claims = {c}
  <2>1. manifest'[r] = NoManifest
    BY <1>1, <1>3 DEF WithoutClaim
  <2>2. \A f \in Path : m.owner[f] = {} \/ m.owner[f] = {c}
    BY <1>3 DEF OwnersClaim
  <2>3. ASSUME NEW f \in Path PROVE live'[r][f] \notin Digest
    BY <1>1, <1>2, <2>2 DEF Consistent, Owned, SoleOwned
  <2> QED
    BY <2>1, <2>3 DEF Consistent, Owned, OwnersClaim, NoManifest
<1>4. CASE m.claims # {c}
  <2> DEFINE x == manifest'[r]
  <2>1. /\ x.claims = m.claims \ {c}
        /\ \A f \in Path : /\ x.owner[f] = m.owner[f] \ {c}
                           /\ x.sha[f] = IF m.owner[f] \ {c} # {} THEN m.sha[f] ELSE Absent
    BY <1>1, <1>4 DEF WithoutClaim
  <2> HIDE DEF x
  <2>2. OwnersClaim(x)
    BY <2>1 DEF OwnersClaim
  <2>3. ASSUME NEW f \in Path
        PROVE  IF f \in Owned(x) THEN live'[r][f] = x.sha[f] ELSE live'[r][f] \notin Digest
    BY <1>1, <1>2, <2>1 DEF Consistent, Owned, SoleOwned
  <2> QED
    BY <2>2, <2>3 DEF Consistent, x
<1> QED
  BY <1>3, <1>4

LEMMA RecoverConsistent ==
    ASSUME TypeOK, NEW r \in Root, Recover(r), Undoable(r)
    PROVE  left'[r] = NoJournal /\ manifest' = manifest /\ Consistent(manifest[r], live'[r])
<1> DEFINE j == left[r]
           back(f) == IF f \in j.saved \/ (j.orig[f] = Absent /\ live[r][f] = j.new[f])
                      THEN j.orig[f] ELSE live[r][f]
<1>1. /\ j # NoJournal /\ manifest' = manifest
      /\ live' = [live EXCEPT ![r] = [f \in Path |-> IF f \in j.paths THEN back(f) ELSE live[r][f]]]
      /\ left' = [left EXCEPT ![r] = IF \A f \in j.paths : back(f) = j.orig[f]
                                     THEN NoJournal ELSE [j EXCEPT !.saved = {}]]
  BY DEF Recover
<1>2. j \in Journal
  BY DEF TypeOK
<1>3. \A f \in Path : IF f \in j.paths THEN back(f) = j.orig[f] ELSE live[r][f] = j.orig[f]
  BY <1>1 DEF Undoable
<1>4. left'[r] = NoJournal
  BY <1>1, <1>2, <1>3 DEF TypeOK, Journal
<1>5. \A f \in Path : live'[r][f] = j.orig[f]
  BY <1>1, <1>3 DEF TypeOK
<1>6. Consistent(manifest[r], j.orig)
  BY <1>1 DEF Undoable
<1> QED
  BY <1>1, <1>4, <1>5, <1>6 DEF Consistent

(* An install that breaks off leaves a journal that leads back.            *)
LEMMA InterruptedUndoable ==
    ASSUME TypeOK, NEW r \in Root, NEW b \in Bundle, Interrupted(r, b), manifest' = manifest,
           Consistent(manifest[r], live[r])
    PROVE  left'[r] # NoJournal /\ Undoable(r)'
<1> DEFINE different == {f \in Files(b) : live[r][f] # b.files[f]}
           existing  == {f \in Files(b) : live[r][f] # Absent}
<1>1. PICK listed \in SUBSET Files(b), changed \in SUBSET different :
         /\ different \subseteq listed
         /\ listed # {}
         /\ \E saved \in SUBSET (listed \cap existing) :
              /\ changed \cap existing \subseteq saved
              /\ left' = [left EXCEPT ![r] = [paths |-> listed, saved |-> saved,
                                              orig |-> live[r], new |-> b.files]]
         /\ live' = [live EXCEPT ![r] = [f \in Path |->
                        IF f \in changed THEN b.files[f] ELSE live[r][f]]]
  BY Zenon DEF Interrupted
<1>2. PICK saved \in SUBSET (listed \cap existing) :
              /\ changed \cap existing \subseteq saved
              /\ left' = [left EXCEPT ![r] = [paths |-> listed, saved |-> saved,
                                              orig |-> live[r], new |-> b.files]]
  BY <1>1
<1>3. /\ left'[r] = [paths |-> listed, saved |-> saved, orig |-> live[r], new |-> b.files]
      /\ \A f \in Path : live'[r][f] = IF f \in changed THEN b.files[f] ELSE live[r][f]
  BY <1>1, <1>2 DEF TypeOK
<1>4. left'[r].paths # {}
  BY <1>1, <1>3
<1>5. \A f \in Path : \/ live'[r][f] = live[r][f]
                      \/ f \in listed /\ (f \in saved \/ (live[r][f] = Absent /\ live'[r][f] = b.files[f]))
  BY <1>1, <1>2, <1>3
<1> QED
  BY <1>3, <1>4, <1>5 DEF Undoable, NoJournal

(* What a step leaves of a root it does not change.                        *)
LEMMA RootFrame ==
    ASSUME TypeOK, NEW q \in Proc, Step(q), NEW r \in Root, RootInv(r),
           live'[r] = live[r], left'[r] = left[r], manifest'[r] = manifest[r],
           (lock[r] = q /\ Restoring(q, r)) => (lock'[r] = q /\ Restoring(q, r)')
    PROVE  RootInv(r)'
<1>1. ASSUME BeingRestored(r) PROVE BeingRestored(r)'
  <2>1. PICK p \in Proc : lock[r] = p /\ Restoring(p, r)
    BY <1>1 DEF BeingRestored
  <2>2. CASE p = q
    BY <2>1, <2>2 DEF BeingRestored
  <2>3. CASE p # q
    <3>1. mem'[p] = mem[p] /\ pc'[p] = pc[p] /\ Held(p)' = Held(p)
      BY <2>3, OwnMemory
    <3>2. lock'[r] = p /\ Restoring(p, r)'
      BY <2>1, <3>1 DEF Held, Restoring, Top
    <3> QED
      BY <3>2 DEF BeingRestored
  <2> QED
    BY <2>2, <2>3
<1>2. Undoable(r)'
  BY DEF RootInv, Undoable
<1> QED
  BY <1>1, <1>2 DEF RootInv

LEMMA CommandFrame ==
    ASSUME TypeOK, LockInv, NEW p \in Proc, CommandInv(p), mem'[p] = mem[p], pc'[p] = pc[p],
           \A r \in Held(p) : left'[r] = left[r]
    PROVE  CommandInv(p)'
<1>1. Working(p)' = Working(p) /\ Targeted(p)' = Targeted(p)
  BY DEF Working, Targeted
<1>2. Working(p) => \A r \in Targeted(p) : left'[r] = left[r]
  BY TargetRoots
<1> QED
  BY <1>1, <1>2 DEF CommandInv

LEMMA OthersCommand ==
    ASSUME TypeOK, LockInv, NEW q \in Proc, Step(q), NEW p \in Proc \ {q}, CommandInv(p)
    PROVE  CommandInv(p)'
<1>1. \A r \in Held(p) : r \in Root /\ lock[r] # q
  BY DEF Held
<1>2. \A r \in Held(p) : left'[r] = left[r]
  BY <1>1, OneRoot DEF roots
<1> QED
  BY <1>2, OwnMemory, CommandFrame

(* The steps that change no root and end no restoration.                   *)
LEMMA CalmControl ==
    ASSUME TypeOK, LockInv, CalmInv, Calm, NEW q \in Proc, Step(q), UNCHANGED roots,
           pc[q] # "restore"
    PROVE  \A r \in Root : RootInv(r)'
BY RootFrame DEF CalmInv, Restoring, roots

(* The parts of CommandInv that depend on the memory alone.                *)
LEMMA CommandMemory ==
    ASSUME NEW p \in Proc, CommandInv(p), ~mem'[p].failed,
           mem'[p].targets = mem[p].targets, mem'[p].todo = mem[p].todo,
           mem'[p].cps = mem[p].cps,
           Working(p)' => \A r \in Targeted(p) :
               left'[r] = NoJournal \/ NoneOf(mem[p].cps, Len(mem[p].cps), r)
    PROVE  CommandInv(p)'
BY DEF CommandInv, Targeted

LEMMA NoMemCommand ==
    ASSUME NEW p \in Proc, mem'[p] = NoMem, pc'[p] = "idle"
    PROVE  CommandInv(p)'
BY DEF CommandInv, NoMem, Working

LEMMA CalmLocking ==
    ASSUME TypeOK, LockInv, CalmInv, Calm, NEW p \in Proc,
           \/ \E q \in Request : Ask(p, q)
           \/ \E r \in Root : LockRoot(p, r)
           \/ LockTimeout(p) \/ LocksHeld(p)
    PROVE  (\A r \in Root : RootInv(r)') /\ CommandInv(p)'
<1>1. Step(p) /\ UNCHANGED roots /\ pc[p] # "restore"
  BY DEF Step, Ask, LockRoot, LockTimeout, LocksHeld
<1>2. \A r \in Root : RootInv(r)'
  BY <1>1, CalmControl
<1>3. CommandInv(p) /\ WorkInv(p)
  BY DEF CalmInv
<1>4. ASSUME NEW q \in Request, Ask(p, q) PROVE CommandInv(p)'
  <2> DEFINE m == [NoMem EXCEPT !.bundle = q.bundle, !.targets = q.targets, !.todo = q.targets]
  <2>1. m.cps = <<>> /\ ~m.failed /\ m.targets = q.targets
    BY DEF NoMem
  <2>2. mem' = [mem EXCEPT ![p] = m] /\ Goto(p, "locking")
    BY <1>4 DEF Ask
  <2> HIDE DEF m
  <2>3. mem'[p] = m /\ pc'[p] = "locking"
    BY <2>2 DEF Goto, TypeOK
  <2>4. MaxFaults \in {0, 1} \/ \A t, u \in q.targets : t[2] = u[2] => t = u
    BY DEF Calm
  <2> QED
    BY <2>1, <2>3, <2>4 DEF CommandInv, Working
<1>5. ASSUME NEW r \in Root, LockRoot(p, r) PROVE CommandInv(p)'
  BY <1>3, <1>5, CommandFrame DEF LockRoot, roots
<1>6. ASSUME LockTimeout(p) \/ LocksHeld(p) PROVE CommandInv(p)'
  <2>1. /\ ~mem'[p].failed /\ mem'[p].cps = mem[p].cps
        /\ mem'[p].targets = mem[p].targets /\ mem'[p].todo = mem[p].todo
    <3>1. \/ mem' = [mem EXCEPT ![p].outcome = "error"]
          \/ mem' = [mem EXCEPT ![p].start = [live |-> live, manifest |-> manifest]]
      BY <1>6 DEF LockTimeout, LocksHeld
    <3>2. ~mem[p].failed /\ mem[p] \in Mem
      BY <1>3, MemTypes DEF CommandInv
    <3>3. CASE mem' = [mem EXCEPT ![p].outcome = "error"]
      BY <3>2, <3>3 DEF TypeOK, Mem
    <3>4. CASE mem' = [mem EXCEPT ![p].start = [live |-> live, manifest |-> manifest]]
      <4> DEFINE x == [live |-> live, manifest |-> manifest]
      <4>1. mem' = [mem EXCEPT ![p].start = x]
        BY <3>4
      <4> HIDE DEF x
      <4> QED
        BY <3>2, <4>1 DEF TypeOK, Mem
    <3> QED
      BY <3>1, <3>3, <3>4
  <2>2. pc[p] = "locking" /\ mem[p].cps = <<>>
    BY <1>3, <1>6 DEF LockTimeout, LocksHeld, WorkInv
  <2>3. \A r : NoneOf(mem[p].cps, Len(mem[p].cps), r)
    BY <2>2 DEF NoneOf
  <2> QED
    BY <1>3, <2>1, <2>3, CommandMemory
<1> QED
  BY <1>2, <1>4, <1>5, <1>6, SMTT(30)

LEMMA CalmEnd ==
    ASSUME TypeOK, LockInv, CalmInv, Calm, NEW p \in Proc,
           AllInstalled(p) \/ UndoDone(p) \/ Unlock(p) \/ Return(p) \/ InstallFails(p)
    PROVE  (\A r \in Root : RootInv(r)') /\ CommandInv(p)'
<1>1. Step(p) /\ UNCHANGED roots /\ pc[p] # "restore"
  BY DEF Step, AllInstalled, UndoDone, Unlock, Return, InstallFails
<1>2. \A r \in Root : RootInv(r)'
  BY <1>1, CalmControl
<1>3. CommandInv(p) /\ left' = left
  BY <1>1 DEF CalmInv, roots
<1>4. ASSUME AllInstalled(p) \/ UndoDone(p) \/ Unlock(p) PROVE CommandInv(p)'
  <2>1. /\ ~mem'[p].failed /\ mem'[p].cps = mem[p].cps
        /\ mem'[p].targets = mem[p].targets /\ mem'[p].todo = mem[p].todo
    <3>1. mem[p] \in Mem /\ mem \in [Proc -> Mem] /\ ~mem[p].failed
      BY <1>3, MemTypes DEF TypeOK, CommandInv
    <3>2. CASE UNCHANGED mem
      BY <3>1, <3>2
    <3>3. CASE UndoDone(p)
      <4>1. PICK o : mem' = [mem EXCEPT ![p] = [mem[p] EXCEPT !.outcome = o]]
        BY <3>3, Zenon DEF UndoDone
      <4> QED
        BY <3>1, <4>1 DEF Mem
    <3> QED
      BY <1>4, <3>2, <3>3 DEF AllInstalled, Unlock
  <2>2. pc'[p] = "release"
    BY <1>4 DEF AllInstalled, UndoDone, Unlock, Goto, TypeOK
  <2> QED
    BY <1>3, <2>1, <2>2, CommandMemory DEF Working
<1>5. ASSUME Return(p) PROVE CommandInv(p)'
  <2>1. mem'[p] = NoMem /\ pc'[p] = "idle"
    BY <1>5 DEF Return, Goto, TypeOK
  <2> QED
    BY <2>1, NoMemCommand
<1>6. ASSUME InstallFails(p) PROVE CommandInv(p)'
  <2>1. /\ ~mem'[p].failed /\ mem'[p].cps = mem[p].cps
        /\ mem'[p].targets = mem[p].targets /\ mem'[p].todo = mem[p].todo
    BY <1>3, <1>6, MemTypes DEF InstallFails, StartUndo, TypeOK, Mem, CommandInv
  <2>2. Working(p)
    BY <1>6 DEF InstallFails, Working
  <2> QED
    BY <1>3, <2>1, <2>2, CommandMemory DEF CommandInv
<1> QED
  BY <1>2, <1>4, <1>5, <1>6

(* The root a command installs into is whole when it starts.               *)
LEMMA CalmNext ==
    ASSUME TypeOK, LockInv, CalmInv, Calm, NEW p \in Proc, pc[p] = "install", mem[p].todo # {}
    PROVE  LET r == NextRoot(p)
           IN  /\ r \in Root /\ lock[r] = p /\ left[r] = NoJournal
               /\ OwnersClaim(manifest[r]) /\ Consistent(manifest[r], live[r])
<1> DEFINE r == NextRoot(p)
<1>1. r \in Root /\ r \in Targeted(p) /\ lock[r] = p
  BY NextRootType, WorkIsLocked DEF Targeted
<1>2. left[r] = NoJournal
  BY <1>1 DEF CalmInv, WorkInv
<1>3. ~BeingRestored(r)
  BY <1>1 DEF BeingRestored, Restoring
<1> QED
  BY <1>1, <1>2, <1>3 DEF CalmInv, RootInv

LEMMA CalmInstall ==
    ASSUME TypeOK, LockInv, CalmInv, Calm, NEW p \in Proc, InstallRoot(p)
    PROVE  (\A r \in Root : RootInv(r)') /\ CommandInv(p)'
<1> DEFINE r == NextRoot(p)
           b == mem[p].bundle
           cs == Wanting(mem[p].todo, r)
<1>1. PICK plan : LET cp == Checkpoint(r, b, plan.manifest)
                  IN  /\ plan \in Plans(r, cs, b)
                      /\ plan.manifest \in Manifest
                      /\ pc[p] = "install" /\ left[r] = NoJournal
                      /\ r \in Targeted(p) /\ r \in Root /\ b \in Bundle
                      /\ cs \in SUBSET Claim /\ cs # {}
                      /\ live' = [live EXCEPT ![r] =
                                     PayloadAfter(manifest[r], plan.manifest, live[r], b)]
                      /\ manifest' = [manifest EXCEPT ![r] = plan.manifest]
                      /\ mem'[p].cps = Append(mem[p].cps, cp)
                      /\ mem'[p].todo = {t \in mem[p].todo : ~(t[2] = r /\ t[1] \in plan.claims)}
                      /\ mem'[p].start = mem[p].start /\ mem'[p].bundle = b
                      /\ mem'[p].targets = mem[p].targets
                      /\ mem'[p].failed = mem[p].failed /\ mem'[p].outcome = mem[p].outcome
                      /\ UNCHANGED <<left, lock, pc, edited, spent>>
  BY InstallFacts, Zenon
<1> DEFINE cp == Checkpoint(r, b, plan.manifest)
           n == Len(mem[p].cps)
<1>2. mem[p].todo # {} /\ Step(p)
  BY DEF InstallRoot, Step
<1>3. OwnersClaim(manifest[r]) /\ Consistent(manifest[r], live[r])
  BY <1>1, <1>2, CalmNext
<1> HIDE DEF r, b
<1>4. /\ OwnersClaim(plan.manifest)
      /\ Consistent(plan.manifest, PayloadAfter(manifest[r], plan.manifest, live[r], b))
  <2>1. /\ r \in Root /\ cs \in SUBSET Claim /\ cs # {} /\ b \in Bundle
        /\ plan \in Plans(r, cs, b)
    BY <1>1
  <2> HIDE DEF cs
  <2> QED
    BY <1>3, <2>1, PlanConsistent
<1>5. /\ manifest'[r] = plan.manifest /\ left'[r] = NoJournal
      /\ live'[r] = PayloadAfter(manifest[r], plan.manifest, live[r], b)
      /\ \A s \in Root \ {r} : manifest'[s] = manifest[s] /\ live'[s] = live[s] /\ left'[s] = left[s]
  BY <1>1 DEF TypeOK
<1>6. ASSUME NEW s \in Root, s = r PROVE RootInv(s)'
  BY <1>4, <1>5, <1>6 DEF RootInv, Undoable
<1>7. ASSUME NEW s \in Root, s # r PROVE RootInv(s)'
  BY <1>1, <1>2, <1>5, <1>7, RootFrame DEF CalmInv, Restoring
<1>8. cp.root = r /\ cp.manifest = manifest[r] /\ cp.live = live[r]
  BY DEF Checkpoint
<1> HIDE DEF cp
<1>9. /\ Len(mem'[p].cps) = n + 1 /\ mem'[p].cps[n + 1] = cp
      /\ \A i \in 1 .. n : mem'[p].cps[i] = mem[p].cps[i]
      /\ n \in Nat
  <2>1. mem[p].cps \in Seq(CheckpointType) /\ mem'[p].cps = Append(mem[p].cps, cp)
    BY <1>1, MemTypes DEF cp
  <2> QED
    BY <2>1, AppendProperties
<1>10. \E t \in mem[p].targets \ mem'[p].todo : t[2] = r
  <2>1. PICK c \in plan.claims : c \in cs
    <3>1. r \in Root /\ cs \in SUBSET Claim /\ cs # {} /\ b \in Bundle /\ plan \in Plans(r, cs, b)
      BY <1>1
    <3> HIDE DEF cs
    <3>2. plan.claims \subseteq cs /\ plan.claims # {}
      BY <3>1, PlanServes
    <3> QED
      BY <3>2
  <2>2. PICK t \in mem[p].todo : t[2] = r /\ t[1] = c
    BY <2>1 DEF Wanting
  <2>3. t \in mem[p].targets /\ t \notin mem'[p].todo
    BY <1>1, <2>1, <2>2, MemTypes
  <2> QED
    BY <2>2, <2>3
<1>11. mem'[p].todo \subseteq mem[p].todo
  BY <1>1
<1>12. CommandInv(p)'
  <2>1. CommandInv(p)
    BY DEF CalmInv
  <2>2. ASSUME NEW i \in 1 .. Len(mem'[p].cps)
        PROVE  /\ OwnersClaim(mem'[p].cps[i].manifest)
               /\ Consistent(mem'[p].cps[i].manifest, mem'[p].cps[i].live)
               /\ \E t \in mem[p].targets \ mem'[p].todo : t[2] = mem'[p].cps[i].root
    <3>1. CASE i \in 1 .. n
      BY <1>9, <1>11, <2>1, <3>1 DEF CommandInv
    <3>2. CASE i = n + 1
      BY <1>3, <1>8, <1>9, <1>10, <3>2
    <3> QED
      BY <1>9, <3>1, <3>2, SMTT(30)
  <2>3. \A s \in Targeted(p) : left'[s] = NoJournal
    BY <1>1 DEF CalmInv, WorkInv
  <2>4. Targeted(p)' = Targeted(p) /\ mem'[p].targets = mem[p].targets
    BY <1>1 DEF Targeted
  <2>5. ~mem'[p].failed
    BY <1>1, <2>1 DEF CommandInv
  <2> QED
    BY <2>1, <2>2, <2>3, <2>4, <2>5 DEF CommandInv
<1> QED
  BY <1>6, <1>7, <1>12

(* The root where an install breaks off or the process dies.               *)
LEMMA CalmInterrupted ==
    ASSUME TypeOK, LockInv, CalmInv, Calm, NEW p \in Proc, Step(p), pc[p] = "install",
           mem[p].todo # {}, Interrupted(NextRoot(p), mem[p].bundle), manifest' = manifest
    PROVE  \A r \in Root : RootInv(r)'
<1> DEFINE r == NextRoot(p)
<1>1. /\ r \in Root /\ lock[r] = p /\ left[r] = NoJournal
      /\ OwnersClaim(manifest[r]) /\ Consistent(manifest[r], live[r])
  BY CalmNext
<1>2. ASSUME NEW s \in Root, s = r PROVE RootInv(s)'
  <2>1. Interrupted(s, mem[p].bundle) /\ Consistent(manifest[s], live[s]) /\ mem[p].bundle \in Bundle
    BY <1>1, <1>2, MemTypes
  <2>2. left'[s] # NoJournal /\ Undoable(s)'
    BY <2>1, InterruptedUndoable
  <2> QED
    BY <1>1, <1>2, <2>2 DEF RootInv
<1>3. ASSUME NEW s \in Root, s # r PROVE RootInv(s)'
  <2>1. live'[s] = live[s] /\ left'[s] = left[s] /\ manifest'[s] = manifest[s]
    BY <1>3 DEF Interrupted, TypeOK
  <2> QED
    BY <2>1, RootFrame DEF CalmInv, Restoring
<1> QED
  BY <1>2, <1>3

LEMMA CalmBreaks ==
    ASSUME TypeOK, LockInv, CalmInv, Calm, NEW p \in Proc, InstallBreaks(p) \/ Crash(p)
    PROVE  (\A r \in Root : RootInv(r)') /\ CommandInv(p)'
<1>1. CASE Crash(p)
  <2>1. mem'[p] = NoMem /\ pc'[p] = "idle" /\ manifest' = manifest /\ Step(p)
    <3>1. pc[p] \notin {"undo", "restore"}
      BY <1>1 DEF Crash, Calm
    <3>2. manifest' = manifest
      BY <1>1, <3>1 DEF Crash, ManifestAllowed, roots
    <3> QED
      BY <1>1, <3>2 DEF Crash, Goto, TypeOK, Step
  <2>2. pc[p] # "restore"
    BY <1>1 DEF Crash, Calm
  <2>3. ASSUME UNCHANGED <<live, left>> PROVE \A r \in Root : RootInv(r)'
    BY <2>1, <2>2, <2>3, CalmControl DEF roots
  <2>4. \A r \in Root : RootInv(r)'
    <3>1. CASE pc[p] = "install" /\ mem[p].todo # {} /\ Interrupted(NextRoot(p), mem[p].bundle)
      BY <2>1, <3>1, CalmInterrupted
    <3>2. UNCHANGED <<live, left>> \/ (/\ pc[p] = "install" /\ mem[p].todo # {}
                                      /\ Interrupted(NextRoot(p), mem[p].bundle))
      BY <1>1 DEF Crash, roots
    <3> QED
      BY <2>3, <3>1, <3>2
  <2> QED
    BY <2>1, <2>4, NoMemCommand
<1>2. CASE InstallBreaks(p)
  <2>1. /\ pc[p] = "install" /\ mem[p].todo # {} /\ Fault(p, 2) /\ manifest' = manifest /\ Step(p)
        /\ Interrupted(NextRoot(p), mem[p].bundle)
        /\ mem' = [mem EXCEPT ![p].outcome = "error"]
    BY <1>2 DEF InstallBreaks, StartUndo, Step
  <2>2. \A r \in Root : RootInv(r)'
    BY <2>1, CalmInterrupted
  <2>3. CommandInv(p)
    BY DEF CalmInv
  <2>4. /\ ~mem'[p].failed /\ mem'[p].cps = mem[p].cps
        /\ mem'[p].targets = mem[p].targets /\ mem'[p].todo = mem[p].todo
    BY <2>1, <2>3, MemTypes DEF TypeOK, Mem, CommandInv
  <2>5. NextRoot(p) \in Root
    BY <2>1, NextRootType
  <2>6. \A r \in Root \ {NextRoot(p)} : left'[r] = left[r]
    BY <2>1, InterruptedElsewhere DEF Interrupted, TypeOK
  <2>7. \A t, u \in mem[p].targets : t[2] = u[2] => t = u
    <3>1. MaxFaults \notin {0, 1}
      BY <2>1 DEF Fault, TypeOK, Spent
    <3> QED
      BY <2>3, <3>1 DEF CommandInv
  <2>8. NoneOf(mem[p].cps, Len(mem[p].cps), NextRoot(p))
    <3>1. PICK u \in mem[p].todo : u[2] = NextRoot(p)
      <4>0. mem[p].todo \in SUBSET (Claim \X Root)
        BY MemTypes
      <4>1. RootsOf(mem[p].todo) \in SUBSET Nat /\ RootsOf(mem[p].todo) # {}
        BY <2>1, <4>0, RequestAssumption DEF RootsOf, Root
      <4>2. NextRoot(p) \in RootsOf(mem[p].todo)
        BY <4>1, LeastOf DEF NextRoot
      <4> QED
        BY <4>2 DEF RootsOf
    <3>2. u \in mem[p].targets
      BY MemTypes
    <3> QED
      BY <2>3, <2>7, <3>1, <3>2 DEF CommandInv, NoneOf
  <2>9. \A r \in Targeted(p) : left'[r] = NoJournal \/ NoneOf(mem[p].cps, Len(mem[p].cps), r)
    BY <2>1, <2>3, <2>6, <2>8, TargetRoots DEF CommandInv, Working
  <2>10. CommandInv(p)'
    BY <2>3, <2>4, <2>9, CommandMemory
  <2> QED
    BY <2>2, <2>10
<1> QED
  BY <1>1, <1>2

(* With nobody editing, what a checkpoint meets is always what it allows.  *)
LEMMA CalmTop ==
    ASSUME TypeOK, LockInv, CalmInv, Calm, NEW p \in Proc, pc[p] \in {"undo", "restore"},
           mem[p].cps # <<>>
    PROVE  LET r == Top(p).root
           IN  /\ r \in Root /\ r \in Targeted(p) /\ lock[r] = p /\ left[r] = NoJournal
               /\ OwnersClaim(Top(p).manifest) /\ Consistent(Top(p).manifest, Top(p).live)
               /\ pc[p] = "undo" => manifest[r] = Top(p).new
               /\ pc[p] = "restore" => /\ manifest[r] = Top(p).manifest
                                       /\ Within({}, Top(p), mem[p].files, live[r])
                                       /\ Away({}, Top(p), mem[p].gone, live[r])
<1> DEFINE n == Len(mem[p].cps)
           r == Top(p).root
<1>1. Top(p) = mem[p].cps[n] /\ n \in Nat \ {0} /\ n \in 1 .. n
  BY TopType
<1>2. Working(p) /\ ~mem[p].failed /\ CommandInv(p)
  BY DEF Working, CalmInv, CommandInv
<1>3. Targeted(p) \in SUBSET Root /\ Targeted(p) \subseteq Held(p)
      /\ \A i \in 1 .. n : mem[p].cps[i].root \in Targeted(p)
  BY <1>2, TargetRoots
<1>4. r \in Targeted(p) /\ r \in Root /\ lock[r] = p
  BY <1>1, <1>3 DEF Held
<1>5. ~NoneOf(mem[p].cps, n, r)
  BY <1>1 DEF NoneOf
<1>6. left[r] = NoJournal
  BY <1>2, <1>4, <1>5 DEF CommandInv
<1>7. PresentAt(p, r)
  BY <1>2, <1>4 DEF CalmInv, WorkInv
<1>8. OwnersClaim(Top(p).manifest) /\ Consistent(Top(p).manifest, Top(p).live)
  BY <1>1, <1>2 DEF CommandInv
<1>9. ASSUME pc[p] = "undo" PROVE manifest[r] = Top(p).new
  <2>1. AfterManifest(mem[p], n, mem[p].cps[n].root, manifest[r])
    BY <1>1, <1>7, <1>9 DEF PresentAt, Restoring
  <2>2. \A x : AfterManifest(mem[p], n, mem[p].cps[n].root, x) <=> x = mem[p].cps[n].new
    BY <1>1, AfterTop
  <2> QED
    BY <1>1, <2>1, <2>2
<1>10. ASSUME pc[p] = "restore"
       PROVE  /\ manifest[r] = Top(p).manifest
              /\ Within({}, Top(p), mem[p].files, live[r])
              /\ Away({}, Top(p), mem[p].gone, live[r])
  BY <1>6, <1>7, <1>10 DEF PresentAt, Restoring, CalmInv
<1> QED
  BY <1>4, <1>6, <1>8, <1>9, <1>10

LEMMA CalmNeverFails ==
    ASSUME TypeOK, LockInv, CalmInv, Calm, NEW p \in Proc, CheckpointFails(p) \/ ManifestLost(p)
    PROVE  FALSE
<1>1. CheckpointFails(p) /\ pc[p] \in {"undo", "restore"} /\ mem[p].cps # <<>> /\ ~Fault(p, 1)
  BY DEF CheckpointFails, ManifestLost, ManifestAllowed, Calm, Fault
<1>2. Obstructed(p)
  BY <1>1 DEF CheckpointFails
<1>3. mem[p].files \subseteq Path
  BY MemTypes
<1> QED
  BY <1>1, <1>2, <1>3, CalmTop DEF Obstructed, ManifestAllowed, Within, Away

LEMMA CalmRestore ==
    ASSUME TypeOK, LockInv, CalmInv, Calm, NEW p \in Proc,
           RestoreManifest(p) \/ \E f \in Path : RestoreFile(p, f) \/ WriteBack(p, f)
    PROVE  (\A r \in Root : RootInv(r)') /\ CommandInv(p)'
<1>1. /\ pc[p] \in {"undo", "restore"} /\ mem[p].cps # <<>> /\ pc'[p] = "restore"
      /\ UNCHANGED <<left, lock>> /\ Step(p)
  BY FileStep DEF RestoreManifest, ManifestAllowed, Goto, TypeOK, Step
<1>2. /\ mem'[p].cps = mem[p].cps /\ mem'[p].todo = mem[p].todo
      /\ mem'[p].targets = mem[p].targets /\ ~mem'[p].failed
  <2>1. ~mem[p].failed /\ mem[p] \in Mem
    BY MemTypes DEF CalmInv, CommandInv
  <2>2. PICK fs, gs \in SUBSET Path : mem' = [mem EXCEPT ![p] = FilesSet(p, fs, gs)]
    <3>1. CASE RestoreManifest(p)
      <4>1. Top(p).files \in SUBSET Path
        BY <1>1, TopType DEF CheckpointType
      <4>2. mem' = [mem EXCEPT ![p] = FilesSet(p, Top(p).files, {})]
        BY <2>1, <3>1 DEF RestoreManifest, FilesSet, TypeOK, Mem
      <4> QED
        BY <4>1, <4>2
    <3>2. ASSUME NEW f \in Path, RestoreFile(p, f) \/ WriteBack(p, f)
          PROVE  \E fs, gs \in SUBSET Path : mem' = [mem EXCEPT ![p] = FilesSet(p, fs, gs)]
      BY <3>2, FileStep
    <3> QED
      BY <3>1, <3>2
  <2>3. mem'[p] = FilesSet(p, fs, gs)
    BY <2>2 DEF TypeOK
  <2> QED
    BY <2>1, <2>3, FileMemory
<1>3. Top(p)' = Top(p)
  BY <1>2 DEF Top
<1>4. /\ Top(p).root \in Root /\ lock[Top(p).root] = p /\ left[Top(p).root] = NoJournal
      /\ OwnersClaim(Top(p).manifest)
  BY <1>1, CalmTop
<1>5. \A s \in Root \ {Top(p).root} : live'[s] = live[s] /\ manifest'[s] = manifest[s]
  BY <1>4, FileStep DEF RestoreManifest, TypeOK
<1>6. manifest'[Top(p).root] = Top(p).manifest
  <2>1. CASE RestoreManifest(p)
    BY <1>4, <2>1 DEF RestoreManifest, TypeOK
  <2>2. ASSUME NEW f \in Path, RestoreFile(p, f) \/ WriteBack(p, f)
        PROVE  manifest'[Top(p).root] = Top(p).manifest
    BY <1>1, <2>2, CalmTop, FileStep
  <2> QED
    BY <2>1, <2>2
<1>7. ASSUME NEW s \in Root, s = Top(p).root PROVE RootInv(s)'
  <2>1. left'[s] = NoJournal /\ OwnersClaim(manifest'[s])
    BY <1>1, <1>4, <1>6, <1>7
  <2>2. lock'[s] = p /\ Restoring(p, s)'
    BY <1>1, <1>3, <1>4, <1>7 DEF Restoring
  <2>3. BeingRestored(s)'
    BY <2>2 DEF BeingRestored
  <2> QED
    BY <2>1, <2>3 DEF RootInv, Undoable
<1>8. ASSUME NEW s \in Root, s # Top(p).root PROVE RootInv(s)'
  <2>1. ~Restoring(p, s)
    BY <1>8 DEF Restoring
  <2> QED
    BY <1>1, <1>5, <1>8, <2>1, RootFrame DEF CalmInv
<1>9. CommandInv(p)'
  <2>1. CommandInv(p) /\ Working(p)
    BY <1>1 DEF CalmInv, Working
  <2> QED
    BY <1>1, <1>2, <2>1, CommandMemory DEF CommandInv
<1> QED
  BY <1>7, <1>8, <1>9

LEMMA CalmRestored ==
    ASSUME TypeOK, LockInv, CalmInv, Calm, NEW p \in Proc, CheckpointRestored(p)
    PROVE  (\A r \in Root : RootInv(r)') /\ CommandInv(p)'
<1> DEFINE n == Len(mem[p].cps)
<1>1. /\ pc[p] = "restore" /\ pc'[p] = "undo" /\ mem[p].cps # <<>> /\ mem[p].files = {}
      /\ UNCHANGED <<live, manifest, left, lock, edited>> /\ Step(p)
      /\ mem'[p] = Popped(p)
  BY DEF CheckpointRestored, Goto, TypeOK, roots, Step
<1>2. /\ mem'[p].cps = SubSeq(mem[p].cps, 1, n - 1)
      /\ mem'[p].todo = mem[p].todo /\ mem'[p].targets = mem[p].targets
  BY <1>1, TopType
<1>3. ~mem'[p].failed
  BY <1>1, MemTypes DEF Popped, Mem, CalmInv, CommandInv
<1>4. n \in Nat \ {0} /\ Len(mem'[p].cps) = n - 1 /\ \A i \in 1 .. n - 1 : mem'[p].cps[i] = mem[p].cps[i]
  <2>1. mem[p].cps \in Seq(CheckpointType)
    BY MemTypes
  <2> QED
    BY <1>1, <1>2, <2>1, TopType
<1>5. ASSUME NEW s \in Root, s = Top(p).root PROVE RootInv(s)'
  <2>1. /\ manifest[s] = Top(p).manifest /\ left[s] = NoJournal
        /\ OwnersClaim(Top(p).manifest) /\ Consistent(Top(p).manifest, Top(p).live)
        /\ Within({}, Top(p), {}, live[s])
    BY <1>1, <1>5, CalmTop
  <2>2. \A f \in Path : live[s][f] = Top(p).live[f]
    BY <2>1 DEF Within
  <2>3. Consistent(manifest[s], live[s])
    <3>1. PICK m : m = Top(p).manifest /\ Consistent(m, Top(p).live)
      BY <2>1
    <3>2. Consistent(m, live[s])
      BY <2>2, <3>1 DEF Consistent
    <3> QED
      BY <2>1, <3>1, <3>2
  <2>4. OwnersClaim(manifest[s]) /\ Undoable(s)
    BY <2>1 DEF Undoable
  <2>5. OwnersClaim(manifest[s])' /\ Undoable(s)' /\ Consistent(manifest[s], live[s])'
    BY <1>1, <2>3, <2>4 DEF Undoable, OwnersClaim, Consistent
  <2> QED
    BY <2>5 DEF RootInv
<1>6. ASSUME NEW s \in Root, s # Top(p).root PROVE RootInv(s)'
  <2>1. ~Restoring(p, s)
    BY <1>6 DEF Restoring
  <2> QED
    BY <1>1, <2>1, RootFrame DEF CalmInv
<1>7. CommandInv(p)'
  <2>1. CommandInv(p) /\ Working(p)
    BY <1>1 DEF CalmInv, Working
  <2>2. Targeted(p)' = Targeted(p)
    BY <1>2 DEF Targeted
  <2>3. \A r : NoneOf(mem[p].cps, n, r) => NoneOf(mem'[p].cps, n - 1, r)
    BY <1>4 DEF NoneOf
  <2>4. \A r \in Targeted(p) : left'[r] = NoJournal \/ NoneOf(mem'[p].cps, Len(mem'[p].cps), r)
    BY <1>1, <1>4, <2>1, <2>3 DEF CommandInv
  <2>5. ASSUME NEW i \in 1 .. Len(mem'[p].cps)
        PROVE  /\ OwnersClaim(mem'[p].cps[i].manifest)
               /\ Consistent(mem'[p].cps[i].manifest, mem'[p].cps[i].live)
               /\ \E t \in mem[p].targets \ mem[p].todo : t[2] = mem'[p].cps[i].root
    <3>1. i \in 1 .. n /\ mem'[p].cps[i] = mem[p].cps[i]
      BY <1>4
    <3> QED
      BY <2>1, <3>1 DEF CommandInv
  <2> QED
    BY <1>2, <1>3, <2>1, <2>2, <2>4, <2>5 DEF CommandInv
<1> QED
  BY <1>5, <1>6, <1>7

LEMMA CalmOthers ==
    ASSUME TypeOK, LockInv, CalmInv, Calm, Others
    PROVE  /\ edited' = {}
           /\ \A r \in Root : RootInv(r)'
           /\ \A p \in Proc : CommandInv(p)'
<1>1. \A r \in Root, f \in Path, d \in UserData \cup {Absent} : ~UserEdit(r, f, d)
  BY DEF UserEdit, Calm, TypeOK, Spent
<1>2. PICK s \in Root : Recover(s) \/ \E c \in Claim : Uninstall(s, c)
  BY <1>1 DEF Others
<1>3. /\ lock[s] = Nobody /\ UNCHANGED <<lock, pc, mem, edited>>
      /\ \A r \in Root \ {s} : live'[r] = live[r] /\ left'[r] = left[r] /\ manifest'[r] = manifest[r]
  BY <1>2 DEF Recover, Uninstall, TypeOK
<1>4. \A r \in Root : BeingRestored(r)' <=> BeingRestored(r)
  BY <1>3 DEF BeingRestored, Restoring, Top
<1>5. ~BeingRestored(s)
  BY <1>3, RequestAssumption DEF BeingRestored
<1>6. RootInv(s)
  BY DEF CalmInv
<1>7. RootInv(s)'
  <2>1. CASE Recover(s)
    BY <1>6, <2>1, RecoverConsistent DEF RootInv, Undoable
  <2>2. ASSUME NEW c \in Claim, Uninstall(s, c) PROVE RootInv(s)'
    <3>1. left[s] = NoJournal /\ left' = left
      BY <2>2 DEF Uninstall
    <3>2. OwnersClaim(manifest'[s]) /\ Consistent(manifest'[s], live'[s])
      BY <1>5, <1>6, <2>2, <3>1, UninstallConsistent DEF RootInv
    <3> QED
      BY <3>1, <3>2 DEF RootInv, Undoable
  <2> QED
    BY <1>2, <2>1, <2>2
<1>8. ASSUME NEW r \in Root, r # s PROVE RootInv(r)'
  BY <1>3, <1>4, <1>8 DEF CalmInv, RootInv, Undoable
<1>9. ASSUME NEW p \in Proc PROVE CommandInv(p)'
  <2>1. \A r \in Held(p) : left'[r] = left[r]
    BY <1>3, RequestAssumption DEF Held
  <2> QED
    BY <1>3, <2>1, CommandFrame DEF CalmInv
<1> QED
  BY <1>3, <1>7, <1>8, <1>9 DEF CalmInv

LEMMA CalmStep ==
    ASSUME TypeOK, LockInv, CalmInv, Calm, NEW q \in Proc, Step(q)
    PROVE  /\ edited' = {}
           /\ \A r \in Root : RootInv(r)'
           /\ \A p \in Proc : CommandInv(p)'
<1>1. (\A r \in Root : RootInv(r)') /\ CommandInv(q)'
  BY CalmLocking, CalmEnd, CalmInstall, CalmBreaks, CalmRestore, CalmRestored, CalmNeverFails DEF Step
<1>2. \A p \in Proc \ {q} : CommandInv(p)'
  BY OthersCommand, SMTT(30) DEF CalmInv
<1>3. edited' \subseteq edited
  BY DEF Step, Ask, LockRoot, LockTimeout, LocksHeld, InstallRoot, AllInstalled, InstallFails,
         InstallBreaks, RestoreManifest, ManifestLost, RestoreFile, WriteBack,
         CheckpointRestored, CheckpointFails, UndoDone, Unlock, Return, Crash
<1> QED
  BY <1>1, <1>2, <1>3 DEF CalmInv

LEMMA CalmAlways == ASSUME Calm PROVE Spec => [](TypeOK /\ LockInv /\ CalmInv)
<1> DEFINE Rest == /\ edited = {}
                   /\ \A r \in Root : RootInv(r)
                   /\ \A p \in Proc : CommandInv(p)
<1>1. Init => Rest
  <2> SUFFICES ASSUME Init PROVE Rest
    OBVIOUS
  <2>1. \A p \in Proc : pc[p] = "idle" /\ mem[p] = NoMem
    BY DEF Init
  <2>2. ASSUME NEW p \in Proc PROVE CommandInv(p)
    <3>1. mem[p] = NoMem /\ pc[p] = "idle"
      BY <2>1
    <3>2. NoMem.targets = {} /\ NoMem.cps = <<>> /\ ~NoMem.failed
      BY DEF NoMem
    <3>3. ~Working(p) /\ 1 .. Len(mem[p].cps) = {}
      BY <3>1, <3>2 DEF Working
    <3> QED
      BY <3>1, <3>2, <3>3 DEF CommandInv
  <2>3. ASSUME NEW r \in Root PROVE RootInv(r)
    <3>1. manifest[r] = NoManifest /\ left[r] = NoJournal /\ live[r] \in [Path -> UserData \cup {Absent}]
      BY DEF Init
    <3>2. \A f \in Path : live[r][f] \notin Digest
      BY <3>1, ContentAssumption DEF Content
    <3> QED
      BY <3>1, <3>2 DEF RootInv, Undoable, Consistent, OwnersClaim, Owned, NoManifest
  <2> QED
    BY <2>2, <2>3 DEF Init
<1>2. /\ TypeOK /\ LockInv /\ (\A p \in Proc : WorkInv(p))
      /\ Rest /\ [Next]_vars
      => Rest'
  <2> SUFFICES ASSUME TypeOK, LockInv, CalmInv, [Next]_vars PROVE Rest'
    BY DEF CalmInv
  <2>1. CASE UNCHANGED vars
    BY <2>1 DEF vars, CalmInv, RootInv, CommandInv, Undoable, BeingRestored, Restoring, Top,
                Working, Targeted
  <2> QED
    BY <2>1, CalmOthers, CalmStep DEF Next
<1>3. Rest /\ (\A p \in Proc : WorkInv(p)) => CalmInv
  BY DEF CalmInv
<1> HIDE DEF Rest
<1> QED
  BY <1>1, <1>2, <1>3, WorkAlways, PTL DEF Spec

(* The files of a root that nobody works on are those its manifest lists:  *)
(* through installs that fail half way through the roots, through deaths   *)
(* in the middle of an install and the recoveries after them, and through  *)
(* compensation, as long as nobody edits the roots.  With a second error,  *)
(* the journal of an install that was not rolled back may name bytes of an *)
(* install of the same root that compensation then took back; hence the    *)
(* last part of Calm.                                                      *)
THEOREM RootsKeepToManifest == ASSUME Calm PROVE Spec => []RootConsistent
<1>1. CalmInv => RootConsistent
  <2> SUFFICES ASSUME CalmInv, NEW r \in Root, lock[r] = Nobody, left[r] = NoJournal
               PROVE  Consistent(manifest[r], live[r])
    BY DEF RootConsistent, Consistent
  <2>1. ~BeingRestored(r)
    BY RequestAssumption DEF BeingRestored
  <2> QED
    BY <2>1 DEF CalmInv, RootInv
<1> QED
  BY <1>1, CalmAlways, PTL
=============================================================================
