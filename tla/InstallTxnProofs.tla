--------------------------- MODULE InstallTxnProofs --------------------------
(***************************************************************************)
(* The installer on one root, for any number of processes, files, claims,  *)
(* edits, faults and crashes: its types, mutual exclusion by the root's    *)
(* flock, and that uninstall never destroys bytes a user wrote.  Then what *)
(* a transaction's journal is worth: it is the one of the command that     *)
(* commits, no claim but the command's is touched, and on a root nobody    *)
(* edits a pending journal can always be undone, the manifest is true of   *)
(* the disk, the root moves in one step from one published generation to   *)
(* the next (AtomicRoot), and what a forced install writes over is copied  *)
(* and the copy stays.                                                     *)
(***************************************************************************)
EXTENDS InstallProps, TLAPS

-----------------------------------------------------------------------------
(* What the operators of Ownership return.                                 *)

LEMMA NoManifestType == NoManifest \in Manifest
BY DEF NoManifest, Manifest

LEMMA BundleType ==
    ASSUME NEW b \in Bundle
    PROVE  /\ b.release \in Release
           /\ b.files \in [Path -> Digest \cup {Absent}]
           /\ \A f \in Files(b) : b.files[f] \in Digest
BY BundleAssumption DEF Files

LEMMA WithClaimType ==
    ASSUME NEW m \in Manifest, NEW c \in Claim, NEW b \in Bundle
    PROVE  WithClaim(m, c, b) \in Manifest
BY BundleType DEF WithClaim, Manifest, Files

LEMMA WithoutClaimType ==
    ASSUME NEW m \in Manifest, NEW c \in Claim
    PROVE  WithoutClaim(m, c) \in Manifest
BY NoManifestType DEF WithoutClaim, Manifest

LEMMA ContentType ==
    ASSUME NEW b \in Bundle, NEW f \in Path
    PROVE  b.files[f] \in Leaf \ UserData
BY BundleType, ContentAssumption DEF Leaf, Content

-----------------------------------------------------------------------------
LEMMA NoJournalType == NoJournal \in Journal
BY DEF NoJournal, NewJournal, Journal, NoEntry, PathEntry, Leaf

LEMMA EmptyTreeType == EmptyTree \in [Path -> Leaf]
BY DEF EmptyTree, Leaf

LEMMA NoMemType == NoMem \in Mem
BY NoJournalType, NoManifestType DEF NoMem, Mem

LEMMA NoPlanType == NoPlan \in Plan
<1>1. (CHOOSE b \in Bundle : TRUE) \in Bundle
  BY BundleAssumption
<1> QED
  BY <1>1, NoManifestType DEF NoPlan, Plan

LEMMA InitTypeOK == Init => TypeOK
<1>1. NoPlan \in Plan
  BY NoPlanType
<1> QED
  BY <1>1, NoJournalType, NoManifestType, EmptyTreeType, NoMemType
     DEF Init, TypeOK, Leaf, Content, Phase

LEMMA NewJournalType ==
    ASSUME NEW st \in {"none", "staging"}, NEW op \in {"install", "uninstall"},
           NEW cs \in SUBSET Claim, NEW t \in Nat
    PROVE  NewJournal(st, op, cs, t) \in Journal
BY DEF NewJournal, Journal, NoEntry, PathEntry, Leaf


LEMMA PutType ==
    ASSUME NEW j \in Journal, NEW f \in Path, NEW e \in PathEntry
    PROVE  Put(j, f, e) \in Journal
<1>1. [j.paths EXCEPT ![f] = e] \in [Path -> PathEntry]
  BY DEF Journal
<1> QED
  BY <1>1 DEF Put, Journal

LEMMA AtType ==
    ASSUME NEW j \in Journal,
           NEW st \in {"committing", "orphaning", "publishing_manifest", "complete", "rollback"}
    PROVE  At(j, st) \in Journal
BY DEF At, Journal

LEMMA SetType ==
    ASSUME TypeOK, NEW p \in Proc, NEW m \in Mem, Set(p, m)
    PROVE  mem' \in [Proc -> Mem]
BY DEF TypeOK, Set

LEMMA TodoType ==
    ASSUME TypeOK, NEW p \in Proc, NEW fs \in SUBSET Path, NEW j \in Journal, Todo(p, fs, j)
    PROVE  mem' \in [Proc -> Mem]
<1>1. mem[p] \in Mem
  BY DEF TypeOK
<1>2. [mem[p] EXCEPT !.todo = fs, !.jm = j] \in Mem
  BY <1>1 DEF Mem
<1> QED
  BY <1>2, SetType DEF Todo

LEMMA DoneType ==
    ASSUME TypeOK, NEW p \in Proc, NEW f \in Path, NEW j \in Journal, Done(p, f, j)
    PROVE  mem' \in [Proc -> Mem]
<1>1. mem[p] \in Mem
  BY DEF TypeOK
<1>2. [mem[p] EXCEPT !.todo = @ \ {f}, !.jm = j] \in Mem
  BY <1>1 DEF Mem
<1> QED
  BY <1>2, SetType DEF Done

LEMMA LeaveType ==
    ASSUME TypeOK, NEW p \in Proc, Leave(p)
    PROVE  /\ pc' \in [Proc -> Phase]
           /\ lock' \in Proc \cup {Nobody}
           /\ plan' \in [Proc -> Plan]
           /\ mem' \in [Proc -> Mem]
<1>1. mem' \in [Proc -> Mem]
  BY SetType, NoMemType DEF Leave
<1> QED
  BY <1>1, NoPlanType DEF Leave, Goto, TypeOK, Phase

LEMMA MemType ==
    ASSUME TypeOK, NEW p \in Proc
    PROVE  /\ mem[p].jm \in Journal
           /\ mem[p].next \in Manifest
           /\ mem[p].copies \in SUBSET Path
           /\ mem[p].todo \in SUBSET Path
           /\ \A f \in Path : mem[p].jm.paths[f] \in PathEntry
BY DEF TypeOK, Mem, Journal

LEMMA StageFileType ==
    ASSUME TypeOK, NEW p \in Proc, NEW f \in Path, StageFile(p, f)
    PROVE  TypeOK'
<1>1. plan[p].bundle.files[f] \in Digest \cup {Absent}
  BY BundleType DEF TypeOK, Plan
<1>2. [NoEntry EXCEPT !.st = "staged", !.sha = plan[p].bundle.files[f]] \in PathEntry
  BY <1>1 DEF NoEntry, PathEntry, Leaf
<1>3. mem' \in [Proc -> Mem]
  BY <1>2, MemType, PutType, DoneType DEF StageFile
<1> QED
  BY <1>3 DEF TypeOK, StageFile, disk

LEMMA SnapshotFileType ==
    ASSUME TypeOK, NEW p \in Proc, NEW f \in Path, SnapshotFile(p, f)
    PROVE  TypeOK'
<1>1. live[f] \in Leaf
  BY DEF TypeOK
<1>2. [mem[p].jm.paths[f] EXCEPT !.existed = TRUE, !.saved = "rollback",
                                 !.orig = live[f]] \in PathEntry
  BY <1>1, MemType, ZenonT(40) DEF PathEntry
<1>3. mem' \in [Proc -> Mem]
  BY <1>2, MemType, PutType, DoneType DEF SnapshotFile
<1>4. stage' \in [Path -> Leaf]
  BY <1>1 DEF TypeOK, SnapshotFile
<1> QED
  BY <1>3, <1>4 DEF TypeOK, SnapshotFile

LEMMA StagingDoneType ==
    ASSUME TypeOK, NEW p \in Proc, StagingDone(p)
    PROVE  TypeOK'
<1>1. Files(plan[p].bundle) \in SUBSET Path
  BY DEF Files
<1>2. mem' \in [Proc -> Mem]
  BY <1>1, MemType, TodoType DEF StagingDone
<1> QED
  BY <1>2 DEF TypeOK, StagingDone, disk, Goto, Phase

LEMMA SnapshotsDoneType ==
    ASSUME TypeOK, NEW p \in Proc, SnapshotsDone(p)
    PROVE  TypeOK'
<1>1. mem' \in [Proc -> Mem]
  BY MemType, TodoType DEF SnapshotsDone
<1> QED
  BY <1>1 DEF TypeOK, SnapshotsDone, disk, Goto, Phase

LEMMA BackupFileType ==
    ASSUME TypeOK, NEW p \in Proc, NEW f \in Path, BackupFile(p, f)
    PROVE  TypeOK'
<1>1. [mem[p].jm.paths[f] EXCEPT !.saved = IF @ = "none" THEN "backup" ELSE @]
         \in PathEntry
  BY MemType DEF PathEntry
<1>2. mem' \in [Proc -> Mem]
  BY <1>1, MemType, PutType, DoneType DEF BackupFile
<1>3. backup' \in [Path -> Leaf]
  BY DEF TypeOK, BackupFile
<1> QED
  BY <1>2, <1>3 DEF TypeOK, BackupFile

LEMMA WriteIntentType ==
    ASSUME TypeOK, NEW p \in Proc, WriteIntent(p)
    PROVE  TypeOK'
<1>1. Files(plan[p].bundle) \in SUBSET Path
  BY DEF Files
<1>2. journal' \in Journal
  BY MemType, AtType DEF WriteIntent
<1>3. mem' \in [Proc -> Mem]
  BY <1>1, <1>2, TodoType DEF WriteIntent
<1> QED
  BY <1>2, <1>3 DEF TypeOK, WriteIntent, Goto, Phase

LEMMA CommitFileType ==
    ASSUME TypeOK, NEW p \in Proc, NEW f \in Path, CommitFile(p, f)
    PROVE  TypeOK'
<1>1. plan[p].bundle.files[f] \in Leaf
  BY BundleType DEF TypeOK, Plan, Leaf, Content
<1>2. [mem[p].jm.paths[f] EXCEPT
         !.st = IF Kind(p, f) = "retain" THEN "retained" ELSE "committed"] \in PathEntry
  BY MemType DEF PathEntry
<1>3. mem' \in [Proc -> Mem]
  BY <1>2, MemType, PutType, DoneType DEF CommitFile
<1>4. live' \in [Path -> Leaf]
  BY <1>1 DEF TypeOK, CommitFile
<1> QED
  BY <1>3, <1>4 DEF TypeOK, CommitFile

LEMMA WriteJournalType ==
    ASSUME TypeOK, NEW p \in Proc, WriteJournal(p)
    PROVE  TypeOK'
BY MemType DEF TypeOK, WriteJournal

LEMMA ListOrphansType ==
    ASSUME TypeOK, NEW p \in Proc, ListOrphans(p)
    PROVE  TypeOK'
<1>1. Orphans(p) \in SUBSET Path
  BY DEF Orphans, Owned
<1>2. At(mem[p].jm, "orphaning") \in Journal
  BY MemType, AtType
<1>3. [At(mem[p].jm, "orphaning") EXCEPT !.orphans =
         [f \in Path |-> IF f \in Orphans(p) THEN "pending" ELSE "none"]] \in Journal
  BY <1>2 DEF Journal
<1>4. mem' \in [Proc -> Mem]
  <2>1. CASE Orphans(p) = {}
    BY <2>1 DEF ListOrphans, TypeOK
  <2>2. CASE Orphans(p) # {}
    BY <2>2, <1>1, <1>3, TodoType DEF ListOrphans
  <2> QED
    BY <2>1, <2>2
<1> QED
  BY <1>4 DEF TypeOK, ListOrphans, disk, Goto, Phase

LEMMA RemoveOrphanType ==
    ASSUME TypeOK, NEW p \in Proc, NEW f \in Path, RemoveOrphan(p, f)
    PROVE  TypeOK'
<1> DEFINE st == IF live[f] = manifest.sha[f] THEN "removed" ELSE "skipped"
<1>1. [mem[p].jm EXCEPT !.orphans = [@ EXCEPT ![f] = st]] \in Journal
  BY MemType DEF Journal
<1>2. mem' \in [Proc -> Mem]
  BY <1>1, DoneType DEF RemoveOrphan
<1>3. live' \in [Path -> Leaf]
  BY DEF TypeOK, RemoveOrphan, Leaf
<1> QED
  BY <1>2, <1>3 DEF TypeOK, RemoveOrphan

LEMMA FaultType ==
    ASSUME TypeOK, Fault
    PROVE  spent' \in [edits : Nat, crashes : Nat, faults : Nat]
BY DEF TypeOK, Fault

LEMMA RemoveOrphanFailsType ==
    ASSUME TypeOK, NEW p \in Proc, NEW f \in Path, RemoveOrphanFails(p, f)
    PROVE  TypeOK'
<1>1. [mem[p].jm EXCEPT !.orphans = [@ EXCEPT ![f] = "skipped"]] \in Journal
  BY MemType DEF Journal
<1>2. mem' \in [Proc -> Mem]
  BY <1>1, DoneType DEF RemoveOrphanFails
<1>3. spent' \in [edits : Nat, crashes : Nat, faults : Nat]
  BY FaultType DEF RemoveOrphanFails
<1> QED
  BY <1>2, <1>3 DEF TypeOK, RemoveOrphanFails, disk

LEMMA AnnounceType ==
    ASSUME TypeOK, NEW p \in Proc, Announce(p)
    PROVE  TypeOK'
<1>1. journal' \in Journal
  BY MemType, AtType DEF Announce
<1>2. mem' \in [Proc -> Mem]
  BY <1>1, TodoType DEF Announce
<1> QED
  BY <1>1, <1>2 DEF TypeOK, Announce, Goto, Phase

LEMMA PublishManifestType ==
    ASSUME TypeOK, NEW p \in Proc, PublishManifest(p)
    PROVE  TypeOK'
<1>1. At(mem[p].jm, "complete") \in Journal
  BY MemType, AtType
<1>2. mem' \in [Proc -> Mem]
  BY <1>1, TodoType DEF PublishManifest
<1>3. manifest' \in Manifest
  BY MemType DEF PublishManifest
<1> QED
  BY <1>2, <1>3 DEF TypeOK, PublishManifest, Goto, Phase

LEMMA NewTreesType ==
    ASSUME TypeOK, NewTrees
    PROVE  /\ stage' \in [Path -> Leaf]
           /\ backup' \in [Path -> Leaf]
           /\ kept' \in SUBSET (Path \X Content)
<1>1. kept' \in SUBSET (Path \X Content)
  BY DEF TypeOK, NewTrees, Leaf
<1> QED
  BY <1>1, EmptyTreeType DEF NewTrees

LEMMA WriteCompleteType ==
    ASSUME TypeOK, NEW p \in Proc, WriteComplete(p)
    PROVE  TypeOK'
BY MemType DEF TypeOK, WriteComplete, Goto, Phase

LEMMA WriteCompleteFailsType ==
    ASSUME TypeOK, NEW p \in Proc, WriteCompleteFails(p)
    PROVE  TypeOK'
BY FaultType, NoJournalType DEF TypeOK, WriteCompleteFails, Goto, Phase

LEMMA DropTreesType ==
    ASSUME TypeOK, NEW p \in Proc, DropTrees(p)
    PROVE  TypeOK'
BY EmptyTreeType DEF TypeOK, DropTrees, Goto, Phase

LEMMA DropTreesFailsType ==
    ASSUME TypeOK, NEW p \in Proc, DropTreesFails(p)
    PROVE  TypeOK'
<1>1. stage' \in [Path -> Leaf] /\ backup' \in [Path -> Leaf]
  BY DEF DropTreesFails, TypeOK, Leaf
<1>2. /\ pc' \in [Proc -> Phase]
      /\ lock' \in Proc \cup {Nobody}
      /\ plan' \in [Proc -> Plan]
      /\ mem' \in [Proc -> Mem]
  <2>1. CASE mem[p].recover
    BY <2>1, LeaveType DEF DropTreesFails
  <2>2. CASE ~mem[p].recover
    BY <2>2 DEF DropTreesFails, TypeOK, Goto, Phase
  <2> QED
    BY <2>1, <2>2
<1>3. spent' \in [edits : Nat, crashes : Nat, faults : Nat]
  BY FaultType DEF DropTreesFails
<1> QED
  BY <1>1, <1>2, <1>3 DEF DropTreesFails, TypeOK

LEMMA DropJournalType ==
    ASSUME TypeOK, NEW p \in Proc, DropJournal(p)
    PROVE  TypeOK'
BY LeaveType, NoJournalType DEF TypeOK, DropJournal

LEMMA DropJournalFailsType ==
    ASSUME TypeOK, NEW p \in Proc, DropJournalFails(p)
    PROVE  TypeOK'
BY LeaveType, FaultType DEF TypeOK, DropJournalFails, disk

LEMMA BeginInstallType ==
    ASSUME TypeOK, NEW p \in Proc, BeginInstall(p)
    PROVE  TypeOK'
<1>1. /\ manifest \in Manifest
      /\ manifest.gen + 1 \in Nat
      /\ plan[p].bundle \in Bundle
      /\ plan[p].claims \in SUBSET Claim
  BY DEF TypeOK, Manifest, Plan
<1> DEFINE cp == {f \in Files(plan[p].bundle) : Kind(p, f) = "backup"}
<1>2. PICK c \in plan[p].claims :
         Set(p, [NoMem EXCEPT
             !.jm     = NewJournal("staging", "install", {c}, manifest.gen + 1),
             !.next   = WithClaim(manifest, c, plan[p].bundle),
             !.copies = cp,
             !.todo   = Files(plan[p].bundle)])
  BY DEF BeginInstall, Start
<1>3. NewJournal("staging", "install", {c}, manifest.gen + 1) \in Journal
  BY <1>1, NewJournalType
<1>4. WithClaim(manifest, c, plan[p].bundle) \in Manifest
  BY <1>1, WithClaimType
<1>5. Files(plan[p].bundle) \in SUBSET Path /\ cp \in SUBSET Path
  BY DEF Files
<1>6. [NoMem EXCEPT
             !.jm     = NewJournal("staging", "install", {c}, manifest.gen + 1),
             !.next   = WithClaim(manifest, c, plan[p].bundle),
             !.copies = cp,
             !.todo   = Files(plan[p].bundle)] \in Mem
  <2> HIDE DEF cp
  <2> QED
    BY <1>3, <1>4, <1>5, NoMemType DEF Mem
<1>7. mem' \in [Proc -> Mem]
  BY <1>2, <1>6, SetType
<1> QED
  BY <1>7, NewTreesType DEF BeginInstall, Start, TypeOK, Goto, Phase

LEMMA MakePlanType ==
    ASSUME TypeOK, NEW p \in Proc, NEW c \in Claim, NEW b \in Bundle,
           NEW force \in Forcing, MakePlan(p, c, b, force)
    PROVE  TypeOK'
<1> DEFINE new == [claims |-> {c}, bundle |-> b, force |-> force, base |-> manifest]
<1>1. new \in [claims : SUBSET Claim, bundle : Bundle, force : BOOLEAN, base : Manifest]
  BY BoundAssumption DEF TypeOK
<1>2. new \in Plan
  BY <1>1 DEF Plan
<1>3. plan' = [plan EXCEPT ![p] = new]
  BY DEF MakePlan
<1>4. plan' \in [Proc -> Plan]
  BY <1>2, <1>3 DEF TypeOK
<1> QED
  BY <1>4 DEF MakePlan, TypeOK, disk, Goto, Phase

LEMMA RefuseInstallType ==
    ASSUME TypeOK, NEW p \in Proc, RefuseInstall(p)
    PROVE  TypeOK'
BY NoPlanType DEF RefuseInstall, TypeOK, disk, Goto, Phase

LEMMA BeginUninstallType ==
    ASSUME TypeOK, NEW p \in Proc, NEW c \in Claim, BeginUninstall(p, c)
    PROVE  TypeOK'
<1>1. manifest \in Manifest /\ manifest.gen + 1 \in Nat
  BY DEF TypeOK, Manifest
<1> DEFINE td == {f \in SoleOwned(manifest, c) : live[f] = manifest.sha[f]}
<1> DEFINE new == [NoMem EXCEPT
           !.jm   = NewJournal("staging", "uninstall", {c}, manifest.gen + 1),
           !.next = WithoutClaim(manifest, c),
           !.todo = td]
<1>2. NewJournal("staging", "uninstall", {c}, manifest.gen + 1) \in Journal
  BY <1>1, NewJournalType
<1>3. WithoutClaim(manifest, c) \in Manifest
  BY <1>1, WithoutClaimType
<1>4. td \in SUBSET Path
  BY DEF SoleOwned
<1>5. new \in Mem
  <2> HIDE DEF td
  <2> QED
    BY <1>2, <1>3, <1>4, NoMemType DEF Mem
<1>6. mem' \in [Proc -> Mem]
  BY <1>5, SetType DEF BeginUninstall
<1> QED
  BY <1>6, NewTreesType DEF BeginUninstall, TypeOK, Goto, Phase

LEMMA SaveOwnedType ==
    ASSUME TypeOK, NEW p \in Proc, NEW f \in Path, SaveOwned(p, f)
    PROVE  TypeOK'
<1> DEFINE e == [st |-> "pending", sha |-> live[f], existed |-> TRUE,
                 saved |-> "rollback", orig |-> live[f]]
<1>1. live[f] \in Leaf /\ manifest.sha[f] \in Digest \cup {Absent}
  BY DEF TypeOK, Manifest
<1>2. live[f] = manifest.sha[f] => e \in PathEntry
  BY <1>1 DEF PathEntry
<1>3. mem' \in [Proc -> Mem]
  <2>1. CASE live[f] = manifest.sha[f]
    BY <2>1, <1>2, MemType, PutType, DoneType DEF SaveOwned
  <2>2. CASE live[f] # manifest.sha[f]
    BY <2>2, MemType, DoneType DEF SaveOwned
  <2> QED
    BY <2>1, <2>2
<1>4. stage' \in [Path -> Leaf]
  BY <1>1 DEF TypeOK, SaveOwned
<1> QED
  BY <1>3, <1>4 DEF TypeOK, SaveOwned

LEMMA WriteStagingType ==
    ASSUME TypeOK, NEW p \in Proc, WriteStaging(p)
    PROVE  TypeOK'
BY MemType DEF TypeOK, WriteStaging, Goto, Phase

LEMMA UninstallIntentType ==
    ASSUME TypeOK, NEW p \in Proc, UninstallIntent(p)
    PROVE  TypeOK'
<1>1. Journaled(mem[p].jm) \in SUBSET Path
  BY DEF Journaled
<1>2. journal' \in Journal
  BY MemType, AtType DEF UninstallIntent
<1>3. mem' \in [Proc -> Mem]
  BY <1>1, <1>2, TodoType DEF UninstallIntent
<1> QED
  BY <1>2, <1>3 DEF TypeOK, UninstallIntent, Goto, Phase

LEMMA RemoveOwnedType ==
    ASSUME TypeOK, NEW p \in Proc, NEW f \in Path, RemoveOwned(p, f)
    PROVE  TypeOK'
<1> DEFINE e == mem[p].jm.paths[f]
           gone == live[f] \in {e.orig, Absent}
           new == IF gone THEN [e EXCEPT !.st = "removed"]
                  ELSE [e EXCEPT !.st = "retained", !.saved = "none", !.orig = Absent]
<1>1. e \in PathEntry
  BY MemType
<1>2. new \in PathEntry
  BY <1>1 DEF PathEntry, Leaf
<1>3. Done(p, f, Put(mem[p].jm, f, new))
  BY DEF RemoveOwned
<1>4. mem' \in [Proc -> Mem]
  <2> HIDE DEF new
  <2> QED
    BY <1>2, <1>3, MemType, PutType, DoneType
<1>5. live' \in [Path -> Leaf]
  BY DEF TypeOK, RemoveOwned, Leaf
<1> QED
  BY <1>4, <1>5 DEF TypeOK, RemoveOwned

LEMMA FailType ==
    ASSUME TypeOK, NEW p \in Proc, Fail(p)
    PROVE  TypeOK'
<1>1. spent' \in [edits : Nat, crashes : Nat, faults : Nat]
  BY FaultType DEF Fail, TypeOK
<1>2. At(mem[p].jm, "rollback") \in Journal /\ Journaled(mem[p].jm) \in SUBSET Path
  BY MemType, AtType DEF Journaled
<1>3. CASE Published(manifest, mem[p].jm)
  BY <1>1, <1>3, LeaveType DEF Fail, TypeOK
<1>4. CASE ~Published(manifest, mem[p].jm)
  <2>1. mem[p] \in Mem
    BY DEF TypeOK
  <2>2. [mem[p] EXCEPT !.jm = At(@, "rollback"), !.undone = TRUE,
                       !.todo = Journaled(mem[p].jm)] \in Mem
    BY <2>1, <1>2 DEF Mem
  <2>3. mem' \in [Proc -> Mem]
    BY <2>2, <1>4, SetType DEF Fail
  <2>4. journal' \in Journal
    BY <1>2, <1>4 DEF Fail, TypeOK
  <2> QED
    BY <1>1, <1>4, <2>3, <2>4 DEF Fail, TypeOK, Goto, Phase
<1> QED
  BY <1>3, <1>4

LEMMA UndoFileType ==
    ASSUME TypeOK, NEW p \in Proc, NEW f \in Path, UndoFile(p, f)
    PROVE  TypeOK'
<1> DEFINE e == mem[p].jm.paths[f]
           r == Restored(mem[p].jm.op, e, live[f], stage[f])
<1>1. /\ e \in PathEntry
      /\ live[f] \in Leaf
      /\ stage[f] \in Leaf
      /\ mem[p] \in Mem
      /\ mem[p].ok \in BOOLEAN
  BY MemType DEF TypeOK, Mem
<1>2. r.leaf \in Leaf /\ r.snap \in Leaf /\ r.ok \in BOOLEAN
  <2> HIDE DEF e
  <2>1. Absent \in Leaf
    BY DEF Leaf
  <2> QED
    BY <1>1, <2>1 DEF Restored
<1>3. /\ live' = [live EXCEPT ![f] = r.leaf]
      /\ stage' = [stage EXCEPT ![f] = r.snap]
      /\ Set(p, [mem[p] EXCEPT !.todo = @ \ {f}, !.ok = @ /\ r.ok])
  BY DEF UndoFile
<1> HIDE DEF r
<1>4. [mem[p] EXCEPT !.todo = @ \ {f}, !.ok = @ /\ r.ok] \in Mem
  BY <1>1, <1>2 DEF Mem
<1>5. mem' \in [Proc -> Mem]
  BY <1>3, <1>4, SetType
<1>6. live' \in [Path -> Leaf] /\ stage' \in [Path -> Leaf]
  BY <1>2, <1>3 DEF TypeOK
<1> QED
  BY <1>5, <1>6 DEF TypeOK, UndoFile

LEMMA UndoFileFailsType ==
    ASSUME TypeOK, NEW p \in Proc, NEW f \in Path, UndoFileFails(p, f)
    PROVE  TypeOK'
<1>1. mem[p] \in Mem
  BY DEF TypeOK
<1>2. [mem[p] EXCEPT !.todo = @ \ {f}, !.ok = FALSE] \in Mem
  BY <1>1 DEF Mem
<1>3. mem' \in [Proc -> Mem]
  BY <1>2, SetType DEF UndoFileFails
<1> QED
  BY <1>3, FaultType DEF TypeOK, UndoFileFails, disk

LEMMA UndoDoneType ==
    ASSUME TypeOK, NEW p \in Proc, UndoDone(p)
    PROVE  TypeOK'
<1>1. CASE mem[p].ok
  BY <1>1 DEF UndoDone, TypeOK, disk, Goto, Phase
<1>2. CASE ~mem[p].ok
  BY <1>2, LeaveType DEF UndoDone, TypeOK, disk
<1> QED
  BY <1>1, <1>2

LEMMA ProbeRecoverType ==
    ASSUME TypeOK, NEW p \in Proc, ProbeRecover(p)
    PROVE  TypeOK'
BY DEF ProbeRecover, TypeOK, disk, Goto, Phase

LEMMA EnterRecoverType ==
    ASSUME TypeOK, NEW p \in Proc, EnterRecover(p)
    PROVE  TypeOK'
<1>1. journal \in Journal /\ Journaled(journal) \in SUBSET Path
  BY DEF TypeOK, Journaled
<1>2. [NoMem EXCEPT !.jm      = journal,
                    !.recover = TRUE,
                    !.undone  = ~Published(manifest, journal),
                    !.todo    = Journaled(journal)] \in Mem
  <2>1. (~Published(manifest, journal)) \in BOOLEAN
    OBVIOUS
  <2> QED
    BY <1>1, <2>1, NoMemType DEF Mem
<1>3. mem' \in [Proc -> Mem]
  BY <1>2, SetType DEF EnterRecover
<1> QED
  BY <1>3 DEF EnterRecover, TypeOK, disk, Goto, Phase

LEMMA RefuseRecoverType ==
    ASSUME TypeOK, NEW p \in Proc, RefuseRecover(p)
    PROVE  TypeOK'
BY DEF RefuseRecover, TypeOK, disk, Goto, Phase

LEMMA CrashType ==
    ASSUME TypeOK, NEW p \in Proc, Crash(p)
    PROVE  TypeOK'
<1>1. spent' \in [edits : Nat, crashes : Nat, faults : Nat]
  BY DEF TypeOK, Crash
<1> QED
  BY <1>1, LeaveType DEF TypeOK, Crash, disk

LEMMA UserEditType ==
    ASSUME TypeOK, NEW f \in Path, NEW d \in UserData \cup {Absent}, UserEdit(f, d)
    PROVE  TypeOK'
<1>1. spent' \in [edits : Nat, crashes : Nat, faults : Nat]
  BY DEF TypeOK, UserEdit
<1>2. live' \in [Path -> Leaf]
  BY DEF TypeOK, UserEdit, Leaf, Content
<1> QED
  BY <1>1, <1>2 DEF TypeOK, UserEdit

(* Every state the transaction reaches is well typed. *)
THEOREM TypeCorrect == Spec => []TypeOK
<1>1. TypeOK /\ [Next]_vars => TypeOK'
  <2> SUFFICES ASSUME TypeOK, [Next]_vars PROVE TypeOK'
    OBVIOUS
  <2>1. ASSUME NEW p \in Proc, Advance(p) PROVE TypeOK'
    BY <2>1, StageFileType, SnapshotFileType, BackupFileType, CommitFileType,
       RemoveOrphanType, SaveOwnedType, RemoveOwnedType, UndoFileType,
       StagingDoneType, SnapshotsDoneType, WriteIntentType, WriteJournalType,
       ListOrphansType, AnnounceType, PublishManifestType, WriteCompleteType,
       WriteStagingType, UninstallIntentType, UndoDoneType, DropTreesType,
       DropJournalType
       DEF Advance
  <2>2. ASSUME NEW p \in Proc, Err(p) PROVE TypeOK'
    BY <2>2, FailType, WriteCompleteFailsType, DropTreesFailsType,
       DropJournalFailsType, UndoFileFailsType, RemoveOrphanFailsType, CrashType DEF Err
  <2>3. ASSUME NEW p \in Proc, Command(p) PROVE TypeOK'
    BY <2>3, MakePlanType, BeginUninstallType, BeginInstallType, RefuseInstallType,
       ProbeRecoverType, EnterRecoverType, RefuseRecoverType DEF Command
  <2>4. ASSUME User PROVE TypeOK'
    BY <2>4, UserEditType DEF User
  <2>5. CASE UNCHANGED vars
    BY <2>5 DEF TypeOK, vars
  <2> QED
    BY <2>1, <2>2, <2>3, <2>4, <2>5 DEF Next
<1> QED
  BY <1>1, InitTypeOK, PTL DEF Spec

-----------------------------------------------------------------------------
(* The flock.  Every step of a process is one of four moves of its program *)
(* counter: it stays, moves between locked phases, moves between unlocked  *)
(* ones, takes the free lock, or leaves and frees it.                      *)

Moves(p) ==
    \/ pc' = pc /\ lock' = lock
    \/ \E ph \in Locked : pc[p] \in Locked /\ Goto(p, ph) /\ lock' = lock
    \/ \E ph \in Phase \ Locked : pc[p] \notin Locked /\ Goto(p, ph) /\ lock' = lock
    \/ \E ph \in Locked : pc[p] \notin Locked /\ lock = Nobody /\ lock' = p /\ Goto(p, ph)
    \/ pc[p] \in Locked /\ Goto(p, "idle") /\ lock' = Nobody

LEMMA AdvanceMoves == ASSUME NEW p \in Proc, Advance(p) PROVE Moves(p)
<1>1. ASSUME NEW f \in Path,
             \/ StageFile(p, f) \/ SnapshotFile(p, f) \/ BackupFile(p, f)
             \/ CommitFile(p, f) \/ RemoveOrphan(p, f)
             \/ SaveOwned(p, f) \/ RemoveOwned(p, f) \/ UndoFile(p, f)
      PROVE  pc' = pc /\ lock' = lock
  BY <1>1 DEF StageFile, SnapshotFile, BackupFile, CommitFile, RemoveOrphan,
              SaveOwned, RemoveOwned, UndoFile
<1>2. ASSUME \/ StagingDone(p) \/ SnapshotsDone(p) \/ WriteIntent(p) \/ ListOrphans(p)
             \/ Announce(p) \/ PublishManifest(p) \/ WriteComplete(p)
             \/ WriteStaging(p) \/ UninstallIntent(p) \/ DropTrees(p)
      PROVE  \E ph \in Locked : pc[p] \in Locked /\ Goto(p, ph) /\ lock' = lock
  BY <1>2 DEF StagingDone, SnapshotsDone, WriteIntent, ListOrphans, Announce,
              PublishManifest, WriteComplete, WriteStaging, UninstallIntent, DropTrees,
              Locked, Phase
<1>3. CASE WriteJournal(p)
  BY <1>3 DEF WriteJournal, Moves
<1>4. CASE UndoDone(p)
  BY <1>4 DEF UndoDone, Leave, Moves, Locked, Phase
<1>5. CASE DropJournal(p)
  BY <1>5 DEF DropJournal, Leave, Moves, Locked, Phase
<1> QED
  BY <1>1, <1>2, <1>3, <1>4, <1>5, SMTT(30) DEF Advance, Moves

LEMMA ErrMoves == ASSUME NEW p \in Proc, Err(p) PROVE Moves(p)
<1>1. CASE Fail(p)
  BY <1>1 DEF Fail, Leave, Moves, Locked, Phase
<1>2. CASE WriteCompleteFails(p)
  BY <1>2 DEF WriteCompleteFails, Moves, Locked, Phase
<1>3. CASE DropTreesFails(p)
  BY <1>3 DEF DropTreesFails, Leave, Moves, Locked, Phase
<1>4. CASE DropJournalFails(p)
  BY <1>4 DEF DropJournalFails, Leave, Moves, Locked, Phase
<1>5. CASE \E f \in Path : UndoFileFails(p, f)
  BY <1>5 DEF UndoFileFails, Moves
<1>6. CASE \E f \in Path : RemoveOrphanFails(p, f)
  BY <1>6 DEF RemoveOrphanFails, Moves
<1>7. CASE Crash(p)
  BY <1>7 DEF Crash, Leave, Moves
<1> QED
  BY <1>1, <1>2, <1>3, <1>4, <1>5, <1>6, <1>7 DEF Err

LEMMA CommandMoves == ASSUME NEW p \in Proc, Command(p) PROVE Moves(p)
<1>1. ASSUME NEW c \in Claim, NEW b \in Bundle, NEW force \in Forcing,
             MakePlan(p, c, b, force)
      PROVE  Moves(p)
  BY <1>1 DEF MakePlan, Moves, Locked, Phase
<1>2. ASSUME NEW c \in Claim, BeginUninstall(p, c)
      PROVE  Moves(p)
  BY <1>2 DEF BeginUninstall, Moves, Locked, Phase
<1>3. CASE BeginInstall(p)
  BY <1>3 DEF BeginInstall, Start, Moves, Locked, Phase
<1>4. CASE RefuseInstall(p)
  BY <1>4 DEF RefuseInstall, Moves, Locked, Phase
<1>5. CASE ProbeRecover(p)
  BY <1>5 DEF ProbeRecover, Moves, Locked, Phase
<1>6. CASE EnterRecover(p)
  BY <1>6 DEF EnterRecover, Moves, Locked, Phase
<1>7. CASE RefuseRecover(p)
  BY <1>7 DEF RefuseRecover, Moves, Locked, Phase
<1> QED
  BY <1>1, <1>2, <1>3, <1>4, <1>5, <1>6, <1>7 DEF Command

LEMMA MovesKeepDiscipline ==
    ASSUME TypeOK, LockDiscipline, NEW p \in Proc, Moves(p)
    PROVE  LockDiscipline'
<1>1. Nobody \notin Proc /\ pc \in [Proc -> Phase] /\ lock \in Proc \cup {Nobody}
  BY BoundAssumption DEF TypeOK
<1>2. "idle" \notin Locked
  BY DEF Locked
<1> QED
  BY <1>1, <1>2 DEF LockDiscipline, Moves, Goto

(* The root's flock is mutual exclusion: at most one process is ever       *)
(* inside a mutating command, and it is the one the lock names.            *)
THEOREM MutualExclusion == Spec => []LockDiscipline
<1>1. Init => LockDiscipline
  BY BoundAssumption DEF Init, LockDiscipline, Locked
<1>2. TypeOK /\ LockDiscipline /\ [Next]_vars => LockDiscipline'
  <2> SUFFICES ASSUME TypeOK, LockDiscipline, [Next]_vars PROVE LockDiscipline'
    OBVIOUS
  <2>1. ASSUME NEW p \in Proc, Advance(p) \/ Err(p) \/ Command(p) PROVE LockDiscipline'
    BY <2>1, AdvanceMoves, ErrMoves, CommandMoves, MovesKeepDiscipline
  <2>2. CASE User
    BY <2>2 DEF User, UserEdit, LockDiscipline
  <2>3. CASE UNCHANGED vars
    BY <2>3 DEF vars, LockDiscipline
  <2> QED
    BY <2>1, <2>2, <2>3 DEF Next
<1> QED
  BY <1>1, <1>2, TypeCorrect, PTL DEF Spec

-----------------------------------------------------------------------------
(* Uninstall, with its rollback and its recovery, and what users wrote.    *)

LEMMA NoJournalShipped == OriginalsAreShipped(NoJournal) /\ OriginalsAreShipped(NoMem.jm)
BY DEF OriginalsAreShipped, NoJournal, NewJournal, NoMem

LEMMA NewJournalShipped ==
    ASSUME NEW st, NEW op, NEW cs, NEW t
    PROVE  OriginalsAreShipped(NewJournal(st, op, cs, t))
BY ContentAssumption DEF OriginalsAreShipped, NewJournal, NoEntry, Content

LEMMA PutShipped ==
    ASSUME NEW j \in Journal, OriginalsAreShipped(j), NEW f \in Path, NEW e \in PathEntry,
           j.op = "uninstall" => e.orig \notin UserData
    PROVE  OriginalsAreShipped(Put(j, f, e)) /\ Put(j, f, e).op = j.op
<1>1. Put(j, f, e).paths = [j.paths EXCEPT ![f] = e] /\ Put(j, f, e).op = j.op
  BY DEF Put, Journal
<1> QED
  BY <1>1 DEF OriginalsAreShipped, Journal

LEMMA AtShipped ==
    ASSUME NEW j \in Journal, OriginalsAreShipped(j), NEW st
    PROVE  OriginalsAreShipped(At(j, st)) /\ At(j, st).op = j.op
<1>1. At(j, st).paths = j.paths /\ At(j, st).op = j.op
  BY DEF At, Journal
<1> QED
  BY <1>1 DEF OriginalsAreShipped

(* What an action of p has to keep: the other processes' memories stay, so *)
(* only p's journal and the one on disk need a look.                       *)
LEMMA StepShipped ==
    ASSUME TypeOK, UninstallInv, NEW p \in Proc, NEW m \in Mem,
           mem' = [mem EXCEPT ![p] = m],
           OriginalsAreShipped(m.jm),
           OriginalsAreShipped(journal)',
           \A q \in Proc \ {p} : pc'[q] = pc[q],
           pc'[p] \in {"staging", "snapshot", "backup", "commit", "orphan"} =>
               m.jm.op = "install"
    PROVE  UninstallInv'
BY DEF TypeOK, UninstallInv, OriginalsAreShipped

LEMMA DoneShipped ==
    ASSUME TypeOK, UninstallInv, NEW p \in Proc, NEW f \in Path, NEW j \in Journal,
           OriginalsAreShipped(j), j.op = mem[p].jm.op,
           Done(p, f, j), UNCHANGED <<journal, pc>>
    PROVE  UninstallInv'
<1> DEFINE m == [mem[p] EXCEPT !.todo = @ \ {f}, !.jm = j]
<1>1. mem[p] \in Mem
  BY DEF TypeOK
<1>2. m \in Mem /\ m.jm = j
  BY <1>1 DEF Mem
<1>3. mem' = [mem EXCEPT ![p] = m]
  BY DEF Done, Set
<1>4. OriginalsAreShipped(journal)'
  BY DEF UninstallInv, OriginalsAreShipped
<1>5. pc[p] \in {"staging", "snapshot", "backup", "commit", "orphan"} => j.op = "install"
  BY DEF UninstallInv
<1> HIDE DEF m
<1> QED
  BY <1>2, <1>3, <1>4, <1>5, StepShipped

LEMMA MemShipped ==
    ASSUME TypeOK, UninstallInv, NEW p \in Proc
    PROVE  OriginalsAreShipped(mem[p].jm) /\ OriginalsAreShipped(journal)
BY DEF UninstallInv

(* A new journal j and list fs of files, in the phase ph. *)
LEMMA TodoShipped ==
    ASSUME TypeOK, UninstallInv, NEW p \in Proc, NEW fs \in SUBSET Path, NEW j \in Journal,
           NEW ph \in Phase, OriginalsAreShipped(j), Todo(p, fs, j), Goto(p, ph),
           ph \in {"staging", "snapshot", "backup", "commit", "orphan"} => j.op = "install",
           OriginalsAreShipped(journal)'
    PROVE  UninstallInv'
<1> DEFINE m == [mem[p] EXCEPT !.todo = fs, !.jm = j]
<1>1. mem[p] \in Mem /\ pc \in [Proc -> Phase]
  BY DEF TypeOK
<1>2. m \in Mem /\ m.jm = j
  BY <1>1 DEF Mem
<1>3. mem' = [mem EXCEPT ![p] = m]
  BY DEF Todo, Set
<1>4. pc'[p] = ph /\ \A q \in Proc \ {p} : pc'[q] = pc[q]
  BY <1>1 DEF Goto
<1> HIDE DEF m
<1> QED
  BY <1>2, <1>3, <1>4, StepShipped

LEMMA LeaveShipped ==
    ASSUME TypeOK, UninstallInv, NEW p \in Proc, Leave(p), OriginalsAreShipped(journal)'
    PROVE  UninstallInv'
<1>1. pc'[p] = "idle" /\ \A q \in Proc \ {p} : pc'[q] = pc[q]
  BY DEF Leave, Goto, TypeOK
<1>2. mem' = [mem EXCEPT ![p] = NoMem]
  BY DEF Leave, Set
<1> QED
  BY <1>1, <1>2, NoMemType, NoJournalShipped, StepShipped

(* A step that leaves the memories alone and sends p to ph. *)
LEMMA GotoShipped ==
    ASSUME TypeOK, UninstallInv, NEW p \in Proc, NEW ph \in Phase, Goto(p, ph),
           UNCHANGED mem, OriginalsAreShipped(journal)',
           ph \in {"staging", "snapshot", "backup", "commit", "orphan"} =>
               mem[p].jm.op = "install"
    PROVE  UninstallInv'
BY DEF TypeOK, UninstallInv, Goto, OriginalsAreShipped

LEMMA FlushShipped ==
    ASSUME TypeOK, UninstallInv, NEW p \in Proc, journal' \in {journal, mem[p].jm, NoJournal}
    PROVE  OriginalsAreShipped(journal)'
BY NoJournalShipped DEF UninstallInv, OriginalsAreShipped

LEMMA FileStepsShipped ==
    ASSUME TypeOK, UninstallInv, NEW p \in Proc, NEW f \in Path,
           \/ StageFile(p, f) \/ SnapshotFile(p, f) \/ BackupFile(p, f)
           \/ CommitFile(p, f) \/ RemoveOrphan(p, f) \/ RemoveOrphanFails(p, f)
    PROVE  UninstallInv'
<1> DEFINE jm == mem[p].jm
<1>1. /\ jm \in Journal
      /\ OriginalsAreShipped(jm)
      /\ jm.paths[f] \in PathEntry
      /\ live[f] \in Leaf
  BY MemType, MemShipped DEF TypeOK
<1>2. jm.op = "install"
  BY DEF UninstallInv, StageFile, SnapshotFile, BackupFile, CommitFile, RemoveOrphan,
         RemoveOrphanFails
<1>3. ASSUME NEW e \in PathEntry, Done(p, f, Put(jm, f, e)), UNCHANGED <<journal, pc>>
      PROVE  UninstallInv'
  <2>1. Put(jm, f, e) \in Journal
    BY <1>1, PutType
  <2>2. OriginalsAreShipped(Put(jm, f, e)) /\ Put(jm, f, e).op = jm.op
    BY <1>1, <1>2, PutShipped
  <2> QED
    BY <1>3, <2>1, <2>2, DoneShipped
<1>4. CASE StageFile(p, f)
  <2>1. plan[p].bundle.files[f] \in Digest \cup {Absent}
    BY BundleType DEF TypeOK, Plan
  <2>2. [NoEntry EXCEPT !.st = "staged", !.sha = plan[p].bundle.files[f]] \in PathEntry
    BY <2>1 DEF NoEntry, PathEntry, Leaf
  <2> QED
    BY <1>3, <1>4, <2>2 DEF StageFile, disk
<1>5. CASE SnapshotFile(p, f)
  <2>1. [jm.paths[f] EXCEPT !.existed = TRUE, !.saved = "rollback", !.orig = live[f]]
           \in PathEntry
    BY <1>1 DEF PathEntry
  <2>2. CASE live[f] = Absent
    BY <2>2, <1>1, <1>5, DoneShipped DEF SnapshotFile
  <2>3. CASE live[f] # Absent
    BY <2>1, <2>3, <1>3, <1>5 DEF SnapshotFile
  <2> QED
    BY <2>2, <2>3
<1>6. CASE BackupFile(p, f)
  <2>1. [jm.paths[f] EXCEPT !.saved = IF @ = "none" THEN "backup" ELSE @] \in PathEntry
    BY <1>1 DEF PathEntry
  <2> QED
    BY <2>1, <1>3, <1>6 DEF BackupFile
<1>7. CASE CommitFile(p, f)
  <2>1. [jm.paths[f] EXCEPT
           !.st = IF Kind(p, f) = "retain" THEN "retained" ELSE "committed"] \in PathEntry
    BY <1>1 DEF PathEntry
  <2> QED
    BY <2>1, <1>3, <1>7 DEF CommitFile
<1>8. CASE RemoveOrphan(p, f) \/ RemoveOrphanFails(p, f)
  <2> DEFINE j(st) == [jm EXCEPT !.orphans = [@ EXCEPT ![f] = st]]
  <2>1. ASSUME NEW st \in {"removed", "skipped"}
        PROVE  /\ j(st) \in Journal /\ j(st).paths = jm.paths /\ j(st).op = jm.op
               /\ OriginalsAreShipped(j(st))
    BY <1>1 DEF Journal, OriginalsAreShipped
  <2>2. PICK st \in {"removed", "skipped"} : Done(p, f, j(st))
    BY <1>8 DEF RemoveOrphan, RemoveOrphanFails
  <2>3. UNCHANGED <<journal, pc>>
    BY <1>8 DEF RemoveOrphan, RemoveOrphanFails, disk
  <2> HIDE DEF j
  <2> QED
    BY <2>1, <2>2, <2>3, <1>1, DoneShipped
<1> QED
  BY <1>4, <1>5, <1>6, <1>7, <1>8

LEMMA OwnedStepsShipped ==
    ASSUME TypeOK, UninstallInv, NEW p \in Proc, NEW f \in Path,
           SaveOwned(p, f) \/ RemoveOwned(p, f)
    PROVE  UninstallInv'
<1> DEFINE jm == mem[p].jm
<1>1. /\ jm \in Journal
      /\ OriginalsAreShipped(jm)
      /\ jm.paths[f] \in PathEntry
      /\ live[f] \in Leaf
      /\ manifest.sha[f] \in Digest \cup {Absent}
  BY MemType, MemShipped DEF TypeOK, Manifest
<1>2. Absent \notin UserData /\ Digest \cap UserData = {}
  BY ContentAssumption DEF Content
<1>3. ASSUME NEW e \in PathEntry, jm.op = "uninstall" => e.orig \notin UserData,
             Done(p, f, Put(jm, f, e)), UNCHANGED <<journal, pc>>
      PROVE  UninstallInv'
  <2>1. Put(jm, f, e) \in Journal
    BY <1>1, PutType
  <2>2. OriginalsAreShipped(Put(jm, f, e)) /\ Put(jm, f, e).op = jm.op
    BY <1>1, <1>3, PutShipped
  <2> QED
    BY <1>3, <2>1, <2>2, DoneShipped
<1>4. CASE SaveOwned(p, f)
  <2> DEFINE e == [st |-> "pending", sha |-> live[f], existed |-> TRUE,
                   saved |-> "rollback", orig |-> live[f]]
  <2>1. CASE live[f] = manifest.sha[f]
    <3>1. e \in PathEntry /\ e.orig \notin UserData
      BY <2>1, <1>1, <1>2 DEF PathEntry
    <3> QED
      BY <3>1, <2>1, <1>3, <1>4 DEF SaveOwned
  <2>2. CASE live[f] # manifest.sha[f]
    BY <2>2, <1>1, <1>4, DoneShipped DEF SaveOwned
  <2> QED
    BY <2>1, <2>2
<1>5. CASE RemoveOwned(p, f)
  <2> DEFINE e   == jm.paths[f]
             new == IF live[f] \in {e.orig, Absent} THEN [e EXCEPT !.st = "removed"]
                    ELSE [e EXCEPT !.st = "retained", !.saved = "none", !.orig = Absent]
  <2>1. new \in PathEntry /\ new.orig \in {e.orig, Absent}
    BY <1>1 DEF PathEntry, Leaf
  <2>2. jm.op = "uninstall" => new.orig \notin UserData
    BY <2>1, <1>1, <1>2 DEF OriginalsAreShipped
  <2>3. Done(p, f, Put(jm, f, new)) /\ UNCHANGED <<journal, pc>>
    BY <1>5 DEF RemoveOwned
  <2> HIDE DEF new
  <2> QED
    BY <2>1, <2>2, <2>3, <1>3
<1> QED
  BY <1>4, <1>5

LEMMA UndoStepsShipped ==
    ASSUME TypeOK, UninstallInv, NEW p \in Proc, NEW f \in Path,
           UndoFile(p, f) \/ UndoFileFails(p, f)
    PROVE  UninstallInv'
<1>1. PICK ok \in BOOLEAN :
         mem' = [mem EXCEPT ![p] = [mem[p] EXCEPT !.todo = @ \ {f}, !.ok = ok]]
  <2>1. CASE UndoFile(p, f)
    <3> DEFINE r == Restored(mem[p].jm.op, mem[p].jm.paths[f], live[f], stage[f])
    <3>1. Set(p, [mem[p] EXCEPT !.todo = @ \ {f}, !.ok = @ /\ r.ok])
      BY <2>1 DEF UndoFile
    <3>2. (mem[p].ok /\ r.ok) \in BOOLEAN
      OBVIOUS
    <3> HIDE DEF r
    <3> QED
      BY <3>1, <3>2 DEF Set
  <2>2. CASE UndoFileFails(p, f)
    BY <2>2 DEF UndoFileFails, Set
  <2> QED
    BY <2>1, <2>2
<1> DEFINE m == [mem[p] EXCEPT !.todo = @ \ {f}, !.ok = ok]
<1>2. mem[p] \in Mem
  BY DEF TypeOK
<1>3. m \in Mem /\ m.jm = mem[p].jm
  BY <1>2 DEF Mem
<1>4. UNCHANGED <<journal, pc>>
  BY DEF UndoFile, UndoFileFails, disk
<1>5. OriginalsAreShipped(journal)'
  BY <1>4 DEF UninstallInv, OriginalsAreShipped
<1>6. OriginalsAreShipped(m.jm) /\
      (pc'[p] \in {"staging", "snapshot", "backup", "commit", "orphan"} => m.jm.op = "install")
  BY <1>3, <1>4 DEF UninstallInv
<1> HIDE DEF m
<1> QED
  BY <1>1, <1>3, <1>4, <1>5, <1>6, StepShipped DEF m

LEMMA PhaseStepsShipped ==
    ASSUME TypeOK, UninstallInv, NEW p \in Proc,
           \/ StagingDone(p) \/ SnapshotsDone(p) \/ WriteIntent(p) \/ ListOrphans(p)
           \/ Announce(p) \/ PublishManifest(p) \/ UninstallIntent(p)
    PROVE  UninstallInv'
<1> DEFINE jm == mem[p].jm
<1>1. /\ jm \in Journal
      /\ OriginalsAreShipped(jm)
      /\ OriginalsAreShipped(journal)
      /\ mem[p].copies \in SUBSET Path
  BY MemType, MemShipped
<1>2. UNCHANGED journal => OriginalsAreShipped(journal)'
  BY <1>1 DEF OriginalsAreShipped
<1>3. ASSUME NEW st \in {"committing", "orphaning", "publishing_manifest", "complete", "rollback"}
      PROVE  /\ At(jm, st) \in Journal
             /\ OriginalsAreShipped(At(jm, st))
             /\ At(jm, st).op = jm.op
             /\ journal' = At(jm, st) => OriginalsAreShipped(journal)'
  BY <1>1, AtType, AtShipped DEF OriginalsAreShipped
<1>4. pc[p] \in {"staging", "snapshot", "backup", "commit", "orphan"} => jm.op = "install"
  BY DEF UninstallInv
<1>5. CASE StagingDone(p)
  <2>1. Files(plan[p].bundle) \in SUBSET Path
    BY DEF Files
  <2> QED
    BY <2>1, <1>1, <1>2, <1>4, <1>5, TodoShipped DEF StagingDone, disk, Phase
<1>6. CASE SnapshotsDone(p)
  BY <1>1, <1>2, <1>4, <1>6, TodoShipped DEF SnapshotsDone, disk, Phase
<1>7. CASE WriteIntent(p)
  <2>1. Files(plan[p].bundle) \in SUBSET Path
    BY DEF Files
  <2>2. Todo(p, Files(plan[p].bundle), At(jm, "committing")) /\ Goto(p, "commit")
    BY <1>7 DEF WriteIntent
  <2> QED
    BY <2>1, <2>2, <1>3, <1>4, <1>7, TodoShipped DEF WriteIntent, Phase
<1>8. CASE ListOrphans(p)
  <2> DEFINE j == [At(jm, "orphaning") EXCEPT !.orphans =
                     [f \in Path |-> IF f \in Orphans(p) THEN "pending" ELSE "none"]]
  <2>1. Orphans(p) \in SUBSET Path
    BY DEF Orphans, Owned
  <2>2. j \in Journal /\ j.paths = At(jm, "orphaning").paths /\ j.op = At(jm, "orphaning").op
    BY <1>3 DEF Journal
  <2>3. OriginalsAreShipped(j) /\ j.op = jm.op
    BY <2>2, <1>3 DEF OriginalsAreShipped
  <2>4. CASE Orphans(p) = {}
    BY <2>4, <1>2, <1>4, <1>8, GotoShipped DEF ListOrphans, disk, Phase
  <2>5. CASE Orphans(p) # {}
    <3>1. Todo(p, Orphans(p), j) /\ Goto(p, "orphan") /\ UNCHANGED journal
      BY <2>5, <1>8 DEF ListOrphans, disk
    <3>2. jm.op = "install"
      BY <1>4, <1>8 DEF ListOrphans
    <3> HIDE DEF j
    <3> QED
      BY <3>1, <3>2, <2>1, <2>2, <2>3, <1>2, TodoShipped DEF Phase
  <2> QED
    BY <2>4, <2>5
<1>9. CASE Announce(p)
  <2>1. Todo(p, {}, At(jm, "publishing_manifest")) /\ Goto(p, "publish")
    BY <1>9 DEF Announce
  <2> QED
    BY <2>1, <1>3, <1>9, TodoShipped DEF Announce, Phase
<1>10. CASE PublishManifest(p)
  BY <1>2, <1>3, <1>10, TodoShipped DEF PublishManifest, Phase
<1>11. CASE UninstallIntent(p)
  <2>1. Journaled(jm) \in SUBSET Path
    BY DEF Journaled
  <2>2. Todo(p, Journaled(jm), At(jm, "committing")) /\ Goto(p, "remove")
    BY <1>11 DEF UninstallIntent
  <2> QED
    BY <2>1, <2>2, <1>3, <1>11, TodoShipped DEF UninstallIntent, Phase
<1> QED
  BY <1>5, <1>6, <1>7, <1>8, <1>9, <1>10, <1>11

LEMMA FlushStepsShipped ==
    ASSUME TypeOK, UninstallInv, NEW p \in Proc,
           \/ WriteJournal(p) \/ WriteComplete(p) \/ WriteCompleteFails(p) \/ WriteStaging(p)
           \/ DropTrees(p) \/ DropTreesFails(p) \/ DropJournal(p) \/ DropJournalFails(p)
           \/ UndoDone(p) \/ Crash(p)
    PROVE  UninstallInv'
<1>1. OriginalsAreShipped(journal)'
  BY FlushShipped DEF WriteJournal, WriteComplete, WriteCompleteFails, WriteStaging,
     DropTrees, DropTreesFails, DropJournal, DropJournalFails, UndoDone, Crash, disk
<1>2. CASE WriteJournal(p)
  BY <1>1, <1>2 DEF WriteJournal, UninstallInv, OriginalsAreShipped
<1>3. CASE WriteComplete(p) \/ WriteCompleteFails(p) \/ WriteStaging(p) \/ DropTrees(p)
  BY <1>1, <1>3, GotoShipped
     DEF WriteComplete, WriteCompleteFails, WriteStaging, DropTrees, Phase
<1>4. CASE DropTreesFails(p)
  <2>1. CASE mem[p].recover
    BY <2>1, <1>1, <1>4, LeaveShipped DEF DropTreesFails
  <2>2. CASE ~mem[p].recover
    BY <2>2, <1>1, <1>4, GotoShipped DEF DropTreesFails, Phase
  <2> QED
    BY <2>1, <2>2
<1>5. CASE DropJournal(p) \/ DropJournalFails(p) \/ Crash(p)
  BY <1>1, <1>5, LeaveShipped DEF DropJournal, DropJournalFails, Crash
<1>6. CASE UndoDone(p)
  <2>1. CASE mem[p].ok
    BY <2>1, <1>1, <1>6, GotoShipped DEF UndoDone, Phase
  <2>2. CASE ~mem[p].ok
    BY <2>2, <1>1, <1>6, LeaveShipped DEF UndoDone
  <2> QED
    BY <2>1, <2>2
<1> QED
  BY <1>2, <1>3, <1>4, <1>5, <1>6

LEMMA FailShipped ==
    ASSUME TypeOK, UninstallInv, NEW p \in Proc, Fail(p)
    PROVE  UninstallInv'
<1> DEFINE jm == mem[p].jm
           m  == [mem[p] EXCEPT !.jm = At(@, "rollback"), !.undone = TRUE,
                                !.todo = Journaled(jm)]
<1>1. /\ jm \in Journal
      /\ OriginalsAreShipped(jm)
      /\ OriginalsAreShipped(journal)
      /\ mem[p] \in Mem
  BY MemType, MemShipped DEF TypeOK
<1>2. CASE Published(manifest, jm)
  <2>1. OriginalsAreShipped(journal)'
    BY <1>1, <1>2 DEF Fail, OriginalsAreShipped
  <2> QED
    BY <2>1, <1>2, LeaveShipped DEF Fail
<1>3. CASE ~Published(manifest, jm)
  <2>1. At(jm, "rollback") \in Journal /\ OriginalsAreShipped(At(jm, "rollback"))
    BY <1>1, AtType, AtShipped
  <2>2. m \in Mem /\ m.jm = At(jm, "rollback")
    BY <2>1, <1>1 DEF Mem, Journaled
  <2>3. mem' = [mem EXCEPT ![p] = m]
    BY <1>3 DEF Fail, Set
  <2>4. OriginalsAreShipped(journal)'
    BY <2>1, <1>1, <1>3 DEF Fail, OriginalsAreShipped
  <2>5. pc'[p] = "undo" /\ \A q \in Proc \ {p} : pc'[q] = pc[q]
    BY <1>3 DEF Fail, Goto, TypeOK
  <2> HIDE DEF m
  <2> QED
    BY <2>1, <2>2, <2>3, <2>4, <2>5, StepShipped
<1> QED
  BY <1>2, <1>3

LEMMA CommandShipped ==
    ASSUME TypeOK, UninstallInv, NEW p \in Proc, Command(p)
    PROVE  UninstallInv'
<1>1. OriginalsAreShipped(journal)'
  BY DEF Command, MakePlan, BeginUninstall, BeginInstall, Start, RefuseInstall,
         ProbeRecover, EnterRecover, RefuseRecover, disk, UninstallInv, OriginalsAreShipped
<1>2. ASSUME NEW c \in Claim, NEW b \in Bundle, NEW force \in Forcing,
             MakePlan(p, c, b, force)
      PROVE  UninstallInv'
  BY <1>1, <1>2, GotoShipped DEF MakePlan, Phase
<1>3. CASE RefuseInstall(p) \/ ProbeRecover(p) \/ RefuseRecover(p)
  BY <1>1, <1>3, GotoShipped DEF RefuseInstall, ProbeRecover, RefuseRecover, Phase
<1>4. ASSUME NEW op \in {"install", "uninstall"}, NEW c \in Claim, NEW ph \in Phase,
             NEW m \in Mem, m.jm = NewJournal("staging", op, {c}, manifest.gen + 1),
             Set(p, m), Goto(p, ph),
             ph \in {"staging", "snapshot", "backup", "commit", "orphan"} => op = "install"
      PROVE  UninstallInv'
  <2>1. manifest.gen + 1 \in Nat
    BY DEF TypeOK, Manifest
  <2>2. OriginalsAreShipped(m.jm)
    BY <2>1, <1>4, NewJournalShipped
  <2>3. m.jm.op = op
    BY <1>4 DEF NewJournal
  <2>4. mem' = [mem EXCEPT ![p] = m]
    BY <1>4 DEF Set
  <2>5. pc'[p] = ph /\ \A q \in Proc \ {p} : pc'[q] = pc[q]
    BY <1>4 DEF Goto, TypeOK
  <2> QED
    BY <2>2, <2>3, <2>4, <2>5, <1>1, <1>4, StepShipped
<1>5. ASSUME NEW c \in Claim, BeginUninstall(p, c)
      PROVE  UninstallInv'
  <2> DEFINE j  == NewJournal("staging", "uninstall", {c}, manifest.gen + 1)
             nx == WithoutClaim(manifest, c)
             td == {f \in SoleOwned(manifest, c) : live[f] = manifest.sha[f]}
             m  == [NoMem EXCEPT !.jm = j, !.next = nx, !.todo = td]
  <2>1. manifest.gen + 1 \in Nat
    BY DEF TypeOK, Manifest
  <2>2. j \in Journal /\ nx \in Manifest /\ td \in SUBSET Path
    BY <2>1, NewJournalType, WithoutClaimType DEF TypeOK, SoleOwned
  <2>3. Set(p, m) /\ Goto(p, "saving")
    BY <1>5 DEF BeginUninstall
  <2>4. m \in Mem /\ m.jm = j
    <3> HIDE DEF j, nx, td
    <3> QED
      BY <2>2, NoMemType DEF Mem
  <2> HIDE DEF m
  <2> QED
    BY <2>3, <2>4, <1>4 DEF Phase
<1>6. CASE BeginInstall(p)
  <2>1. plan[p].bundle \in Bundle /\ plan[p].claims \in SUBSET Claim /\ manifest \in Manifest
    BY DEF TypeOK, Plan
  <2> DEFINE j(c)  == NewJournal("staging", "install", {c}, manifest.gen + 1)
             nx(c) == WithClaim(manifest, c, plan[p].bundle)
             td == Files(plan[p].bundle)
             cp == {f \in Files(plan[p].bundle) : Kind(p, f) = "backup"}
             m(c) == [NoMem EXCEPT !.jm = j(c), !.next = nx(c), !.copies = cp, !.todo = td]
  <2>2. PICK c \in plan[p].claims : Set(p, m(c))
    BY <1>6 DEF BeginInstall, Start
  <2>3. c \in Claim /\ manifest.gen + 1 \in Nat
    BY <2>1 DEF Manifest
  <2>4. j(c) \in Journal /\ nx(c) \in Manifest /\ td \in SUBSET Path /\ cp \in SUBSET Path
    BY <2>1, <2>3, NewJournalType, WithClaimType DEF Files
  <2>5. m(c) \in Mem /\ m(c).jm = j(c)
    <3> HIDE DEF j, nx, td, cp
    <3> QED
      BY <2>4, NoMemType DEF Mem
  <2>6. Goto(p, "staging")
    BY <1>6 DEF BeginInstall, Start
  <2> HIDE DEF m
  <2> QED
    BY <2>2, <2>3, <2>5, <2>6, <1>4 DEF Phase
<1>7. CASE EnterRecover(p)
  <2> DEFINE m == [NoMem EXCEPT !.jm      = journal,
                               !.recover = TRUE,
                               !.undone  = ~Published(manifest, journal),
                               !.todo    = Journaled(journal)]
  <2>1. journal \in Journal /\ Journaled(journal) \in SUBSET Path
    BY DEF TypeOK, Journaled
  <2>2. (~Published(manifest, journal)) \in BOOLEAN
    OBVIOUS
  <2>3. m \in Mem /\ m.jm = journal
    BY <2>1, <2>2, NoMemType DEF Mem
  <2>4. mem' = [mem EXCEPT ![p] = m]
    BY <1>7 DEF EnterRecover, Set
  <2>5. pc'[p] \in {"cleanup", "undo"} /\ \A q \in Proc \ {p} : pc'[q] = pc[q]
    BY <1>7 DEF EnterRecover, Goto, TypeOK
  <2>6. OriginalsAreShipped(m.jm)
    BY <2>3 DEF UninstallInv
  <2> HIDE DEF m
  <2> QED
    BY <2>3, <2>4, <2>5, <2>6, <1>1, StepShipped
<1> QED
  BY <1>2, <1>3, <1>5, <1>6, <1>7 DEF Command

LEMMA UninstallInvStep ==
    ASSUME TypeOK, UninstallInv, [Next]_vars
    PROVE  UninstallInv'
<1>1. ASSUME NEW p \in Proc, Advance(p) PROVE UninstallInv'
  BY <1>1, FileStepsShipped, OwnedStepsShipped, UndoStepsShipped, PhaseStepsShipped,
     FlushStepsShipped DEF Advance
<1>2. ASSUME NEW p \in Proc, Err(p) PROVE UninstallInv'
  BY <1>2, FailShipped, FileStepsShipped, FlushStepsShipped, UndoStepsShipped DEF Err
<1>3. ASSUME NEW p \in Proc, Command(p) PROVE UninstallInv'
  BY <1>3, CommandShipped
<1>4. CASE User
  BY <1>4 DEF User, UserEdit, UninstallInv, OriginalsAreShipped
<1>5. CASE UNCHANGED vars
  BY <1>5 DEF vars, UninstallInv, OriginalsAreShipped
<1> QED
  BY <1>1, <1>2, <1>3, <1>4, <1>5 DEF Next

LEMMA UninstallInvariant == Spec => []UninstallInv
<1>1. Init => UninstallInv
  BY NoJournalShipped DEF Init, UninstallInv
<1> QED
  BY <1>1, UninstallInvStep, TypeCorrect, PTL DEF Spec

(* The process that changes the payload is the lock holder. *)
LEMMA PayloadStep ==
    ASSUME TypeOK, LockDiscipline, UninstallInv, [Next]_vars, ~UserStep,
           lock # Nobody, mem[lock].jm.op = "uninstall",
           NEW f \in Path, live[f] \in UserData
    PROVE  live'[f] = live[f]
<1>1. Absent \notin UserData /\ Digest \cap UserData = {}
  BY ContentAssumption DEF Content
<1>2. ASSUME NEW p \in Proc, NEW g \in Path, RemoveOwned(p, g) PROVE live'[f] = live[f]
  <2>1. lock = p
    BY <1>2 DEF RemoveOwned, LockDiscipline, Locked, Phase
  <2>2. mem[p].jm.paths[g].orig \notin UserData
    BY <2>1 DEF UninstallInv, OriginalsAreShipped
  <2> QED
    BY <2>2, <1>1, <1>2 DEF RemoveOwned, TypeOK
<1>3. ASSUME NEW p \in Proc, NEW g \in Path, UndoFile(p, g) PROVE live'[f] = live[f]
  <2> DEFINE e == mem[p].jm.paths[g]
             r == Restored(mem[p].jm.op, e, live[g], stage[g])
  <2>1. lock = p
    BY <1>3 DEF UndoFile, LockDiscipline, Locked, Phase
  <2>2. e.sha \in Digest \cup {Absent}
    BY MemType, SMTT(30) DEF PathEntry
  <2>3. live[g] \in UserData => r.leaf = live[g]
    BY <2>1, <2>2, <1>1 DEF Restored
  <2>4. live' = [live EXCEPT ![g] = r.leaf]
    BY <1>3 DEF UndoFile
  <2> HIDE DEF r
  <2> QED
    BY <2>3, <2>4 DEF TypeOK
<1>4. ASSUME NEW p \in Proc, NEW g \in Path, CommitFile(p, g) \/ RemoveOrphan(p, g)
      PROVE  FALSE
  <2>1. lock = p
    BY <1>4, SMTT(30) DEF CommitFile, RemoveOrphan, LockDiscipline, Locked, Phase
  <2> QED
    BY <2>1, <1>4 DEF CommitFile, RemoveOrphan, UninstallInv
<1>5. ASSUME NEW p \in Proc, Advance(p) PROVE live'[f] = live[f]
  BY <1>2, <1>3, <1>4, <1>5 DEF Advance, StageFile, SnapshotFile, BackupFile, SaveOwned,
     StagingDone, SnapshotsDone, WriteIntent, WriteJournal, ListOrphans, Announce,
     PublishManifest, WriteComplete, WriteStaging, UninstallIntent, UndoDone, DropTrees,
     DropJournal, disk
<1>6. ASSUME NEW p \in Proc, Err(p) \/ Command(p) PROVE live'[f] = live[f]
  BY <1>6 DEF Err, Fail, WriteCompleteFails, DropTreesFails, DropJournalFails,
     UndoFileFails, RemoveOrphanFails, Crash, Command, MakePlan, BeginUninstall,
     BeginInstall, Start, RefuseInstall, ProbeRecover, EnterRecover, RefuseRecover, disk
<1>7. CASE User
  <2>1. PICK g \in Path, d \in UserData \cup {Absent} : UserEdit(g, d)
    BY <1>7 DEF User
  <2>2. spent.edits \in Nat /\ spent'.edits = spent.edits + 1
    BY <2>1 DEF UserEdit, TypeOK
  <2> QED
    BY <2>2 DEF UserStep
<1>8. CASE UNCHANGED vars
  BY <1>8 DEF vars
<1> QED
  BY <1>5, <1>6, <1>7, <1>8 DEF Next

(* Uninstall never destroys bytes a user wrote: neither its unlinks, nor   *)
(* the rollback of a failed one, nor the recovery of a crashed one.        *)
THEOREM UninstallIsHarmless == Spec => UninstallKeepsUserData
<1>1. TypeOK /\ LockDiscipline /\ UninstallInv /\ [Next]_vars =>
        [(lock # Nobody /\ mem[lock].jm.op = "uninstall" /\ ~UserStep) =>
           \A f \in Path : live[f] \in UserData => live'[f] = live[f]]_vars
  BY PayloadStep
<1> QED
  BY <1>1, TypeCorrect, MutualExclusion, UninstallInvariant, PTL
     DEF Spec, UninstallKeepsUserData

-----------------------------------------------------------------------------
(* The phases of an install and of an uninstall before it publishes, and   *)
(* those before its journal is on disk.                                    *)
Installing == {"staging", "snapshot", "backup", "commit", "orphan"}
Removing   == {"saving", "ready", "remove"}
Working    == Installing \cup Removing \cup {"publish"}
Early      == {"staging", "snapshot", "backup", "saving"}

(* A path is recorded exactly when a claim of the manifest owns it.        *)
ManifestSound(m) ==
    /\ \A f \in Path : m.owner[f] \subseteq m.claims
    /\ \A f \in Path : m.owner[f] = {} <=> m.sha[f] = Absent

(* The command of p: what it was called for and what it will publish.      *)
CallOf(p) ==
    LET j == mem[p].jm IN
    /\ pc[p] \in Installing => j.op = "install"
    /\ pc[p] \in Removing => j.op = "uninstall"
    /\ j.target = manifest.gen + 1
    /\ j.state # "complete"
    /\ \E c \in Claim :
         /\ j.claims = {c}
         /\ \/ /\ j.op = "install"
               /\ Plannable(manifest, c, plan[p].bundle)
               /\ mem[p].next = WithClaim(manifest, c, plan[p].bundle)
            \/ /\ j.op = "uninstall"
               /\ c \in manifest.claims
               /\ mem[p].next = WithoutClaim(manifest, c)

SameCall(j, k) == j.op = k.op /\ j.claims = k.claims /\ j.target = k.target

JournalOf(p) ==
    IF pc[p] \in Early THEN journal = NoJournal
    ELSE SameCall(journal, mem[p].jm) /\ journal.state # "complete"

CallInv ==
    /\ ManifestSound(manifest)
    /\ \A p \in Proc : pc[p] \in Working => CallOf(p) /\ JournalOf(p)

(* Reading what an action writes.                                          *)

LEMMA PutFields ==
    ASSUME NEW j \in Journal, NEW f \in Path, NEW e
    PROVE  /\ SameCall(Put(j, f, e), j)
           /\ Put(j, f, e).state = j.state /\ Put(j, f, e).orphans = j.orphans
           /\ \A g \in Path : Put(j, f, e).paths[g] = IF g = f THEN e ELSE j.paths[g]
BY DEF Put, Journal, SameCall

LEMMA AtFields ==
    ASSUME NEW j \in Journal, NEW st
    PROVE  /\ SameCall(At(j, st), j)
           /\ At(j, st).state = st /\ At(j, st).orphans = j.orphans /\ At(j, st).paths = j.paths
BY DEF At, Journal, SameCall

LEMMA DoneFields ==
    ASSUME TypeOK, NEW p \in Proc, NEW f, NEW j, Done(p, f, j)
    PROVE  /\ mem'[p].jm = j /\ mem'[p].todo = mem[p].todo \ {f}
           /\ mem'[p].next = mem[p].next /\ mem'[p].undone = mem[p].undone
BY DEF TypeOK, Done, Set, Mem

LEMMA TodoFields ==
    ASSUME TypeOK, NEW p \in Proc, NEW fs, NEW j, Todo(p, fs, j)
    PROVE  /\ mem'[p].jm = j /\ mem'[p].todo = fs
           /\ mem'[p].next = mem[p].next /\ mem'[p].undone = mem[p].undone
BY DEF TypeOK, Todo, Set, Mem

-----------------------------------------------------------------------------
(* Who holds the lock works alone.                                         *)

LEMMA HoldersStep ==
    ASSUME NEW p \in Proc, Advance(p) \/ Err(p)
    PROVE  pc[p] \in Locked
<1>1. ASSUME NEW f \in Path,
             \/ StageFile(p, f) \/ SnapshotFile(p, f) \/ BackupFile(p, f)
             \/ CommitFile(p, f) \/ RemoveOrphan(p, f)
             \/ SaveOwned(p, f) \/ RemoveOwned(p, f) \/ UndoFile(p, f)
      PROVE  pc[p] \in Locked
  BY <1>1 DEF StageFile, SnapshotFile, BackupFile, CommitFile, RemoveOrphan,
              SaveOwned, RemoveOwned, UndoFile, Locked, Phase
<1>2. ASSUME \/ StagingDone(p) \/ SnapshotsDone(p) \/ WriteIntent(p) \/ ListOrphans(p)
             \/ Announce(p) \/ PublishManifest(p) \/ WriteComplete(p) \/ WriteJournal(p)
             \/ WriteStaging(p) \/ UninstallIntent(p) \/ DropTrees(p)
             \/ UndoDone(p) \/ DropJournal(p)
      PROVE  pc[p] \in Locked
  BY <1>2, SMTT(30) DEF StagingDone, SnapshotsDone, WriteIntent, ListOrphans, Announce, WriteJournal,
              PublishManifest, WriteComplete, WriteStaging, UninstallIntent, DropTrees,
              UndoDone, DropJournal, Locked, Phase
<1>3. ASSUME \/ Fail(p) \/ WriteCompleteFails(p) \/ DropTreesFails(p) \/ DropJournalFails(p)
             \/ (\E f \in Path : UndoFileFails(p, f) \/ RemoveOrphanFails(p, f)) \/ Crash(p)
      PROVE  pc[p] \in Locked
  BY <1>3 DEF Fail, WriteCompleteFails, DropTreesFails, DropJournalFails, UndoFileFails,
              RemoveOrphanFails, Crash, Locked, Phase
<1> QED
  BY <1>1, <1>2, <1>3, SMTT(30) DEF Advance, Err

(* A command takes the lock when it is free, or waits and changes nothing  *)
(* but its own plan.                                                       *)
Takes(p) ==
    \/ BeginInstall(p) \/ EnterRecover(p)
    \/ \E c \in Claim : BeginUninstall(p, c)

Waits(p) ==
    /\ pc[p] \notin Locked /\ pc'[p] \notin Locked
    /\ UNCHANGED <<disk, lock, mem>>
    /\ \A q \in Proc \ {p} : pc'[q] = pc[q] /\ plan'[q] = plan[q]

LEMMA CommandTakesOrWaits ==
    ASSUME TypeOK, NEW p \in Proc, Command(p)
    PROVE  Takes(p) \/ Waits(p)
<1>1. pc \in [Proc -> Phase] /\ plan \in [Proc -> Plan]
  BY DEF TypeOK
<1>2. ASSUME NEW c \in Claim, NEW b \in Bundle, NEW force \in Forcing, MakePlan(p, c, b, force)
      PROVE  Waits(p)
  BY <1>1, <1>2 DEF MakePlan, Waits, Goto, Locked
<1>3. CASE RefuseInstall(p)
  BY <1>1, <1>3 DEF RefuseInstall, Waits, Goto, Locked
<1>4. CASE ProbeRecover(p)
  BY <1>1, <1>4 DEF ProbeRecover, Waits, Goto, Locked
<1>5. CASE RefuseRecover(p)
  BY <1>1, <1>5 DEF RefuseRecover, Waits, Goto, Locked
<1> QED
  BY <1>2, <1>3, <1>4, <1>5 DEF Command, Takes

(* After a step of the lock's holder nobody else is in a locked phase.     *)
LEMMA HolderIsAlone ==
    ASSUME TypeOK, LockDiscipline, LockDiscipline', NEW p \in Proc,
           Advance(p) \/ Err(p) \/ Takes(p)
    PROVE  \A q \in Proc \ {p} : pc'[q] \notin Locked
<1>1. lock' \in {p, Nobody}
  <2>1. CASE Takes(p)
    BY <2>1 DEF Takes, BeginInstall, Start, EnterRecover, BeginUninstall
  <2>2. CASE Advance(p) \/ Err(p)
    <3>1. lock = p
      BY <2>2, HoldersStep DEF LockDiscipline
    <3>2. Moves(p)
      BY <2>2, AdvanceMoves, ErrMoves
    <3> QED
      BY <3>1, <3>2 DEF Moves
  <2> QED
    BY <2>1, <2>2, SMTT(30)
<1> QED
  BY <1>1, BoundAssumption DEF LockDiscipline

-----------------------------------------------------------------------------
(* Manifests.                                                              *)

LEMMA NoManifestSound == ManifestSound(NoManifest)
BY DEF ManifestSound, NoManifest

LEMMA WithClaimSound ==
    ASSUME NEW m \in Manifest, ManifestSound(m), NEW c \in Claim, NEW b \in Bundle
    PROVE  ManifestSound(WithClaim(m, c, b))
<1> DEFINE w == WithClaim(m, c, b)
<1>1. /\ w.claims = m.claims \cup {c}
      /\ \A f \in Path : w.owner[f] = IF f \in Files(b) THEN m.owner[f] \cup {c} ELSE m.owner[f] \ {c}
      /\ \A f \in Path : w.sha[f] = IF f \in Files(b) THEN b.files[f]
                                    ELSE IF w.owner[f] # {} THEN m.sha[f] ELSE Absent
  BY DEF WithClaim
<1>2. \A f \in Files(b) : b.files[f] # Absent
  BY DEF Files
<1>3. \A f \in Path : m.owner[f] \subseteq m.claims /\ (m.owner[f] = {} <=> m.sha[f] = Absent)
  BY DEF ManifestSound
<1> HIDE DEF w
<1>4. \A f \in Path : w.owner[f] \subseteq w.claims
  BY <1>1, <1>3
<1>5. \A f \in Path : w.owner[f] = {} <=> w.sha[f] = Absent
  <2> TAKE f \in Path
  <2>1. CASE f \in Files(b)
    BY <1>1, <1>2, <2>1
  <2>2. CASE f \notin Files(b)
    <3>1. w.owner[f] # {} => m.owner[f] # {}
      BY <1>1, <2>2
    <3> QED
      BY <1>1, <1>3, <2>2, <3>1
  <2> QED
    BY <2>1, <2>2
<1> QED
  BY <1>4, <1>5 DEF ManifestSound, w

LEMMA WithoutClaimSound ==
    ASSUME NEW m \in Manifest, ManifestSound(m), NEW c \in Claim
    PROVE  ManifestSound(WithoutClaim(m, c))
<1> DEFINE w == WithoutClaim(m, c)
<1>1. CASE m.claims = {c}
  BY <1>1, NoManifestSound DEF WithoutClaim
<1>2. CASE m.claims # {c}
  <2>1. /\ w.claims = m.claims \ {c}
        /\ \A f \in Path : w.owner[f] = m.owner[f] \ {c}
        /\ \A f \in Path : w.sha[f] = IF w.owner[f] # {} THEN m.sha[f] ELSE Absent
    BY <1>2 DEF WithoutClaim
  <2>2. \A f \in Path : m.owner[f] \subseteq m.claims /\ (m.owner[f] = {} <=> m.sha[f] = Absent)
    BY DEF ManifestSound
  <2> HIDE DEF w
  <2>3. ManifestSound(w)
    BY <2>1, <2>2 DEF ManifestSound
  <2> QED
    BY <2>3 DEF w
<1> QED
  BY <1>1, <1>2

(* A claim's install and uninstall leave every other claim what it has.    *)
Spares(m, n, c) ==
    \A d \in Claim \ {c} :
        /\ d \in m.claims <=> d \in n.claims
        /\ \A f \in Path : /\ d \in m.owner[f] <=> d \in n.owner[f]
                           /\ d \in m.owner[f] => n.sha[f] = m.sha[f]

LEMMA WithClaimSpares ==
    ASSUME NEW m \in Manifest, NEW c \in Claim, NEW b \in Bundle, Plannable(m, c, b)
    PROVE  Spares(m, WithClaim(m, c, b), c)
<1> DEFINE w == WithClaim(m, c, b)
<1>1. /\ w.claims = m.claims \cup {c}
      /\ \A f \in Path : w.owner[f] = IF f \in Files(b) THEN m.owner[f] \cup {c} ELSE m.owner[f] \ {c}
      /\ \A f \in Path : w.sha[f] = IF f \in Files(b) THEN b.files[f]
                                    ELSE IF w.owner[f] # {} THEN m.sha[f] ELSE Absent
  BY DEF WithClaim
<1>2. \A f \in Files(b) : m.owner[f] \ {c} # {} => m.sha[f] = b.files[f]
  BY DEF Plannable
<1> HIDE DEF w
<1>3. ASSUME NEW d \in Claim \ {c}, NEW f \in Path
      PROVE  /\ d \in m.owner[f] <=> d \in w.owner[f]
             /\ d \in m.owner[f] => w.sha[f] = m.sha[f]
  <2>1. d \in m.owner[f] <=> d \in w.owner[f]
    BY <1>1
  <2>2. d \in m.owner[f] => m.owner[f] \ {c} # {} /\ w.owner[f] # {}
    BY <2>1
  <2> QED
    BY <1>1, <1>2, <2>1, <2>2
<1>4. Spares(m, w, c)
  BY <1>1, <1>3 DEF Spares
<1> QED
  BY <1>4 DEF w

LEMMA WithoutClaimSpares ==
    ASSUME NEW m \in Manifest, ManifestSound(m), NEW c \in Claim
    PROVE  Spares(m, WithoutClaim(m, c), c)
<1> DEFINE w == WithoutClaim(m, c)
<1>1. CASE m.claims = {c}
  <2>1. w.claims = {} /\ \A f \in Path : w.owner[f] = {}
    BY <1>1 DEF WithoutClaim, NoManifest
  <2>2. \A d \in Claim \ {c} : d \notin m.claims /\ \A f \in Path : d \notin m.owner[f]
    BY <1>1 DEF ManifestSound
  <2> QED
    BY <2>1, <2>2 DEF Spares
<1>2. CASE m.claims # {c}
  <2>1. /\ w.claims = m.claims \ {c}
        /\ \A f \in Path : w.owner[f] = m.owner[f] \ {c}
        /\ \A f \in Path : w.sha[f] = IF w.owner[f] # {} THEN m.sha[f] ELSE Absent
    BY <1>2 DEF WithoutClaim
  <2> HIDE DEF w
  <2>2. Spares(m, w, c)
    BY <2>1 DEF Spares
  <2> QED
    BY <2>2 DEF w
<1> QED
  BY <1>1, <1>2

-----------------------------------------------------------------------------
(* The command that holds the lock, step by step.                          *)

LEMMA CallKept ==
    ASSUME CallInv, NEW p \in Proc, pc[p] \in Working,
           UNCHANGED <<manifest, plan>>, mem'[p].next = mem[p].next,
           SameCall(mem'[p].jm, mem[p].jm), mem'[p].jm.state # "complete",
           pc'[p] \in Installing => pc[p] \in Installing,
           pc'[p] \in Removing => pc[p] \in Removing,
           JournalOf(p)',
           \A q \in Proc \ {p} : pc'[q] \notin Working
    PROVE  CallInv'
<1>1. CallOf(p)
  BY DEF CallInv
<1>2. CallOf(p)'
  BY <1>1 DEF CallOf, SameCall
<1> QED
  BY <1>2 DEF CallInv

LEMMA WorkingIsLocked == Working \subseteq Locked
BY DEF Working, Installing, Removing, Locked, Phase

(* Outside the phases that commit only the lock's free state matters.      *)
LEMMA CallOver ==
    ASSUME CallInv, UNCHANGED manifest, \A q \in Proc : pc'[q] \notin Working
    PROVE  CallInv'
BY DEF CallInv

LEMMA FileStepKeepsCall ==
    ASSUME TypeOK, CallInv, NEW p \in Proc, \A q \in Proc \ {p} : pc'[q] \notin Working,
           NEW f \in Path,
           \/ StageFile(p, f) \/ SnapshotFile(p, f) \/ BackupFile(p, f)
           \/ CommitFile(p, f) \/ RemoveOrphan(p, f) \/ RemoveOrphanFails(p, f)
           \/ SaveOwned(p, f) \/ RemoveOwned(p, f)
    PROVE  CallInv'
<1>1. UNCHANGED <<manifest, journal, plan, pc>> /\ pc[p] \in Working
  BY DEF StageFile, SnapshotFile, BackupFile, CommitFile, RemoveOrphan, RemoveOrphanFails,
         SaveOwned, RemoveOwned, disk, Working, Installing, Removing
<1>2. PICK j : /\ Done(p, f, j)
               /\ \/ j = mem[p].jm
                  \/ \E e : j = Put(mem[p].jm, f, e)
                  \/ \E o : j = [mem[p].jm EXCEPT !.orphans = o]
  <2>1. CASE SnapshotFile(p, f)
    BY <2>1, Zenon DEF SnapshotFile
  <2>2. CASE SaveOwned(p, f)
    BY <2>2, Zenon DEF SaveOwned
  <2>3. CASE StageFile(p, f) \/ BackupFile(p, f) \/ CommitFile(p, f) \/ RemoveOwned(p, f)
    BY <2>3, Zenon DEF StageFile, BackupFile, CommitFile, RemoveOwned
  <2>4. CASE RemoveOrphan(p, f)
    <3> DEFINE o == [mem[p].jm.orphans EXCEPT ![f] = IF live[f] = manifest.sha[f] THEN "removed" ELSE "skipped"]
    <3>1. Done(p, f, [mem[p].jm EXCEPT !.orphans = o])
      BY <2>4 DEF RemoveOrphan
    <3> QED
      BY <3>1, Zenon
  <2>5. CASE RemoveOrphanFails(p, f)
    <3> DEFINE o == [mem[p].jm.orphans EXCEPT ![f] = "skipped"]
    <3>1. Done(p, f, [mem[p].jm EXCEPT !.orphans = o])
      BY <2>5 DEF RemoveOrphanFails
    <3> QED
      BY <3>1, Zenon
  <2> QED
    BY <2>1, <2>2, <2>3, <2>4, <2>5
<1>3. SameCall(j, mem[p].jm) /\ j.state = mem[p].jm.state
  <2>1. mem[p].jm \in Journal
    BY MemType
  <2>2. ASSUME NEW o, j = [mem[p].jm EXCEPT !.orphans = o]
        PROVE  SameCall(j, mem[p].jm) /\ j.state = mem[p].jm.state
    BY <2>1, <2>2 DEF Journal, SameCall
  <2> QED
    BY <1>2, <2>1, <2>2, PutFields DEF SameCall
<1>4. mem'[p].jm = j /\ mem'[p].next = mem[p].next
  BY <1>2, DoneFields
<1>5. CallOf(p) /\ JournalOf(p)
  BY <1>1 DEF CallInv
<1>6. JournalOf(p)'
  BY <1>1, <1>3, <1>4, <1>5 DEF JournalOf, SameCall
<1>7. mem'[p].jm.state # "complete"
  BY <1>3, <1>4, <1>5 DEF CallOf
<1> QED
  BY <1>1, <1>3, <1>4, <1>6, <1>7, CallKept, SMTT(30)

LEMMA PhaseStepKeepsCall ==
    ASSUME TypeOK, CallInv, NEW p \in Proc, \A q \in Proc \ {p} : pc'[q] \notin Working,
           \/ StagingDone(p) \/ SnapshotsDone(p) \/ WriteIntent(p) \/ ListOrphans(p)
           \/ Announce(p) \/ UninstallIntent(p) \/ WriteJournal(p) \/ WriteStaging(p)
    PROVE  CallInv'
<1> DEFINE jm == mem[p].jm
<1>0. jm \in Journal /\ pc \in [Proc -> Phase]
  BY MemType DEF TypeOK
<1>1. pc[p] \in Working /\ UNCHANGED <<manifest, plan>>
  BY DEF StagingDone, SnapshotsDone, WriteIntent, ListOrphans, Announce, UninstallIntent,
         WriteJournal, WriteStaging, disk, Working, Installing, Removing
<1>2. CallOf(p) /\ JournalOf(p)
  BY <1>1 DEF CallInv
<1>3. CASE StagingDone(p) \/ SnapshotsDone(p)
  <2>1. \E fs : Todo(p, fs, jm)
    BY <1>3 DEF StagingDone, SnapshotsDone
  <2>2. mem'[p].jm = jm /\ mem'[p].next = mem[p].next
    BY <2>1, TodoFields
  <2>3. pc[p] \in {"staging", "snapshot"} /\ pc'[p] \in {"snapshot", "backup"} /\ journal' = journal
    BY <1>0, <1>3 DEF StagingDone, SnapshotsDone, Goto, disk
  <2>4. JournalOf(p)'
    BY <1>2, <2>2, <2>3 DEF JournalOf, Early
  <2> QED
    BY <1>1, <1>2, <2>2, <2>3, <2>4, CallKept DEF SameCall, CallOf, Installing, Removing
<1>4. CASE WriteIntent(p) \/ UninstallIntent(p) \/ Announce(p)
  <2>1. /\ \/ journal' = At(jm, "committing")
           \/ journal' = At(jm, "publishing_manifest")
        /\ \E fs : Todo(p, fs, journal')
    BY <1>4 DEF WriteIntent, UninstallIntent, Announce
  <2>2. mem'[p].jm = journal' /\ mem'[p].next = mem[p].next
    BY <2>1, TodoFields
  <2>3. /\ pc'[p] \in {"commit", "remove", "publish"}
        /\ pc'[p] = "commit" => pc[p] = "backup"
        /\ pc'[p] = "remove" => pc[p] = "ready"
    BY <1>0, <1>4 DEF WriteIntent, UninstallIntent, Announce, Goto
  <2>4. SameCall(journal', jm) /\ journal'.state # "complete"
    BY <1>0, <2>1, AtFields
  <2>5. JournalOf(p)'
    BY <2>2, <2>3, <2>4 DEF JournalOf, SameCall, Early
  <2> QED
    BY <1>1, <2>2, <2>3, <2>4, <2>5, CallKept DEF Installing, Removing
<1>5. CASE ListOrphans(p)
  <2>1. mem'[p].next = mem[p].next /\ SameCall(mem'[p].jm, jm) /\ mem'[p].jm.state # "complete"
    <3>1. CASE Orphans(p) = {}
      BY <1>2, <1>5, <3>1 DEF ListOrphans, SameCall, CallOf
    <3>2. CASE Orphans(p) # {}
      <4> DEFINE o == [f \in Path |-> IF f \in Orphans(p) THEN "pending" ELSE "none"]
                 j == [At(jm, "orphaning") EXCEPT !.orphans = o]
      <4>1. Todo(p, Orphans(p), j)
        BY <1>5, <3>2 DEF ListOrphans
      <4>2. mem'[p].jm = j /\ mem'[p].next = mem[p].next
        BY <4>1, TodoFields
      <4>3. At(jm, "orphaning") \in Journal
        BY <1>0, AtType
      <4>4. SameCall(j, jm) /\ j.state = "orphaning"
        <5> HIDE DEF o
        <5>1. SameCall(j, At(jm, "orphaning")) /\ j.state = At(jm, "orphaning").state
          BY <4>3 DEF Journal, SameCall
        <5> QED
          BY <1>0, <5>1, AtFields DEF SameCall
      <4> QED
        BY <4>2, <4>4
    <3> QED
      BY <3>1, <3>2
  <2>2. pc[p] = "commit" /\ pc'[p] = "orphan" /\ journal' = journal
    BY <1>0, <1>5 DEF ListOrphans, Goto, disk
  <2>3. JournalOf(p)'
    BY <1>2, <2>1, <2>2 DEF JournalOf, SameCall, Early
  <2> QED
    BY <1>1, <2>1, <2>2, <2>3, CallKept DEF Installing, Removing
<1>6. CASE WriteJournal(p) \/ WriteStaging(p)
  <2>1. /\ journal' = jm /\ mem' = mem
        /\ \/ pc[p] \in {"commit", "orphan", "remove"} /\ pc' = pc
           \/ pc[p] = "saving" /\ pc'[p] = "ready"
    BY <1>0, <1>6 DEF WriteJournal, WriteStaging, Goto
  <2>2. JournalOf(p)'
    BY <1>2, <2>1 DEF JournalOf, SameCall, Early, CallOf
  <2> QED
    BY <1>1, <1>2, <2>1, <2>2, CallKept DEF SameCall, CallOf, Installing, Removing
<1> QED
  BY <1>3, <1>4, <1>5, <1>6

LEMMA EndingKeepsCall ==
    ASSUME TypeOK, CallInv, NEW p \in Proc, \A q \in Proc \ {p} : pc'[q] \notin Working,
           \/ WriteComplete(p) \/ DropTrees(p) \/ DropJournal(p) \/ UndoDone(p)
           \/ Fail(p) \/ WriteCompleteFails(p) \/ DropTreesFails(p) \/ DropJournalFails(p)
           \/ (\E f \in Path : UndoFile(p, f) \/ UndoFileFails(p, f)) \/ Crash(p)
           \/ EnterRecover(p)
    PROVE  CallInv'
<1>1. pc \in [Proc -> Phase]
  BY DEF TypeOK
<1>2. CASE \/ WriteComplete(p) \/ DropTrees(p) \/ DropJournal(p) \/ UndoDone(p)
           \/ Fail(p) \/ WriteCompleteFails(p)
  BY <1>1, <1>2, CallOver
     DEF WriteComplete, DropTrees, DropJournal, UndoDone, Fail, WriteCompleteFails,
         Leave, Goto, disk, Working, Installing, Removing
<1>3. CASE \/ DropTreesFails(p) \/ DropJournalFails(p) \/ Crash(p) \/ EnterRecover(p)
  BY <1>1, <1>3, CallOver, SMTT(30)
     DEF DropTreesFails, DropJournalFails, Crash, EnterRecover, Leave, Goto, disk,
         Working, Installing, Removing
<1>4. CASE \E f \in Path : UndoFile(p, f) \/ UndoFileFails(p, f)
  BY <1>1, <1>4, CallOver
     DEF UndoFile, UndoFileFails, disk, Working, Installing, Removing
<1> QED
  BY <1>2, <1>3, <1>4

(* What a command publishes is a sound manifest that differs from the one  *)
(* on disk by what its own claim owns.                                     *)
LEMMA NextIsSound ==
    ASSUME TypeOK, CallInv, NEW p \in Proc, pc[p] \in Working
    PROVE  /\ ManifestSound(mem[p].next)
           /\ \E c \in Claim : Spares(manifest, mem[p].next, c)
           /\ mem[p].next.gen \in {0, mem[p].jm.target}
           /\ mem[p].jm.target = manifest.gen + 1
<1>1. manifest \in Manifest /\ plan[p].bundle \in Bundle
  BY DEF TypeOK, Plan
<1>2. CallOf(p) /\ ManifestSound(manifest)
  BY DEF CallInv
<1>3. PICK c \in Claim :
         \/ /\ Plannable(manifest, c, plan[p].bundle)
            /\ mem[p].next = WithClaim(manifest, c, plan[p].bundle)
         \/ /\ c \in manifest.claims
            /\ mem[p].next = WithoutClaim(manifest, c)
  BY <1>2 DEF CallOf
<1>4. mem[p].next.gen \in {0, manifest.gen + 1}
  BY <1>3 DEF WithClaim, WithoutClaim, NoManifest
<1> QED
  BY <1>1, <1>2, <1>3, <1>4, WithClaimSound, WithoutClaimSound, WithClaimSpares,
     WithoutClaimSpares DEF CallOf

LEMMA PublishKeepsCall ==
    ASSUME TypeOK, CallInv, NEW p \in Proc, \A q \in Proc \ {p} : pc'[q] \notin Working,
           PublishManifest(p)
    PROVE  CallInv'
<1>1. pc[p] \in Working /\ manifest' = mem[p].next
  BY DEF PublishManifest, Working
<1>2. pc'[p] \notin Working
  BY DEF PublishManifest, Goto, TypeOK, Working, Installing, Removing
<1>3. ManifestSound(mem[p].next)
  BY <1>1, NextIsSound
<1>4. ManifestSound(manifest)'
  BY <1>1, <1>3 DEF ManifestSound
<1> QED
  BY <1>2, <1>4 DEF CallInv

LEMMA BeginKeepsCall ==
    ASSUME TypeOK, CallInv, NEW p \in Proc, \A q \in Proc \ {p} : pc'[q] \notin Working,
           BeginInstall(p) \/ \E c \in Claim : BeginUninstall(p, c)
    PROVE  CallInv'
<1>0. pc \in [Proc -> Phase] /\ mem \in [Proc -> Mem] /\ plan[p].claims \subseteq Claim
  BY DEF TypeOK, Plan
<1>1. CASE BeginInstall(p)
  <2>1. PlanHolds(p) /\ Start(p, manifest)
    BY <1>1 DEF BeginInstall
  <2>2. UNCHANGED <<manifest, journal, plan>> /\ pc'[p] = "staging" /\ journal = NoJournal
    BY <1>0, <2>1 DEF Start, Goto, PlanHolds
  <2>3. PICK c \in plan[p].claims :
            /\ mem'[p].jm = NewJournal("staging", "install", {c}, manifest.gen + 1)
            /\ mem'[p].next = WithClaim(manifest, c, plan[p].bundle)
    BY <1>0, <2>1 DEF Start, Set, NoMem
  <2>4. Plannable(manifest, c, plan[p].bundle)
    BY <2>1 DEF PlanHolds
  <2>5. CallOf(p)'
    BY <1>0, <2>2, <2>3, <2>4 DEF CallOf, NewJournal, Installing, Removing
  <2>6. JournalOf(p)'
    BY <2>2 DEF JournalOf, Early
  <2> QED
    BY <2>2, <2>5, <2>6 DEF CallInv
<1>2. ASSUME NEW c \in Claim, BeginUninstall(p, c)
      PROVE  CallInv'
  <2>1. UNCHANGED <<manifest, journal, plan>> /\ pc'[p] = "saving" /\ journal = NoJournal
    BY <1>0, <1>2 DEF BeginUninstall, Goto
  <2>2. /\ mem'[p].jm = NewJournal("staging", "uninstall", {c}, manifest.gen + 1)
        /\ mem'[p].next = WithoutClaim(manifest, c)
        /\ c \in manifest.claims
    BY <1>0, <1>2 DEF BeginUninstall, Set, NoMem
  <2>3. CallOf(p)'
    BY <2>1, <2>2 DEF CallOf, NewJournal, Installing, Removing
  <2>4. JournalOf(p)'
    BY <2>1 DEF JournalOf, Early
  <2> QED
    BY <2>1, <2>3, <2>4 DEF CallInv
<1> QED
  BY <1>1, <1>2

(* Nobody commits when nothing but waiting processes moves.                *)
LEMMA WaitingKeepsCall ==
    ASSUME CallInv, UNCHANGED <<manifest, journal>>,
           \A q \in Proc : \/ pc'[q] \notin Working
                           \/ pc'[q] = pc[q] /\ plan'[q] = plan[q] /\ mem'[q] = mem[q]
    PROVE  CallInv'
<1>1. ManifestSound(manifest)'
  BY DEF CallInv, ManifestSound
<1>2. ASSUME NEW q \in Proc, pc'[q] \in Working
      PROVE  CallOf(q)' /\ JournalOf(q)'
  <2>1. pc'[q] = pc[q] /\ plan'[q] = plan[q] /\ mem'[q] = mem[q]
    BY <1>2
  <2>2. CallOf(q) /\ JournalOf(q)
    BY <1>2, <2>1 DEF CallInv
  <2> QED
    BY <2>1, <2>2 DEF CallOf, JournalOf
<1> QED
  BY <1>1, <1>2 DEF CallInv

LEMMA CallStep ==
    ASSUME TypeOK, LockDiscipline, LockDiscipline', CallInv, [Next]_vars
    PROVE  CallInv'
<1>1. ASSUME NEW p \in Proc, Advance(p) \/ Err(p) \/ Takes(p)
      PROVE  CallInv'
  <2>1. \A q \in Proc \ {p} : pc'[q] \notin Working
    BY <1>1, HolderIsAlone, WorkingIsLocked
  <2> QED
    BY <1>1, <2>1, FileStepKeepsCall, PhaseStepKeepsCall, EndingKeepsCall, PublishKeepsCall,
       BeginKeepsCall DEF Advance, Err, Takes
<1>2. ASSUME NEW p \in Proc, Waits(p)
      PROVE  CallInv'
  BY <1>2, WorkingIsLocked, WaitingKeepsCall DEF Waits, disk
<1>3. CASE User
  BY <1>3, WaitingKeepsCall DEF User, UserEdit
<1>4. CASE UNCHANGED vars
  BY <1>4, WaitingKeepsCall DEF vars
<1> QED
  BY <1>1, <1>2, <1>3, <1>4, CommandTakesOrWaits DEF Next

LEMMA CallInvariant == Spec => []CallInv
<1>1. Init => CallInv
  BY NoManifestSound DEF Init, CallInv, Working, Installing, Removing
<1>2. TypeOK /\ LockDiscipline /\ LockDiscipline' /\ CallInv /\ [Next]_vars => CallInv'
  BY CallStep
<1> QED
  BY <1>1, <1>2, TypeCorrect, MutualExclusion, PTL DEF Spec

(* While a command commits or removes files, the journal on disk is its    *)
(* own and was written for the generation after the one on disk.           *)
THEOREM JournalBelongsToCommand == Spec => []JournalIsCurrent
<1>1. TypeOK /\ CallInv => JournalIsCurrent
  <2> SUFFICES ASSUME TypeOK, CallInv, NEW p \in Proc,
                      pc[p] \in {"commit", "orphan", "remove", "publish"}
               PROVE  /\ SameCall(journal, mem[p].jm)
                      /\ mem[p].jm.target = manifest.gen + 1
                      /\ mem[p].next.gen \in {0, mem[p].jm.target}
    BY DEF JournalIsCurrent, SameCall
  <2>1. pc[p] \in Working /\ pc[p] \notin Early
    BY DEF Working, Installing, Removing, Early
  <2>2. SameCall(journal, mem[p].jm)
    BY <2>1 DEF CallInv, JournalOf
  <2> QED
    BY <2>1, <2>2, NextIsSound
<1> QED
  BY <1>1, TypeCorrect, CallInvariant, PTL

-----------------------------------------------------------------------------
(* Only a publish changes the manifest.                                    *)

LEMMA OnlyPublishMoves ==
    ASSUME TypeOK, [Next]_vars, manifest' # manifest
    PROVE  \E p \in Proc : PublishManifest(p)
<1>1. ASSUME NEW p \in Proc, NEW f \in Path,
             \/ StageFile(p, f) \/ SnapshotFile(p, f) \/ BackupFile(p, f)
             \/ CommitFile(p, f) \/ RemoveOrphan(p, f)
             \/ SaveOwned(p, f) \/ RemoveOwned(p, f) \/ UndoFile(p, f) \/ UndoFileFails(p, f)
             \/ RemoveOrphanFails(p, f)
      PROVE  FALSE
  BY <1>1 DEF StageFile, SnapshotFile, BackupFile, CommitFile, RemoveOrphan,
              RemoveOrphanFails, SaveOwned, RemoveOwned, UndoFile, UndoFileFails, disk
<1>2. ASSUME NEW p \in Proc,
             \/ StagingDone(p) \/ SnapshotsDone(p) \/ WriteIntent(p) \/ ListOrphans(p)
             \/ Announce(p) \/ WriteComplete(p) \/ WriteJournal(p)
             \/ WriteStaging(p) \/ UninstallIntent(p) \/ DropTrees(p)
             \/ UndoDone(p) \/ DropJournal(p)
      PROVE  FALSE
  BY <1>2 DEF StagingDone, SnapshotsDone, WriteIntent, ListOrphans, Announce, WriteJournal,
              WriteComplete, WriteStaging, UninstallIntent, DropTrees,
              UndoDone, DropJournal, disk
<1>3. ASSUME NEW p \in Proc,
             \/ Fail(p) \/ WriteCompleteFails(p) \/ DropTreesFails(p) \/ DropJournalFails(p)
             \/ Crash(p)
      PROVE  FALSE
  BY <1>3 DEF Fail, WriteCompleteFails, DropTreesFails, DropJournalFails, Crash, disk
<1>4. ASSUME NEW p \in Proc, Takes(p) \/ Waits(p)
      PROVE  FALSE
  BY <1>4 DEF Takes, Waits, BeginInstall, Start, EnterRecover, BeginUninstall, disk
<1>5. ~User /\ ~UNCHANGED vars
  BY DEF User, UserEdit, vars
<1> QED
  BY <1>1, <1>2, <1>3, <1>4, <1>5, CommandTakesOrWaits, SMTT(30) DEF Next, Advance, Err

(* Whatever an install or uninstall publishes, every claim but its own     *)
(* keeps its files at the digests it recorded: a plan made before the lock *)
(* was taken never undoes what another command published since.            *)
THEOREM NoClaimIsLost == Spec => NoLostClaim
<1> DEFINE A == manifest' # manifest => \E c \in Claim : Spares(manifest, manifest', c)
<1>1. TypeOK /\ CallInv /\ [Next]_vars => [A]_vars
  <2> SUFFICES ASSUME TypeOK, CallInv, [Next]_vars, manifest' # manifest
               PROVE  \E c \in Claim : Spares(manifest, manifest', c)
    OBVIOUS
  <2>1. PICK p \in Proc : PublishManifest(p)
    BY OnlyPublishMoves
  <2>2. pc[p] \in Working /\ manifest' = mem[p].next
    BY <2>1 DEF PublishManifest, Working
  <2> QED
    BY <2>2, NextIsSound
<1>2. Spec => [][A]_vars
  BY <1>1, TypeCorrect, CallInvariant, PTL DEF Spec
<1> QED
  BY <1>2 DEF NoLostClaim, Spares

-----------------------------------------------------------------------------
(* Roots nobody edits.  Errors before the snapshots are complete make the  *)
(* rollback delete installed files, and orphans once removed are not put   *)
(* back: both are findings, and what follows leaves these moments out (the *)
(* second only where a bundle can drop a file of another).                 *)

SameFiles == \A b, d \in Bundle : Files(b) = Files(d)

QuietRoot ==
    /\ MaxEdits = 0
    /\ FaultPhase \cap {"staging", "snapshot"} = {}
    /\ SameFiles \/ (FaultPhase \cup CrashPhase) \cap {"orphan", "publish"} = {}

(* The entry e of a file can be undone, from what the path and the stage   *)
(* hold now.                                                               *)
Undoable(op, e, cur, snap) ==
    /\ e.existed <=> e.orig # Absent
    /\ e.saved = IF e.existed THEN "rollback" ELSE "none"
    /\ snap \in {e.orig, Absent}
    /\ e.existed => e.orig \in {cur, snap}
    /\ cur \in {e.orig, e.sha, Absent}
    /\ e.st = "retained" => e.existed /\ cur = e.orig
    /\ op = "uninstall" => e.existed /\ e.sha = e.orig

CanUndo(j) ==
    \A f \in Path : j.paths[f].st # "none" => Undoable(j.op, j.paths[f], live[f], stage[f])

(* What the path held before the transaction of j.                         *)
Before(j, f) ==
    IF j.orphans[f] \in {"pending", "removed"} THEN manifest.sha[f]
    ELSE IF j.paths[f].st = "none" THEN live[f]
    ELSE j.paths[f].orig

NoOrphans(j) == \A f \in Path : j.orphans[f] = "none"

(* The generation of j is not on disk.                                     *)
Unpublished(j) ==
    /\ j.state # "complete"
    /\ j.target = manifest.gen + 1
    /\ j.op = "uninstall" => manifest # NoManifest

(* The payload the root stands for, and that it is what the manifest says. *)
Stands(f) == IF Unpublished(journal) THEN Before(journal, f) ELSE live[f]

Recorded == \A f \in Owned(manifest) : Stands(f) = manifest.sha[f]

JournalUsable ==
    IF Unpublished(journal) THEN CanUndo(journal)
    ELSE journal = NoJournal \/ Published(manifest, journal)

OrphanInv ==
    \/ ~Unpublished(journal) \/ NoOrphans(journal)
    \/ \E p \in Proc : pc[p] \in {"orphan", "publish"}

(* The journal j on disk and k in memory tell the same of every file but   *)
(* how far it has come.                                                    *)
SameEntry(d, e) ==
    /\ d.sha = e.sha /\ d.existed = e.existed /\ d.saved = e.saved /\ d.orig = e.orig
    /\ d.st = "none" <=> e.st = "none"
    /\ d.st = "retained" => e.st = "retained"

Agree(j, k) ==
    \A f \in Path : /\ SameEntry(j.paths[f], k.paths[f])
                    /\ k.orphans[f] = "none" => j.orphans[f] = "none"
                    /\ Before(j, f) = Before(k, f)

(* What a path is to the install and to the uninstall of p, phase by phase.*)
Staged(p, f) ==
    LET e == mem[p].jm.paths[f] IN
    /\ e.st = "staged" /\ e.sha = plan[p].bundle.files[f]
    /\ ~e.existed /\ e.saved = "none" /\ e.orig = Absent
    /\ stage[f] = Absent

Snapped(p, f) ==
    LET e == mem[p].jm.paths[f] IN
    /\ e.sha = plan[p].bundle.files[f]
    /\ e.existed <=> e.orig # Absent
    /\ e.saved = IF e.existed THEN "rollback" ELSE "none"
    /\ stage[f] = e.orig

Ready(p, f) == mem[p].jm.paths[f].st = "staged" /\ live[f] = stage[f]

Placed(p, f) ==
    LET e == mem[p].jm.paths[f] IN
    /\ live[f] = e.sha
    /\ e.st \in {"committed", "retained"}
    /\ e.st = "retained" => e.orig = e.sha
    /\ Classify(manifest, f, e.orig, e.sha, plan[p].force) # "conflict"

ShippedFile(p, f) ==
    LET waits == f \in mem[p].todo IN
    /\ mem[p].jm.orphans[f] = "none"
    /\ pc[p] = "staging" =>
         /\ stage[f] = Absent
         /\ IF waits THEN mem[p].jm.paths[f].st = "none" ELSE Staged(p, f)
    /\ pc[p] = "snapshot" => IF waits THEN Staged(p, f) ELSE Snapped(p, f) /\ Ready(p, f)
    /\ pc[p] = "backup" => Snapped(p, f) /\ Ready(p, f)
    /\ pc[p] \in {"commit", "orphan", "publish"} =>
         /\ Snapped(p, f)
         /\ IF waits THEN pc[p] = "commit" /\ Ready(p, f) ELSE Placed(p, f)

OtherFile(p, f) ==
    LET orphan == mem[p].jm.orphans[f]
        waits  == f \in mem[p].todo
    IN  /\ mem[p].jm.paths[f].st = "none"
        /\ f \notin mem[p].copies
        /\ IF pc[p] \in {"orphan", "publish"} /\ f \in Owned(manifest) \ Owned(mem[p].next)
           THEN \/ (IF waits THEN orphan = "pending" ELSE orphan = "skipped")
                    /\ live[f] = manifest.sha[f]
                \/ ~waits /\ orphan = "removed" /\ live[f] = Absent
           ELSE orphan = "none" /\ ~waits

RemovedFile(p, f) ==
    LET e     == mem[p].jm.paths[f]
        waits == f \in mem[p].todo
    IN  /\ mem[p].jm.orphans[f] = "none"
        /\ IF manifest.owner[f] # mem[p].jm.claims THEN e.st = "none" /\ ~waits
           ELSE IF pc[p] = "saving" /\ waits THEN e.st = "none"
           ELSE /\ e.existed /\ e.saved = "rollback"
                /\ e.orig = manifest.sha[f] /\ e.sha = e.orig /\ stage[f] = e.orig
                /\ IF pc[p] \in {"saving", "ready"} \/ (pc[p] = "remove" /\ waits)
                   THEN e.st = "pending" /\ live[f] = e.orig
                   ELSE e.st = "removed" /\ live[f] = Absent

FileOf(p, f) ==
    IF mem[p].jm.op = "uninstall" THEN RemovedFile(p, f)
    ELSE IF f \in Files(plan[p].bundle) THEN ShippedFile(p, f)
    ELSE OtherFile(p, f)

WorkInv(p) ==
    /\ ~mem[p].undone
    /\ plan[p].force \in Forcing \/ mem[p].jm.op = "uninstall"
    /\ \A f \in Path : FileOf(p, f)
    /\ pc[p] \notin Early => Agree(journal, mem[p].jm)
    /\ pc[p] = "publish" =>
         Synced(p) /\ mem[p].jm.state = "publishing_manifest" /\ mem[p].todo = {}

(* A rollback from the journal in memory, which may not be on disk at all. *)
UndoInv(p) ==
    LET j == mem[p].jm IN
    /\ Unpublished(j) /\ CanUndo(j) /\ NoOrphans(j)
    /\ IF journal = NoJournal
       THEN \A f \in Journaled(j) : live[f] = j.paths[f].orig
       ELSE Unpublished(journal) /\ SameCall(journal, j) /\ Agree(journal, j)
    /\ mem[p].todo \subseteq Journaled(j)
    /\ mem[p].ok => \A f \in Journaled(j) \ mem[p].todo : live[f] = j.paths[f].orig
    /\ mem[p].undone

CleanInv(p) ==
    /\ IF mem[p].undone
       THEN \A f \in Journaled(journal) : live[f] = journal.paths[f].orig
       ELSE journal = NoJournal \/ Published(manifest, journal)
    /\ pc[p] = "complete" => ~mem[p].undone /\ mem[p].jm.state = "complete"

MemInv(p) ==
    /\ pc[p] = "planned" => plan[p].force \in Forcing
    /\ pc[p] \in Working => WorkInv(p)
    /\ pc[p] = "undo" => UndoInv(p)
    /\ pc[p] \in {"complete", "cleanup", "unlink"} => CleanInv(p)

TxnInv ==
    /\ Recorded
    /\ JournalUsable
    /\ OrphanInv
    /\ SameFiles => \A b \in Bundle : Owned(manifest) \subseteq Files(b)
    /\ \A p \in Proc : MemInv(p)

(* What the invariant's parts say of each other.                           *)

LEMMA CallUnpublished ==
    ASSUME NEW p \in Proc
    PROVE  CallInv /\ pc[p] \in Working =>
             /\ Unpublished(mem[p].jm)
             /\ IF pc[p] \in Early THEN journal = NoJournal ELSE Unpublished(journal)
BY DEF CallInv, CallOf, JournalOf, Unpublished, SameCall, NoManifest

LEMMA CallUnpublishedNext ==
    ASSUME NEW p \in Proc, CallInv', pc'[p] \in Working
    PROVE  /\ Unpublished(mem[p].jm)'
           /\ IF pc'[p] \in Early THEN journal' = NoJournal ELSE Unpublished(journal)'
<1>1. (CallInv /\ pc[p] \in Working =>
             /\ Unpublished(mem[p].jm)
             /\ IF pc[p] \in Early THEN journal = NoJournal ELSE Unpublished(journal))'
  BY CallUnpublished, PTL
<1> QED
  BY <1>1

LEMMA NoJournalOver == TypeOK => ~Unpublished(NoJournal) /\ NoOrphans(NoJournal)
BY DEF TypeOK, Manifest, Unpublished, NoOrphans, NoJournal, NewJournal

LEMMA PublishedOver ==
    ASSUME TypeOK, NEW j \in Journal, Unpublished(j)
    PROVE  ~Published(manifest, j)
BY DEF TypeOK, Manifest, Journal, Unpublished, Published

LEMMA PendingIsUnpublished ==
    ASSUME TypeOK, JournalUsable
    PROVE  Pending <=> Unpublished(journal)
BY NoJournalOver, PublishedOver DEF JournalUsable, Pending, TypeOK

LEMMA StandingIsStands ==
    TypeOK /\ JournalUsable => Standing = [f \in Path |-> Stands(f)]
<1> SUFFICES ASSUME TypeOK, JournalUsable
             PROVE  Standing = [f \in Path |-> Stands(f)]
  OBVIOUS
<1>1. ASSUME NEW f \in Path
      PROVE  Standing[f] = Stands(f)
  <2>1. CASE ~Pending
    BY <2>1, PendingIsUnpublished DEF Standing, Stands
  <2>2. CASE Pending
    <3>1. Unpublished(journal) /\ CanUndo(journal)
      BY <2>2, PendingIsUnpublished DEF JournalUsable
    <3>2. CASE journal.paths[f].st = "none"
      BY <2>2, <3>1, <3>2 DEF Standing, Stands, Before
    <3>3. CASE journal.paths[f].st # "none"
      <4> DEFINE e == journal.paths[f]
      <4>1. /\ e.existed <=> e.orig # Absent
            /\ e.st = "retained" => e.existed /\ live[f] = e.orig
        BY <3>1, <3>3 DEF CanUndo, Undoable
      <4>2. Before(journal, f) = IF journal.orphans[f] \in {"pending", "removed"} THEN manifest.sha[f] ELSE e.orig
        BY <3>3 DEF Before
      <4>3. Standing[f] = IF journal.orphans[f] \in {"pending", "removed"} THEN manifest.sha[f]
                          ELSE IF e.st = "retained" THEN live[f]
                          ELSE IF e.existed THEN e.orig ELSE Absent
        BY <2>2, <3>3 DEF Standing
      <4> QED
        BY <3>1, <4>1, <4>2, <4>3 DEF Stands
    <3> QED
      BY <3>2, <3>3
  <2> QED
    BY <2>1, <2>2
<1> QED
  BY <1>1 DEF Standing

LEMMA AgreeUsable ==
    ASSUME NEW j, NEW k, Agree(j, k), CanUndo(k), j.op = k.op
    PROVE  CanUndo(j)
<1> SUFFICES ASSUME NEW f \in Path, j.paths[f].st # "none"
             PROVE  Undoable(j.op, j.paths[f], live[f], stage[f])
  BY DEF CanUndo
<1>1. SameEntry(j.paths[f], k.paths[f])
  BY DEF Agree
<1>2. Undoable(k.op, k.paths[f], live[f], stage[f])
  BY <1>1 DEF CanUndo, SameEntry
<1> QED
  BY <1>1, <1>2 DEF SameEntry, Undoable

LEMMA WorkCanUndo ==
    ASSUME TypeOK, CallInv, NEW p \in Proc, pc[p] \in Working \ {"staging", "snapshot"}, WorkInv(p)
    PROVE  CanUndo(mem[p].jm)
<1> DEFINE j == mem[p].jm
<1> SUFFICES ASSUME NEW f \in Path, j.paths[f].st # "none"
             PROVE  Undoable(j.op, j.paths[f], live[f], stage[f])
  BY DEF CanUndo
<1> DEFINE e == j.paths[f]
<1>1. FileOf(p, f) /\ CallOf(p) /\ j.op \in {"install", "uninstall"}
  BY MemType DEF WorkInv, CallInv, Journal
<1>2. CASE j.op = "uninstall"
  <2>1. RemovedFile(p, f)
    BY <1>1, <1>2 DEF FileOf
  <2>2. manifest.owner[f] = j.claims
    BY <2>1 DEF RemovedFile
  <2>3. manifest.sha[f] # Absent
    BY <1>1, <2>2 DEF CallOf, CallInv, ManifestSound
  <2>4. /\ e.existed /\ e.saved = "rollback"
        /\ e.orig = manifest.sha[f] /\ e.sha = e.orig /\ stage[f] = e.orig
        /\ live[f] \in {e.orig, Absent} /\ e.st # "retained"
    BY <2>1, <2>2 DEF RemovedFile
  <2> QED
    BY <2>3, <2>4 DEF Undoable
<1>3. CASE j.op = "install"
  <2>1. f \in Files(plan[p].bundle) /\ ShippedFile(p, f)
    BY <1>1, <1>3 DEF FileOf, OtherFile
  <2>2. plan[p].bundle.files[f] # Absent
    BY <2>1 DEF Files
  <2>3. pc[p] \in {"backup", "commit", "orphan", "publish"}
    BY <1>1, <1>3 DEF CallOf, Working, Installing, Removing
  <2>4. Snapped(p, f) /\ (Ready(p, f) \/ Placed(p, f))
    BY <2>1, <2>3 DEF ShippedFile
  <2> QED
    BY <1>3, <2>2, <2>4 DEF Snapped, Ready, Placed, Undoable
<1> QED
  BY <1>1, <1>2, <1>3

(* While a command works, its memory says what is on disk.                 *)
LEMMA WorkUsable ==
    ASSUME NEW p \in Proc
    PROVE  TypeOK /\ CallInv /\ pc[p] \in Working /\ WorkInv(p) =>
             /\ JournalUsable /\ OrphanInv
             /\ \A f \in Path : Stands(f) = IF pc[p] \in Early THEN live[f] ELSE Before(mem[p].jm, f)
<1> SUFFICES ASSUME TypeOK, CallInv, pc[p] \in Working, WorkInv(p)
             PROVE  /\ JournalUsable /\ OrphanInv
                    /\ \A f \in Path : Stands(f) = IF pc[p] \in Early THEN live[f] ELSE Before(mem[p].jm, f)
  OBVIOUS
<1>1. CASE pc[p] \in Early
  BY <1>1, CallUnpublished, NoJournalOver DEF JournalUsable, OrphanInv, Stands
<1>2. CASE pc[p] \notin Early
  <2>1. Unpublished(journal) /\ Agree(journal, mem[p].jm) /\ SameCall(journal, mem[p].jm)
    BY <1>2, CallUnpublished DEF WorkInv, CallInv, JournalOf
  <2>2. CanUndo(mem[p].jm)
    BY <1>2, WorkCanUndo DEF Early
  <2>3. JournalUsable
    BY <2>1, <2>2, AgreeUsable DEF JournalUsable, SameCall
  <2>4. OrphanInv
    <3>1. CASE pc[p] \in {"orphan", "publish"}
      BY <3>1 DEF OrphanInv
    <3>2. CASE pc[p] \notin {"orphan", "publish"}
      <4>1. \A f \in Path : mem[p].jm.orphans[f] = "none"
        BY <3>2 DEF WorkInv, FileOf, RemovedFile, ShippedFile, OtherFile
      <4>2. NoOrphans(journal)
        BY <2>1, <4>1 DEF Agree, NoOrphans
      <4> QED
        BY <4>2 DEF OrphanInv
    <3> QED
      BY <3>1, <3>2
  <2>5. \A f \in Path : Stands(f) = Before(mem[p].jm, f)
    BY <2>1 DEF Stands, Agree
  <2> QED
    BY <1>2, <2>3, <2>4, <2>5
<1> QED
  BY <1>1, <1>2

LEMMA WorkUsableNext ==
    ASSUME NEW p \in Proc, TypeOK', CallInv', pc'[p] \in Working, WorkInv(p)'
    PROVE  /\ JournalUsable' /\ OrphanInv'
           /\ \A f \in Path : Stands(f)' = IF pc'[p] \in Early THEN live'[f] ELSE Before(mem[p].jm, f)'
<1>1. (TypeOK /\ CallInv /\ pc[p] \in Working /\ WorkInv(p) =>
             /\ JournalUsable /\ OrphanInv
             /\ \A f \in Path : Stands(f) = IF pc[p] \in Early THEN live[f] ELSE Before(mem[p].jm, f))'
  BY WorkUsable, PTL
<1> QED
  BY <1>1

-----------------------------------------------------------------------------
(* One file at a time.                                                     *)

(* p is done with f, its journal is j now, and no other path is touched.   *)
Touches(p, f, j) ==
    /\ Done(p, f, j)
    /\ UNCHANGED <<manifest, journal, plan, pc>>
    /\ SameCall(j, mem[p].jm)
    /\ \A g \in Path \ {f} : /\ j.paths[g] = mem[p].jm.paths[g]
                             /\ j.orphans[g] = mem[p].jm.orphans[g]
                             /\ live'[g] = live[g] /\ stage'[g] = stage[g]

LEMMA TouchesFields ==
    ASSUME TypeOK, NEW p \in Proc, NEW f \in Path, NEW j, Touches(p, f, j)
    PROVE  /\ mem'[p].jm = j /\ mem'[p].todo = mem[p].todo \ {f}
           /\ mem'[p].next = mem[p].next /\ mem'[p].undone = mem[p].undone
           /\ mem'[p].copies = mem[p].copies
<1>1. mem[p] \in Mem /\ mem' = [mem EXCEPT ![p] = [mem[p] EXCEPT !.todo = @ \ {f}, !.jm = j]]
  BY DEF TypeOK, Touches, Done, Set
<1> QED
  BY <1>1 DEF TypeOK, Mem

LEMMA TouchesOnlyOne ==
    ASSUME TypeOK, NEW p \in Proc, WorkInv(p), NEW f \in Path, NEW j, Touches(p, f, j),
           FileOf(p, f)', NEW g \in Path
    PROVE  FileOf(p, g)'
<1>1. CASE g = f
  BY <1>1
<1>2. CASE g # f
  <2>1. FileOf(p, g)
    BY DEF WorkInv
  <2>2. /\ mem'[p].jm.paths[g] = mem[p].jm.paths[g] /\ mem'[p].jm.orphans[g] = mem[p].jm.orphans[g]
        /\ mem'[p].jm.op = mem[p].jm.op /\ mem'[p].jm.claims = mem[p].jm.claims
        /\ mem'[p].next = mem[p].next /\ mem'[p].copies = mem[p].copies
        /\ g \in mem'[p].todo <=> g \in mem[p].todo
        /\ live'[g] = live[g] /\ stage'[g] = stage[g]
        /\ UNCHANGED <<manifest, plan, pc>>
    BY <1>2, TouchesFields DEF Touches, SameCall
  <2>3. CASE mem[p].jm.op = "uninstall"
    <3>1. RemovedFile(p, g)
      BY <2>1, <2>3 DEF FileOf
    <3>2. RemovedFile(p, g)'
      BY <2>2, <3>1 DEF RemovedFile
    <3> QED
      BY <2>2, <2>3, <3>2 DEF FileOf
  <2>4. CASE mem[p].jm.op # "uninstall" /\ g \in Files(plan[p].bundle)
    <3>1. ShippedFile(p, g)
      BY <2>1, <2>4 DEF FileOf
    <3>2. Placed(p, g) => Placed(p, g)'
      BY <2>2, SMTT(30) DEF Placed
    <3>3. ShippedFile(p, g)'
      BY <2>2, <3>1, <3>2 DEF ShippedFile, Staged, Snapped, Ready
    <3> QED
      BY <2>2, <2>4, <3>3 DEF FileOf, Files
  <2>5. CASE mem[p].jm.op # "uninstall" /\ g \notin Files(plan[p].bundle)
    <3>1. OtherFile(p, g)
      BY <2>1, <2>5 DEF FileOf
    <3>2. OtherFile(p, g)'
      BY <2>2, <3>1 DEF OtherFile, Owned
    <3> QED
      BY <2>2, <2>5, <3>2 DEF FileOf, Files
  <2> QED
    BY <2>3, <2>4, <2>5
<1> QED
  BY <1>1, <1>2

(* Before the journal is on disk the payload stays as it is.               *)
LEMMA EarlyTouchKeepsWork ==
    ASSUME TypeOK, TypeOK', CallInv, CallInv', NEW p \in Proc, WorkInv(p), pc[p] \in Early,
           NEW f \in Path, NEW j, Touches(p, f, j), live' = live, FileOf(p, f)'
    PROVE  WorkInv(p)' /\ \A g \in Path : Stands(g)' = Stands(g)
<1>1. UNCHANGED <<pc, plan>> /\ pc[p] \in Working /\ mem'[p].jm.op = mem[p].jm.op
  BY TouchesFields DEF Touches, Early, Working, Installing, Removing, SameCall
<1>2. WorkInv(p)'
  BY <1>1, TouchesFields, TouchesOnlyOne DEF WorkInv, Early
<1> QED
  BY <1>1, <1>2, WorkUsable, WorkUsableNext

(* Once it is, each payload change follows one flush and precedes another. *)
LEMMA SyncedTouchKeepsWork ==
    ASSUME TypeOK, TypeOK', CallInv, CallInv', NEW p \in Proc, WorkInv(p),
           pc[p] \in {"commit", "orphan", "remove"}, Synced(p),
           NEW f \in Path, NEW j, NEW k, k = mem[p].jm, Touches(p, f, j), FileOf(p, f)',
           SameEntry(k.paths[f], j.paths[f]), j.orphans[f] = "none" => k.orphans[f] = "none",
           Before(k, f)' = Before(k, f), Before(j, f)' = Before(k, f)
    PROVE  WorkInv(p)' /\ \A g \in Path : Stands(g)' = Stands(g)
<1>1. /\ UNCHANGED <<pc, plan, manifest>> /\ pc[p] \in Working /\ pc[p] \notin Early
      /\ mem'[p].jm = j /\ j.op = k.op /\ journal' = k
  BY TouchesFields DEF Touches, Early, Working, Installing, Removing, SameCall, Synced
<1>2. \A g \in Path : Before(k, g)' = Before(k, g) /\ Before(j, g)' = Before(k, g)
  BY <1>1 DEF Touches, Before
<1>3. Agree(k, j)'
  BY <1>2, SMTT(30) DEF Agree, SameEntry, Touches
<1>4. Agree(journal, mem[p].jm)'
  BY <1>1, <1>3 DEF Agree, Before
<1>5. WorkInv(p)'
  BY <1>1, <1>4, TouchesFields, TouchesOnlyOne DEF WorkInv
<1>6. \A g \in Path : Before(mem[p].jm, g)' = Before(j, g)'
  BY <1>1 DEF Before
<1> QED
  BY <1>1, <1>2, <1>5, <1>6, WorkUsable, WorkUsableNext

LEMMA ShippedTodo ==
    ASSUME CallInv, NEW p \in Proc, WorkInv(p), NEW f \in mem[p].todo \cap Path,
           pc[p] \in {"staging", "snapshot", "backup", "commit"}
    PROVE  mem[p].jm.op = "install" /\ f \in Files(plan[p].bundle) /\ ShippedFile(p, f)
<1>1. mem[p].jm.op = "install"
  BY DEF CallInv, CallOf, Working, Installing
<1>2. FileOf(p, f)
  BY DEF WorkInv
<1> QED
  BY <1>1, <1>2 DEF FileOf, OtherFile

LEMMA OwnedTodo ==
    ASSUME CallInv, NEW p \in Proc, WorkInv(p), NEW f \in mem[p].todo \cap Path,
           pc[p] \in {"saving", "remove"}
    PROVE  mem[p].jm.op = "uninstall" /\ RemovedFile(p, f) /\ f \in Owned(manifest)
<1>1. mem[p].jm.op = "uninstall" /\ mem[p].jm.claims # {}
  BY DEF CallInv, CallOf, Working, Removing
<1>2. FileOf(p, f)
  BY DEF WorkInv
<1>3. RemovedFile(p, f)
  BY <1>1, <1>2 DEF FileOf
<1> QED
  BY <1>1, <1>3 DEF RemovedFile, Owned

(* The usual case: the entry of f becomes e.                               *)
LEMMA PutTouches ==
    ASSUME TypeOK, NEW p \in Proc, NEW f \in Path, NEW e, Done(p, f, Put(mem[p].jm, f, e)),
           UNCHANGED <<manifest, journal, plan, pc>>,
           \A g \in Path \ {f} : live'[g] = live[g] /\ stage'[g] = stage[g]
    PROVE  \E j : /\ Touches(p, f, j)
                  /\ j.op = mem[p].jm.op /\ j.claims = mem[p].jm.claims
                  /\ j.paths[f] = e /\ j.orphans = mem[p].jm.orphans
<1>1. mem[p].jm \in Journal
  BY MemType
<1>2. PICK j : j = Put(mem[p].jm, f, e)
  OBVIOUS
<1>3. /\ SameCall(j, mem[p].jm) /\ j.orphans = mem[p].jm.orphans
      /\ \A g \in Path : j.paths[g] = IF g = f THEN e ELSE mem[p].jm.paths[g]
  BY <1>1, <1>2, PutFields
<1>4. Touches(p, f, j)
  BY <1>2, <1>3, Zenon DEF Touches
<1> QED
  BY <1>3, <1>4 DEF SameCall

LEMMA StageFileWorks ==
    ASSUME TypeOK, CallInv, NEW p \in Proc, WorkInv(p), NEW f \in Path, StageFile(p, f)
    PROVE  \E j : Touches(p, f, j) /\ FileOf(p, f)' /\ live' = live
<1>1. pc[p] = "staging" /\ f \in mem[p].todo /\ UNCHANGED <<disk, pc, plan>>
  BY DEF StageFile
<1>2. mem[p].jm.op = "install" /\ f \in Files(plan[p].bundle) /\ ShippedFile(p, f)
  BY <1>1, ShippedTodo
<1>3. PICK e : /\ Done(p, f, Put(mem[p].jm, f, e))
               /\ e = [NoEntry EXCEPT !.st = "staged", !.sha = plan[p].bundle.files[f]]
  BY Zenon DEF StageFile
<1>4. /\ e.st = "staged" /\ e.sha = plan[p].bundle.files[f]
      /\ ~e.existed /\ e.saved = "none" /\ e.orig = Absent
  BY <1>3 DEF NoEntry
<1>5. PICK j : /\ Touches(p, f, j) /\ j.op = mem[p].jm.op
               /\ j.paths[f] = e /\ j.orphans = mem[p].jm.orphans
  BY <1>1, <1>3, PutTouches DEF disk
<1>6. ShippedFile(p, f)'
  BY <1>1, <1>2, <1>4, <1>5, TouchesFields DEF ShippedFile, Staged, disk
<1>7. FileOf(p, f)'
  BY <1>1, <1>2, <1>5, <1>6, TouchesFields DEF FileOf, Files
<1> QED
  BY <1>1, <1>5, <1>7 DEF disk

LEMMA SnapshotFileWorks ==
    ASSUME TypeOK, CallInv, NEW p \in Proc, WorkInv(p), NEW f \in Path, SnapshotFile(p, f)
    PROVE  \E j : Touches(p, f, j) /\ FileOf(p, f)' /\ live' = live
<1>1. pc[p] = "snapshot" /\ f \in mem[p].todo /\ UNCHANGED <<live, manifest, journal, pc, plan>>
  BY DEF SnapshotFile
<1>2. mem[p].jm.op = "install" /\ f \in Files(plan[p].bundle) /\ ShippedFile(p, f)
  BY <1>1, ShippedTodo
<1>3. Staged(p, f)
  BY <1>1, <1>2 DEF ShippedFile
<1>4. CASE live[f] = Absent
  <2>1. Done(p, f, mem[p].jm) /\ stage' = stage
    BY <1>4 DEF SnapshotFile
  <2>2. Touches(p, f, mem[p].jm)
    BY <1>1, <2>1, SMTT(30) DEF Touches, SameCall
  <2>3. ShippedFile(p, f)'
    BY <1>1, <1>2, <1>3, <1>4, <2>1, <2>2, TouchesFields DEF ShippedFile, Staged, Snapped, Ready
  <2> QED
    BY <1>1, <1>2, <2>2, <2>3, TouchesFields DEF FileOf, Files
<1>5. CASE live[f] # Absent
  <2>1. stage' = [stage EXCEPT ![f] = live[f]] /\ stage \in [Path -> Leaf]
    BY <1>5 DEF SnapshotFile, TypeOK
  <2>2. mem[p].jm.paths[f] \in PathEntry
    BY MemType
  <2>3. PICK e : /\ Done(p, f, Put(mem[p].jm, f, e))
                 /\ e = [mem[p].jm.paths[f] EXCEPT !.existed = TRUE, !.saved = "rollback", !.orig = live[f]]
    BY <1>5, Zenon DEF SnapshotFile
  <2>4. /\ e.st = "staged" /\ e.sha = plan[p].bundle.files[f]
        /\ e.existed /\ e.saved = "rollback" /\ e.orig = live[f]
    BY <1>3, <2>2, <2>3 DEF PathEntry, Staged
  <2>5. PICK j : /\ Touches(p, f, j) /\ j.op = mem[p].jm.op
                 /\ j.paths[f] = e /\ j.orphans = mem[p].jm.orphans
    BY <1>1, <2>1, <2>3, PutTouches
  <2>6. ShippedFile(p, f)'
    BY <1>1, <1>2, <1>5, <2>1, <2>4, <2>5, TouchesFields DEF ShippedFile, Snapped, Ready
  <2> QED
    BY <1>1, <1>2, <2>5, <2>6, TouchesFields DEF FileOf, Files
<1> QED
  BY <1>4, <1>5

LEMMA BackupFileWorks ==
    ASSUME TypeOK, CallInv, NEW p \in Proc, WorkInv(p), NEW f \in Path, BackupFile(p, f)
    PROVE  \E j : Touches(p, f, j) /\ FileOf(p, f)' /\ live' = live
<1>1. /\ pc[p] = "backup" /\ f \in mem[p].todo /\ live[f] # Absent
      /\ UNCHANGED <<live, manifest, journal, stage, pc, plan>>
  BY DEF BackupFile
<1>2. mem[p].jm.op = "install" /\ f \in Files(plan[p].bundle) /\ ShippedFile(p, f)
  BY <1>1, ShippedTodo
<1>3. Snapped(p, f) /\ Ready(p, f)
  BY <1>1, <1>2 DEF ShippedFile
<1>4. mem[p].jm.paths[f] \in PathEntry
  BY MemType
<1>5. PICK e : /\ Done(p, f, Put(mem[p].jm, f, e))
               /\ e = [mem[p].jm.paths[f] EXCEPT !.saved = IF @ = "none" THEN "backup" ELSE @]
  BY Zenon DEF BackupFile
<1>6. mem[p].jm.paths[f].saved = "rollback"
  BY <1>1, <1>3 DEF Snapped, Ready
<1>7. e = mem[p].jm.paths[f]
  BY <1>4, <1>5, <1>6 DEF PathEntry
<1>8. PICK j : /\ Touches(p, f, j) /\ j.op = mem[p].jm.op
               /\ j.paths[f] = e /\ j.orphans = mem[p].jm.orphans
  BY <1>1, <1>5, PutTouches, SMTT(30)
<1>9. ShippedFile(p, f)'
  BY <1>1, <1>2, <1>3, <1>7, <1>8, TouchesFields, SMTT(30) DEF ShippedFile, Snapped, Ready
<1> QED
  BY <1>1, <1>2, <1>8, <1>9, TouchesFields DEF FileOf, Files

LEMMA SaveOwnedWorks ==
    ASSUME TypeOK, CallInv, NEW p \in Proc, WorkInv(p), Recorded, NEW f \in Path, SaveOwned(p, f)
    PROVE  \E j : Touches(p, f, j) /\ FileOf(p, f)' /\ live' = live
<1>1. pc[p] = "saving" /\ f \in mem[p].todo /\ UNCHANGED <<live, manifest, journal, pc, plan>>
  BY DEF SaveOwned
<1>2. mem[p].jm.op = "uninstall" /\ RemovedFile(p, f) /\ f \in Owned(manifest)
  BY <1>1, OwnedTodo
<1>3. live[f] = manifest.sha[f]
  BY <1>1, <1>2, WorkUsable DEF Recorded, Early, Working, Removing
<1>4. stage' = [stage EXCEPT ![f] = live[f]] /\ stage \in [Path -> Leaf]
  BY <1>3 DEF SaveOwned, TypeOK
<1>5. PICK e : /\ Done(p, f, Put(mem[p].jm, f, e))
               /\ e = [st |-> "pending", sha |-> live[f], existed |-> TRUE,
                       saved |-> "rollback", orig |-> live[f]]
  BY <1>3, Zenon DEF SaveOwned
<1>6. PICK j : /\ Touches(p, f, j) /\ j.op = mem[p].jm.op /\ j.claims = mem[p].jm.claims
               /\ j.paths[f] = e /\ j.orphans = mem[p].jm.orphans
  BY <1>1, <1>4, <1>5, PutTouches
<1>7. RemovedFile(p, f)'
  BY <1>1, <1>2, <1>3, <1>4, <1>5, <1>6, TouchesFields DEF RemovedFile
<1> QED
  BY <1>1, <1>2, <1>6, <1>7, TouchesFields DEF FileOf

(* What a change of f under a flushed journal has to respect.              *)
Respects(p, f, j) ==
    /\ Touches(p, f, j)
    /\ SameEntry(mem[p].jm.paths[f], j.paths[f])
    /\ j.orphans[f] = "none" => mem[p].jm.orphans[f] = "none"
    /\ \/ j.orphans[f] \in {"pending", "removed"} <=> mem[p].jm.orphans[f] \in {"pending", "removed"}
       \/ /\ mem[p].jm.orphans[f] = "pending" /\ j.orphans[f] = "skipped"
          /\ j.paths[f].st = "none" /\ live'[f] = manifest.sha[f]
    /\ live'[f] = live[f] \/ j.paths[f].st # "none" \/ j.orphans[f] \in {"pending", "removed"}

LEMMA CommitFileWorks ==
    ASSUME TypeOK, CallInv, NEW p \in Proc, WorkInv(p), NEW f \in Path, CommitFile(p, f)
    PROVE  \E j : Respects(p, f, j) /\ FileOf(p, f)'
<1>1. /\ pc[p] = "commit" /\ f \in mem[p].todo /\ Kind(p, f) # "conflict"
      /\ UNCHANGED <<manifest, journal, stage, pc, plan>>
  BY DEF CommitFile
<1>2. mem[p].jm.op = "install" /\ f \in Files(plan[p].bundle) /\ ShippedFile(p, f)
  BY <1>1, ShippedTodo
<1>3. Snapped(p, f) /\ Ready(p, f) /\ mem[p].jm.orphans[f] = "none"
  BY <1>1, <1>2 DEF ShippedFile
<1>4. live' = [live EXCEPT ![f] = plan[p].bundle.files[f]] /\ live \in [Path -> Leaf]
  BY DEF CommitFile, TypeOK
<1>5. PICK e : /\ Done(p, f, Put(mem[p].jm, f, e))
               /\ e = [mem[p].jm.paths[f] EXCEPT
                         !.st = IF Kind(p, f) = "retain" THEN "retained" ELSE "committed"]
  BY Zenon DEF CommitFile
<1>6. mem[p].jm.paths[f] \in PathEntry
  BY MemType
<1>7. /\ e.st = IF Kind(p, f) = "retain" THEN "retained" ELSE "committed"
      /\ e.sha = mem[p].jm.paths[f].sha /\ e.orig = mem[p].jm.paths[f].orig
      /\ e.existed = mem[p].jm.paths[f].existed /\ e.saved = mem[p].jm.paths[f].saved
  BY <1>5, <1>6 DEF PathEntry
<1>8. PICK j : /\ Touches(p, f, j) /\ j.op = mem[p].jm.op
               /\ j.paths[f] = e /\ j.orphans = mem[p].jm.orphans
  BY <1>1, <1>4, <1>5, PutTouches
<1>9. mem[p].jm.paths[f].orig = live[f] /\ mem[p].jm.paths[f].sha = plan[p].bundle.files[f]
  BY <1>3 DEF Snapped, Ready
<1>10. Kind(p, f) = "retain" => live[f] = plan[p].bundle.files[f]
  BY DEF Kind, Classify
<1>11. Kind(p, f) = Classify(manifest, f, e.orig, e.sha, plan[p].force)
  BY <1>7, <1>9 DEF Kind
<1>12. Placed(p, f)'
  BY <1>1, <1>4, <1>7, <1>8, <1>9, <1>10, <1>11, TouchesFields, SMTT(30) DEF Placed
<1>13. ShippedFile(p, f)'
  BY <1>1, <1>2, <1>3, <1>7, <1>8, <1>12, TouchesFields, SMTT(30) DEF ShippedFile, Snapped
<1>14. SameEntry(mem[p].jm.paths[f], e) /\ e.st # "none"
  BY <1>3, <1>7 DEF SameEntry, Ready
<1> QED
  BY <1>1, <1>2, <1>3, <1>8, <1>13, <1>14, TouchesFields DEF FileOf, Files, Respects

LEMMA RemoveOwnedWorks ==
    ASSUME TypeOK, CallInv, NEW p \in Proc, WorkInv(p), NEW f \in Path, RemoveOwned(p, f)
    PROVE  \E j : Respects(p, f, j) /\ FileOf(p, f)'
<1>1. /\ pc[p] = "remove" /\ f \in mem[p].todo
      /\ UNCHANGED <<manifest, journal, stage, pc, plan>>
  BY DEF RemoveOwned
<1>2. mem[p].jm.op = "uninstall" /\ RemovedFile(p, f)
  BY <1>1, OwnedTodo
<1>3. live[f] = mem[p].jm.paths[f].orig /\ mem[p].jm.paths[f].st = "pending"
  BY <1>1, <1>2 DEF RemovedFile
<1>4. live' = [live EXCEPT ![f] = Absent] /\ live \in [Path -> Leaf]
  BY <1>3 DEF RemoveOwned, TypeOK
<1>5. PICK e : /\ Done(p, f, Put(mem[p].jm, f, e))
               /\ e = [mem[p].jm.paths[f] EXCEPT !.st = "removed"]
  BY <1>3, Zenon DEF RemoveOwned
<1>6. mem[p].jm.paths[f] \in PathEntry
  BY MemType
<1>7. /\ e.st = "removed"
      /\ e.sha = mem[p].jm.paths[f].sha /\ e.orig = mem[p].jm.paths[f].orig
      /\ e.existed = mem[p].jm.paths[f].existed /\ e.saved = mem[p].jm.paths[f].saved
  BY <1>5, <1>6 DEF PathEntry
<1>8. PICK j : /\ Touches(p, f, j) /\ j.op = mem[p].jm.op /\ j.claims = mem[p].jm.claims
               /\ j.paths[f] = e /\ j.orphans = mem[p].jm.orphans
  BY <1>1, <1>4, <1>5, PutTouches
<1>9. RemovedFile(p, f)'
  <2>1. mem'[p].jm = j /\ mem'[p].todo = mem[p].todo \ {f}
    BY <1>8, TouchesFields
  <2>2. /\ mem'[p].jm.paths[f] = e /\ mem'[p].jm.orphans[f] = mem[p].jm.orphans[f]
        /\ mem'[p].jm.claims = mem[p].jm.claims /\ f \notin mem'[p].todo
    BY <1>8, <2>1
  <2>3. /\ manifest' = manifest /\ stage' = stage
        /\ pc'[p] = "remove" /\ live'[f] = Absent
    BY <1>1, <1>4
  <2>4. /\ mem[p].jm.orphans[f] = "none"
        /\ manifest.owner[f] = mem[p].jm.claims
        /\ mem[p].jm.paths[f].existed /\ mem[p].jm.paths[f].saved = "rollback"
        /\ mem[p].jm.paths[f].orig = manifest.sha[f]
        /\ mem[p].jm.paths[f].sha = mem[p].jm.paths[f].orig
        /\ stage[f] = mem[p].jm.paths[f].orig
    BY <1>1, <1>2, <1>3 DEF RemovedFile
  <2> QED
    BY <1>7, <2>2, <2>3, <2>4 DEF RemovedFile
<1>10. SameEntry(mem[p].jm.paths[f], e)
  BY <1>3, <1>7 DEF SameEntry
<1> QED
  BY <1>2, <1>7, <1>8, <1>9, <1>10, TouchesFields DEF FileOf, Respects

LEMMA RemoveOrphanWorks ==
    ASSUME TypeOK, CallInv, NEW p \in Proc, WorkInv(p), NEW f \in Path, RemoveOrphan(p, f)
    PROVE  \E j : Respects(p, f, j) /\ FileOf(p, f)'
<1>1. /\ pc[p] = "orphan" /\ f \in mem[p].todo
      /\ UNCHANGED <<manifest, journal, stage, pc, plan>>
  BY DEF RemoveOrphan
<1>2. mem[p].jm.op = "install" /\ FileOf(p, f)
  BY <1>1 DEF CallInv, CallOf, Working, Installing, WorkInv
<1>3. f \notin Files(plan[p].bundle) /\ OtherFile(p, f)
  BY <1>1, <1>2 DEF FileOf, ShippedFile
<1>4. /\ f \in Owned(manifest) \ Owned(mem[p].next)
      /\ mem[p].jm.orphans[f] = "pending" /\ live[f] = manifest.sha[f]
      /\ mem[p].jm.paths[f].st = "none" /\ f \notin mem[p].copies
  BY <1>1, <1>3 DEF OtherFile
<1>5. live' = [live EXCEPT ![f] = Absent] /\ live \in [Path -> Leaf]
  BY <1>4 DEF RemoveOrphan, TypeOK
<1>6. PICK o, j : /\ Done(p, f, j) /\ j = [mem[p].jm EXCEPT !.orphans = o]
                  /\ o = [mem[p].jm.orphans EXCEPT ![f] = "removed"]
  <2>1. Done(p, f, [mem[p].jm EXCEPT !.orphans =
                [mem[p].jm.orphans EXCEPT ![f] = IF live[f] = manifest.sha[f] THEN "removed" ELSE "skipped"]])
    BY DEF RemoveOrphan
  <2> QED
    BY <1>4, <2>1, Zenon
<1>7. /\ SameCall(j, mem[p].jm) /\ j.paths = mem[p].jm.paths /\ j.orphans = o
      /\ mem[p].jm.orphans \in [Path -> {"none", "pending", "removed", "skipped"}]
  <2>1. mem[p].jm \in Journal
    BY MemType
  <2> QED
    BY <1>6, <2>1 DEF Journal, SameCall
<1>8. o[f] = "removed" /\ \A g \in Path \ {f} : o[g] = mem[p].jm.orphans[g]
  BY <1>6, <1>7
<1>9. Touches(p, f, j)
  BY <1>1, <1>5, <1>6, <1>7, <1>8 DEF Touches
<1>10. OtherFile(p, f)'
  BY <1>1, <1>4, <1>5, <1>7, <1>8, <1>9, TouchesFields DEF OtherFile, Owned
<1>11. FileOf(p, f)'
  BY <1>1, <1>2, <1>3, <1>7, <1>9, <1>10, TouchesFields DEF FileOf, SameCall, Files
<1> QED
  BY <1>4, <1>7, <1>8, <1>9, <1>11 DEF Respects, SameEntry

LEMMA RemoveOrphanFailsWorks ==
    ASSUME TypeOK, CallInv, NEW p \in Proc, WorkInv(p), NEW f \in Path, RemoveOrphanFails(p, f)
    PROVE  \E j : Respects(p, f, j) /\ FileOf(p, f)'
<1>1. /\ pc[p] = "orphan" /\ f \in mem[p].todo
      /\ UNCHANGED <<live, manifest, journal, stage, pc, plan>>
  BY DEF RemoveOrphanFails, disk
<1>2. mem[p].jm.op = "install" /\ FileOf(p, f)
  BY <1>1 DEF CallInv, CallOf, Working, Installing, WorkInv
<1>3. f \notin Files(plan[p].bundle) /\ OtherFile(p, f)
  BY <1>1, <1>2 DEF FileOf, ShippedFile
<1>4. /\ f \in Owned(manifest) \ Owned(mem[p].next)
      /\ mem[p].jm.orphans[f] = "pending" /\ live[f] = manifest.sha[f]
      /\ mem[p].jm.paths[f].st = "none" /\ f \notin mem[p].copies
  BY <1>1, <1>3 DEF OtherFile
<1>5. PICK o, j : /\ Done(p, f, j) /\ j = [mem[p].jm EXCEPT !.orphans = o]
                  /\ o = [mem[p].jm.orphans EXCEPT ![f] = "skipped"]
  BY Zenon DEF RemoveOrphanFails
<1>6. /\ SameCall(j, mem[p].jm) /\ j.paths = mem[p].jm.paths /\ j.orphans = o
      /\ mem[p].jm.orphans \in [Path -> {"none", "pending", "removed", "skipped"}]
  <2>1. mem[p].jm \in Journal
    BY MemType
  <2> QED
    BY <1>5, <2>1 DEF Journal, SameCall
<1>7. o[f] = "skipped" /\ \A g \in Path \ {f} : o[g] = mem[p].jm.orphans[g]
  BY <1>5, <1>6
<1>8. Touches(p, f, j)
  BY <1>1, <1>5, <1>6, <1>7 DEF Touches
<1>9. OtherFile(p, f)'
  BY <1>1, <1>4, <1>6, <1>7, <1>8, TouchesFields DEF OtherFile, Owned
<1>10. FileOf(p, f)'
  BY <1>1, <1>2, <1>3, <1>6, <1>8, <1>9, TouchesFields DEF FileOf, SameCall, Files
<1> QED
  BY <1>1, <1>4, <1>6, <1>7, <1>8, <1>10 DEF Respects, SameEntry

LEMMA FileStepKeepsWork ==
    ASSUME TypeOK, TypeOK', CallInv, CallInv', NEW p \in Proc, WorkInv(p), Recorded,
           NEW f \in Path,
           \/ StageFile(p, f) \/ SnapshotFile(p, f) \/ BackupFile(p, f)
           \/ CommitFile(p, f) \/ RemoveOrphan(p, f) \/ RemoveOrphanFails(p, f)
           \/ SaveOwned(p, f) \/ RemoveOwned(p, f)
    PROVE  WorkInv(p)' /\ \A g \in Path : Stands(g)' = Stands(g)
<1>1. CASE StageFile(p, f) \/ SnapshotFile(p, f) \/ BackupFile(p, f) \/ SaveOwned(p, f)
  <2>1. pc[p] \in Early
    BY <1>1 DEF StageFile, SnapshotFile, BackupFile, SaveOwned, Early
  <2>2. \E j : Touches(p, f, j) /\ FileOf(p, f)' /\ live' = live
    BY <1>1, StageFileWorks, SnapshotFileWorks, BackupFileWorks, SaveOwnedWorks
  <2> QED
    BY <2>1, <2>2, EarlyTouchKeepsWork
<1>2. CASE CommitFile(p, f) \/ RemoveOrphan(p, f) \/ RemoveOrphanFails(p, f) \/ RemoveOwned(p, f)
  <2>1. pc[p] \in {"commit", "orphan", "remove"} /\ Synced(p)
    BY <1>2 DEF CommitFile, RemoveOrphan, RemoveOrphanFails, RemoveOwned
  <2>2. PICK j : Respects(p, f, j) /\ FileOf(p, f)'
    BY <1>2, CommitFileWorks, RemoveOrphanWorks, RemoveOrphanFailsWorks, RemoveOwnedWorks
  <2>3. PICK k : k = mem[p].jm
    OBVIOUS
  <2>4. Before(k, f)' = Before(k, f) /\ Before(j, f)' = Before(k, f)
    BY <2>2, <2>3 DEF Respects, Touches, Before, SameEntry
  <2> QED
    BY <2>1, <2>2, <2>3, <2>4, SyncedTouchKeepsWork, SMTT(30) DEF Respects
<1> QED
  BY <1>1, <1>2

-----------------------------------------------------------------------------
(* From phase to phase.                                                    *)

(* What p is to a file depends on no more than this.                       *)
LEMMA TodoMem ==
    ASSUME TypeOK, NEW p \in Proc, NEW fs, NEW j, Todo(p, fs, j)
    PROVE  /\ mem'[p].jm = j /\ mem'[p].todo = fs
           /\ mem'[p].next = mem[p].next /\ mem'[p].undone = mem[p].undone
           /\ mem'[p].copies = mem[p].copies
<1>1. mem[p] \in Mem /\ mem' = [mem EXCEPT ![p] = [mem[p] EXCEPT !.todo = fs, !.jm = j]]
  BY DEF TypeOK, Todo, Set
<1> QED
  BY <1>1 DEF TypeOK, Mem

LEMMA OpByPhase ==
    ASSUME CallInv, NEW p \in Proc, pc[p] \in Working
    PROVE  /\ pc[p] \in Installing => mem[p].jm.op = "install"
           /\ pc[p] \in Removing => mem[p].jm.op = "uninstall"
           /\ mem[p].jm.op \in {"install", "uninstall"}
BY DEF CallInv, CallOf

LEMMA FilesByKind ==
    ASSUME CallInv, NEW p \in Proc, pc[p] \in Working, WorkInv(p), NEW f \in Path
    PROVE  /\ pc[p] \in Installing => mem[p].jm.op = "install"
           /\ pc[p] \in Removing => mem[p].jm.op = "uninstall"
           /\ mem[p].jm.op \in {"install", "uninstall"}
           /\ mem[p].jm.op = "uninstall" => RemovedFile(p, f)
           /\ mem[p].jm.op = "install" /\ f \in Files(plan[p].bundle) => ShippedFile(p, f)
           /\ mem[p].jm.op = "install" /\ f \notin Files(plan[p].bundle) => OtherFile(p, f)
<1>1. FileOf(p, f) /\ CallOf(p)
  BY DEF WorkInv, CallInv
<1> QED
  BY <1>1 DEF FileOf, CallOf

LEMMA StagingDoneWorks ==
    ASSUME TypeOK, TypeOK', CallInv, CallInv', NEW p \in Proc, WorkInv(p), StagingDone(p)
    PROVE  WorkInv(p)' /\ \A g \in Path : Stands(g)' = Stands(g)
<1>1. /\ pc[p] = "staging" /\ pc'[p] = "snapshot" /\ mem[p].todo = {}
      /\ UNCHANGED <<disk, plan>> /\ pc[p] \in Working /\ pc'[p] \in Working
  BY DEF StagingDone, TypeOK, Goto, Working, Installing
<1>2. /\ mem'[p].jm = mem[p].jm /\ mem'[p].todo = Files(plan[p].bundle)
      /\ mem'[p].undone = mem[p].undone /\ mem'[p].copies = mem[p].copies
  BY TodoMem DEF StagingDone
<1>3. ASSUME NEW f \in Path PROVE FileOf(p, f)'
  <2>1. mem[p].jm.op = "install"
    BY <1>1, FilesByKind DEF Installing
  <2>2. CASE f \in Files(plan[p].bundle)
    <3>1. ShippedFile(p, f)
      BY <1>1, <2>1, <2>2, FilesByKind
    <3>2. ShippedFile(p, f)'
      BY <1>1, <1>2, <2>2, <3>1 DEF ShippedFile, Staged, disk
    <3> QED
      BY <1>1, <1>2, <2>1, <2>2, <3>2 DEF FileOf, Files
  <2>3. CASE f \notin Files(plan[p].bundle)
    <3>1. OtherFile(p, f)
      BY <1>1, <2>1, <2>3, FilesByKind
    <3>2. OtherFile(p, f)'
      BY <1>1, <1>2, <2>3, <3>1 DEF OtherFile, Owned, disk
    <3> QED
      BY <1>1, <1>2, <2>1, <2>3, <3>2 DEF FileOf, Files
  <2> QED
    BY <2>2, <2>3
<1>4. WorkInv(p)'
  BY <1>1, <1>2, <1>3 DEF WorkInv, Early
<1> QED
  BY <1>1, <1>4, WorkUsable, WorkUsableNext DEF Early, disk

LEMMA SnapshotsDoneWorks ==
    ASSUME TypeOK, TypeOK', CallInv, CallInv', NEW p \in Proc, WorkInv(p), SnapshotsDone(p)
    PROVE  WorkInv(p)' /\ \A g \in Path : Stands(g)' = Stands(g)
<1>1. /\ pc[p] = "snapshot" /\ pc'[p] = "backup" /\ mem[p].todo = {}
      /\ UNCHANGED <<disk, plan>> /\ pc[p] \in Working /\ pc'[p] \in Working
  BY DEF SnapshotsDone, TypeOK, Goto, Working, Installing
<1>2. /\ mem'[p].jm = mem[p].jm /\ mem'[p].todo = mem[p].copies
      /\ mem'[p].undone = mem[p].undone /\ mem'[p].copies = mem[p].copies
  BY TodoMem DEF SnapshotsDone
<1>3. ASSUME NEW f \in Path PROVE FileOf(p, f)'
  <2>1. mem[p].jm.op = "install"
    BY <1>1, FilesByKind DEF Installing
  <2>2. CASE f \in Files(plan[p].bundle)
    <3>1. ShippedFile(p, f)
      BY <1>1, <2>1, <2>2, FilesByKind
    <3>2. ShippedFile(p, f)'
      BY <1>1, <1>2, <2>2, <3>1 DEF ShippedFile, Snapped, Ready, disk
    <3> QED
      BY <1>1, <1>2, <2>1, <2>2, <3>2 DEF FileOf, Files
  <2>3. CASE f \notin Files(plan[p].bundle)
    <3>1. OtherFile(p, f)
      BY <1>1, <2>1, <2>3, FilesByKind
    <3>2. OtherFile(p, f)'
      BY <1>1, <1>2, <2>3, <3>1 DEF OtherFile, Owned, disk
    <3> QED
      BY <1>1, <1>2, <2>1, <2>3, <3>2 DEF FileOf, Files
  <2> QED
    BY <2>2, <2>3
<1>4. WorkInv(p)'
  BY <1>1, <1>2, <1>3 DEF WorkInv, Early
<1> QED
  BY <1>1, <1>4, WorkUsable, WorkUsableNext DEF Early, disk

(* A flush of the journal that p holds in memory.                          *)
LEMMA FlushAgrees ==
    ASSUME NEW p \in Proc, journal' = mem'[p].jm
    PROVE  Agree(journal, mem[p].jm)'
BY DEF Agree, SameEntry, Before

LEMMA WriteIntentWorks ==
    ASSUME TypeOK, TypeOK', CallInv, CallInv', NEW p \in Proc, WorkInv(p), WriteIntent(p)
    PROVE  WorkInv(p)' /\ \A g \in Path : Stands(g)' = Stands(g)
<1>1. /\ pc[p] = "backup" /\ pc'[p] = "commit" /\ mem[p].todo = {}
      /\ UNCHANGED <<live, manifest, stage, plan>> /\ pc[p] \in Working /\ pc'[p] \in Working
  BY DEF WriteIntent, TypeOK, Goto, Working, Installing
<1>2. /\ mem'[p].jm = journal' /\ mem'[p].todo = Files(plan[p].bundle)
      /\ mem'[p].undone = mem[p].undone /\ mem'[p].copies = mem[p].copies
  BY TodoMem DEF WriteIntent
<1>3. /\ mem'[p].jm.op = mem[p].jm.op /\ mem'[p].jm.paths = mem[p].jm.paths
      /\ mem'[p].jm.orphans = mem[p].jm.orphans
  BY <1>2, MemType, AtFields DEF WriteIntent, SameCall
<1>4. ASSUME NEW f \in Path
      PROVE  FileOf(p, f)' /\ Before(mem[p].jm, f)' = live[f]
  <2>1. mem[p].jm.op = "install"
    BY <1>1, FilesByKind DEF Installing
  <2>2. CASE f \in Files(plan[p].bundle)
    <3>1. ShippedFile(p, f) /\ Snapped(p, f) /\ Ready(p, f)
      BY <1>1, <2>1, <2>2, FilesByKind DEF ShippedFile
    <3>2. ShippedFile(p, f)'
      BY <1>1, <1>2, <1>3, <2>2, <3>1 DEF ShippedFile, Snapped, Ready
    <3>3. Before(mem[p].jm, f)' = live[f]
      BY <1>1, <1>3, <3>1 DEF Before, Snapped, Ready, ShippedFile
    <3> QED
      BY <1>1, <1>3, <2>1, <2>2, <3>2, <3>3 DEF FileOf, Files
  <2>3. CASE f \notin Files(plan[p].bundle)
    <3>1. OtherFile(p, f)
      BY <1>1, <2>1, <2>3, FilesByKind
    <3>2. OtherFile(p, f)'
      BY <1>1, <1>2, <1>3, <2>3, <3>1 DEF OtherFile, Owned
    <3>3. Before(mem[p].jm, f)' = live[f]
      BY <1>1, <1>3, <3>1 DEF Before, OtherFile
    <3> QED
      BY <1>1, <1>3, <2>1, <2>3, <3>2, <3>3 DEF FileOf, Files
  <2> QED
    BY <2>2, <2>3
<1>5. WorkInv(p)'
  BY <1>1, <1>2, <1>3, <1>4, FlushAgrees DEF WorkInv
<1> QED
  BY <1>1, <1>4, <1>5, WorkUsable, WorkUsableNext DEF Early

LEMMA ListOrphansWorks ==
    ASSUME TypeOK, TypeOK', CallInv, CallInv', NEW p \in Proc, WorkInv(p), Recorded, ListOrphans(p)
    PROVE  WorkInv(p)' /\ \A g \in Path : Stands(g)' = Stands(g)
<1>1. /\ pc[p] = "commit" /\ pc'[p] = "orphan" /\ mem[p].todo = {} /\ Synced(p)
      /\ UNCHANGED <<disk, plan>> /\ pc[p] \in Working /\ pc'[p] \in Working
      /\ mem[p].jm.op = "install"
  BY OpByPhase DEF ListOrphans, TypeOK, Goto, Working, Installing
<1>2. /\ mem'[p].todo = Orphans(p) /\ mem'[p].next = mem[p].next
      /\ mem'[p].undone = mem[p].undone /\ mem'[p].copies = mem[p].copies
      /\ mem'[p].jm.op = mem[p].jm.op /\ mem'[p].jm.paths = mem[p].jm.paths
      /\ \A f \in Path : mem'[p].jm.orphans[f] = IF f \in Orphans(p) THEN "pending" ELSE mem[p].jm.orphans[f]
  <2>1. \A f \in Path : mem[p].jm.orphans[f] = "none"
    BY <1>1, FilesByKind DEF ShippedFile, OtherFile
  <2>2. CASE Orphans(p) = {}
    BY <1>1, <2>2 DEF ListOrphans
  <2>3. CASE Orphans(p) # {}
    <3>1. PICK o, j : /\ Todo(p, Orphans(p), j) /\ j = [At(mem[p].jm, "orphaning") EXCEPT !.orphans = o]
                      /\ o = [f \in Path |-> IF f \in Orphans(p) THEN "pending" ELSE "none"]
      <4>1. Todo(p, Orphans(p), [At(mem[p].jm, "orphaning") EXCEPT !.orphans =
                [f \in Path |-> IF f \in Orphans(p) THEN "pending" ELSE "none"]])
        BY <2>3 DEF ListOrphans
      <4> QED
        BY <4>1, Zenon
    <3>2. At(mem[p].jm, "orphaning") \in Journal
      BY MemType, AtType
    <3>3. SameCall(j, At(mem[p].jm, "orphaning")) /\ j.paths = At(mem[p].jm, "orphaning").paths /\ j.orphans = o
      BY <3>1, <3>2 DEF Journal, SameCall
    <3>4. j.op = mem[p].jm.op /\ j.paths = mem[p].jm.paths
      BY <3>3, MemType, AtFields DEF SameCall
    <3>5. /\ mem'[p].jm = j /\ mem'[p].todo = Orphans(p) /\ mem'[p].next = mem[p].next
          /\ mem'[p].undone = mem[p].undone /\ mem'[p].copies = mem[p].copies
      BY <3>1, TodoMem
    <3>6. \A f \in Path : o[f] = IF f \in Orphans(p) THEN "pending" ELSE mem[p].jm.orphans[f]
      BY <2>1, <3>1
    <3> QED
      BY <3>3, <3>4, <3>5, <3>6
  <2> QED
    BY <2>2, <2>3
<1>3. ASSUME NEW f \in Path
      PROVE  /\ FileOf(p, f)' /\ mem[p].jm.orphans[f] = "none"
             /\ Before(mem[p].jm, f)' = Before(mem[p].jm, f)
  <2>1. CASE f \in Files(plan[p].bundle)
    <3>1. ShippedFile(p, f) /\ f \notin Orphans(p)
      BY <1>1, <2>1, FilesByKind DEF Orphans
    <3>2. ShippedFile(p, f)'
      BY <1>1, <1>2, <2>1, <3>1 DEF ShippedFile, Snapped, Placed, disk
    <3>3. Before(mem[p].jm, f)' = Before(mem[p].jm, f)
      BY <1>1, <1>2, <3>1 DEF Before, disk
    <3> QED
      BY <1>1, <1>2, <2>1, <3>1, <3>2, <3>3 DEF FileOf, Files, ShippedFile
  <2>2. CASE f \notin Files(plan[p].bundle)
    <3>1. OtherFile(p, f)
      BY <1>1, <2>2, FilesByKind
    <3>2. mem[p].jm.paths[f].st = "none" /\ mem[p].jm.orphans[f] = "none" /\ f \notin mem[p].copies
      BY <1>1, <3>1 DEF OtherFile
    <3>3. f \in Owned(manifest) => live[f] = manifest.sha[f]
      BY <1>1, <3>2, WorkUsable DEF Recorded, Before, Early
    <3>4. f \in Orphans(p) <=> f \in Owned(manifest) \ Owned(mem[p].next)
      BY <2>2, <3>3 DEF Orphans, Owned
    <3>5. OtherFile(p, f)'
      BY <1>1, <1>2, <3>2, <3>3, <3>4 DEF OtherFile, Owned, disk
    <3>6. Before(mem[p].jm, f)' = Before(mem[p].jm, f)
      BY <1>1, <1>2, <3>2, <3>3, <3>4 DEF Before, disk
    <3> QED
      BY <1>1, <1>2, <2>2, <3>2, <3>5, <3>6 DEF FileOf, Files
  <2> QED
    BY <2>1, <2>2
<1>4. Agree(journal, mem[p].jm)'
  <2>1. \A f \in Path : Before(journal, f)' = Before(mem[p].jm, f)
    BY <1>1 DEF Before, Synced, disk
  <2>2. \A f \in Path : SameEntry(journal.paths[f], mem[p].jm.paths[f])'
    BY <1>1, <1>2 DEF SameEntry, Synced, disk
  <2>3. \A f \in Path : journal'.orphans[f] = "none"
    BY <1>1, <1>3 DEF Synced, disk
  <2> QED
    BY <1>3, <2>1, <2>2, <2>3 DEF Agree
<1>5. WorkInv(p)'
  BY <1>1, <1>2, <1>3, <1>4 DEF WorkInv
<1> QED
  BY <1>1, <1>3, <1>5, WorkUsable, WorkUsableNext DEF Early

LEMMA AnnounceWorks ==
    ASSUME TypeOK, TypeOK', CallInv, CallInv', NEW p \in Proc, WorkInv(p), Announce(p)
    PROVE  WorkInv(p)' /\ \A g \in Path : Stands(g)' = Stands(g)
<1>1. /\ pc[p] \in {"orphan", "remove"} /\ pc'[p] = "publish" /\ mem[p].todo = {}
      /\ UNCHANGED <<live, manifest, stage, plan>> /\ pc[p] \in Working /\ pc'[p] \in Working
  BY DEF Announce, TypeOK, Goto, Working, Installing, Removing
<1>2. /\ mem'[p].jm = journal' /\ mem'[p].todo = {} /\ mem'[p].next = mem[p].next
      /\ mem'[p].undone = mem[p].undone /\ mem'[p].copies = mem[p].copies
  BY TodoMem DEF Announce
<1>3. /\ mem'[p].jm.op = mem[p].jm.op /\ mem'[p].jm.paths = mem[p].jm.paths
      /\ mem'[p].jm.orphans = mem[p].jm.orphans /\ mem'[p].jm.claims = mem[p].jm.claims
      /\ mem'[p].jm.state = "publishing_manifest"
  BY <1>2, MemType, AtFields DEF Announce, SameCall
<1>4. ASSUME NEW f \in Path PROVE FileOf(p, f)'
  <2>1. CASE mem[p].jm.op = "uninstall"
    <3>1. pc[p] = "remove" /\ RemovedFile(p, f)
      BY <1>1, <2>1, FilesByKind DEF Installing
    <3>2. RemovedFile(p, f)'
      BY <1>1, <1>2, <1>3, <3>1 DEF RemovedFile
    <3> QED
      BY <1>3, <2>1, <3>2 DEF FileOf
  <2>2. CASE mem[p].jm.op = "install"
    <3>1. pc[p] = "orphan"
      BY <1>1, <2>2, FilesByKind DEF Removing
    <3>2. CASE f \in Files(plan[p].bundle)
      <4>1. ShippedFile(p, f)
        BY <1>1, <2>2, <3>2, FilesByKind
      <4>2. ShippedFile(p, f)'
        BY <1>1, <1>2, <1>3, <3>1, <4>1 DEF ShippedFile, Snapped, Placed
      <4> QED
        BY <1>1, <1>3, <2>2, <3>2, <4>2 DEF FileOf, Files
    <3>3. CASE f \notin Files(plan[p].bundle)
      <4>1. OtherFile(p, f)
        BY <1>1, <2>2, <3>3, FilesByKind
      <4>2. OtherFile(p, f)'
        BY <1>1, <1>2, <1>3, <3>1, <4>1 DEF OtherFile, Owned
      <4> QED
        BY <1>1, <1>3, <2>2, <3>3, <4>2 DEF FileOf, Files
    <3> QED
      BY <3>2, <3>3
  <2> QED
    BY <1>1, <2>1, <2>2, FilesByKind
<1>5. WorkInv(p)'
  BY <1>1, <1>2, <1>3, <1>4, FlushAgrees DEF WorkInv, Synced
<1>6. \A f \in Path : Before(mem[p].jm, f)' = Before(mem[p].jm, f)
  BY <1>1, <1>3 DEF Before
<1> QED
  BY <1>1, <1>5, <1>6, WorkUsable, WorkUsableNext DEF Early

LEMMA WriteStagingWorks ==
    ASSUME TypeOK, TypeOK', CallInv, CallInv', NEW p \in Proc, WorkInv(p), WriteStaging(p)
    PROVE  WorkInv(p)' /\ \A g \in Path : Stands(g)' = Stands(g)
<1>1. /\ pc[p] = "saving" /\ pc'[p] = "ready" /\ mem[p].todo = {} /\ mem' = mem
      /\ UNCHANGED <<live, manifest, stage, plan>> /\ pc[p] \in Working /\ pc'[p] \in Working
      /\ journal' = mem[p].jm /\ mem[p].jm.op = "uninstall"
  BY OpByPhase DEF WriteStaging, TypeOK, Goto, Working, Removing
<1>2. ASSUME NEW f \in Path
      PROVE  FileOf(p, f)' /\ Before(mem[p].jm, f)' = live[f]
  <2>1. RemovedFile(p, f)
    BY <1>1, FilesByKind
  <2>2. RemovedFile(p, f)'
    BY <1>1, <2>1 DEF RemovedFile
  <2>3. Before(mem[p].jm, f)' = live[f]
    BY <1>1, <2>1 DEF RemovedFile, Before
  <2> QED
    BY <1>1, <2>2, <2>3 DEF FileOf
<1>3. WorkInv(p)'
  BY <1>1, <1>2, FlushAgrees DEF WorkInv
<1> QED
  BY <1>1, <1>2, <1>3, WorkUsable, WorkUsableNext DEF Early

LEMMA UninstallIntentWorks ==
    ASSUME TypeOK, TypeOK', CallInv, CallInv', NEW p \in Proc, WorkInv(p), UninstallIntent(p)
    PROVE  WorkInv(p)' /\ \A g \in Path : Stands(g)' = Stands(g)
<1>1. /\ pc[p] = "ready" /\ pc'[p] = "remove"
      /\ UNCHANGED <<live, manifest, stage, plan>> /\ pc[p] \in Working /\ pc'[p] \in Working
      /\ mem[p].jm.op = "uninstall"
  BY OpByPhase DEF UninstallIntent, TypeOK, Goto, Working, Removing
<1>2. /\ mem'[p].jm = journal' /\ mem'[p].todo = Journaled(mem[p].jm)
      /\ mem'[p].undone = mem[p].undone
  BY TodoMem DEF UninstallIntent
<1>3. /\ mem'[p].jm.op = mem[p].jm.op /\ mem'[p].jm.paths = mem[p].jm.paths
      /\ mem'[p].jm.orphans = mem[p].jm.orphans /\ mem'[p].jm.claims = mem[p].jm.claims
  BY <1>2, MemType, AtFields DEF UninstallIntent, SameCall
<1>4. ASSUME NEW f \in Path
      PROVE  FileOf(p, f)' /\ Before(mem[p].jm, f)' = Before(mem[p].jm, f)
  <2>1. RemovedFile(p, f)
    BY <1>1, FilesByKind
  <2>2. RemovedFile(p, f)'
    BY <1>1, <1>2, <1>3, <2>1 DEF RemovedFile, Journaled
  <2> QED
    BY <1>1, <1>3, <2>2 DEF FileOf, Before
<1>5. WorkInv(p)'
  BY <1>1, <1>2, <1>3, <1>4, FlushAgrees DEF WorkInv
<1> QED
  BY <1>1, <1>4, <1>5, WorkUsable, WorkUsableNext DEF Early

LEMMA WriteJournalWorks ==
    ASSUME TypeOK, TypeOK', CallInv, CallInv', NEW p \in Proc, WorkInv(p), WriteJournal(p)
    PROVE  WorkInv(p)' /\ \A g \in Path : Stands(g)' = Stands(g)
<1>1. /\ pc[p] \in {"commit", "orphan", "remove"} /\ pc[p] \in Working
      /\ UNCHANGED <<live, manifest, stage, plan, pc, mem>> /\ journal' = mem'[p].jm
  BY DEF WriteJournal, Working, Installing, Removing
<1>2. \A f \in Path : FileOf(p, f)'
  <2>1. \A f \in Path : FileOf(p, f)' <=> FileOf(p, f)
    BY <1>1 DEF FileOf, RemovedFile, ShippedFile, OtherFile, Staged, Snapped, Ready, Placed, Owned
  <2> QED
    BY <2>1 DEF WorkInv
<1>3. WorkInv(p)'
  BY <1>1, <1>2, FlushAgrees DEF WorkInv
<1>4. \A f \in Path : Before(mem[p].jm, f)' = Before(mem[p].jm, f)
  BY <1>1 DEF Before
<1> QED
  BY <1>1, <1>3, <1>4, WorkUsable, WorkUsableNext DEF Early

LEMMA PhaseStepKeepsWork ==
    ASSUME TypeOK, TypeOK', CallInv, CallInv', NEW p \in Proc, WorkInv(p), Recorded,
           \/ StagingDone(p) \/ SnapshotsDone(p) \/ WriteIntent(p) \/ ListOrphans(p)
           \/ Announce(p) \/ UninstallIntent(p) \/ WriteJournal(p) \/ WriteStaging(p)
    PROVE  WorkInv(p)' /\ \A g \in Path : Stands(g)' = Stands(g)
BY StagingDoneWorks, SnapshotsDoneWorks, WriteIntentWorks, ListOrphansWorks, AnnounceWorks,
   UninstallIntentWorks, WriteJournalWorks, WriteStagingWorks

-----------------------------------------------------------------------------
(* The holder of the lock and the others.                                  *)

LEMMA OthersStill ==
    ASSUME TypeOK, NEW p \in Proc, Advance(p) \/ Err(p) \/ Takes(p), NEW q \in Proc \ {p}
    PROVE  pc'[q] = pc[q] /\ plan'[q] = plan[q]
<1>1. pc \in [Proc -> Phase] /\ plan \in [Proc -> Plan]
  BY SMTT(30) DEF TypeOK
<1>2. ASSUME NEW f \in Path,
             \/ StageFile(p, f) \/ SnapshotFile(p, f) \/ BackupFile(p, f)
             \/ CommitFile(p, f) \/ RemoveOrphan(p, f) \/ RemoveOrphanFails(p, f)
             \/ SaveOwned(p, f) \/ RemoveOwned(p, f) \/ UndoFile(p, f) \/ UndoFileFails(p, f)
      PROVE  pc'[q] = pc[q] /\ plan'[q] = plan[q]
  BY <1>2 DEF StageFile, SnapshotFile, BackupFile, CommitFile, RemoveOrphan,
              RemoveOrphanFails, SaveOwned, RemoveOwned, UndoFile, UndoFileFails
<1>3. CASE \/ StagingDone(p) \/ SnapshotsDone(p) \/ WriteIntent(p) \/ ListOrphans(p)
           \/ Announce(p) \/ PublishManifest(p) \/ WriteComplete(p) \/ WriteJournal(p)
           \/ WriteStaging(p) \/ UninstallIntent(p) \/ DropTrees(p)
  BY <1>1, <1>3 DEF StagingDone, SnapshotsDone, WriteIntent, ListOrphans, Announce,
              WriteJournal, PublishManifest, WriteComplete, WriteStaging, UninstallIntent,
              DropTrees, Goto
<1>4. CASE UndoDone(p) \/ DropJournal(p) \/ Fail(p) \/ WriteCompleteFails(p)
  BY <1>1, <1>4 DEF UndoDone, DropJournal, Fail, WriteCompleteFails, Leave, Goto
<1>5. CASE DropTreesFails(p) \/ DropJournalFails(p) \/ Crash(p)
  BY <1>1, <1>5, SMTT(30) DEF DropTreesFails, DropJournalFails, Crash, Leave, Goto
<1>6. CASE Takes(p)
  BY <1>1, <1>6 DEF Takes, BeginInstall, Start, EnterRecover, BeginUninstall, Goto
<1> QED
  BY <1>2, <1>3, <1>4, <1>5, <1>6 DEF Advance, Err

LEMMA OthersKeepMem ==
    ASSUME TypeOK, LockDiscipline, LockDiscipline', TxnInv, NEW p \in Proc,
           Advance(p) \/ Err(p) \/ Takes(p), NEW q \in Proc \ {p}
    PROVE  MemInv(q)'
<1>1. pc'[q] \notin Locked
  BY HolderIsAlone
<1>2. pc'[q] = pc[q] /\ plan'[q] = plan[q]
  BY OthersStill
<1>3. pc[q] = "planned" => plan[q].force \in Forcing
  BY DEF TxnInv, MemInv
<1> QED
  BY <1>1, <1>2, <1>3 DEF MemInv, Locked, Phase, Working, Installing, Removing

(* What a step owes when it publishes nothing.                             *)
LEMMA StepKeepsTxn ==
    ASSUME TypeOK, LockDiscipline, LockDiscipline', TxnInv, NEW p \in Proc,
           Advance(p) \/ Err(p) \/ Takes(p),
           manifest' = manifest, MemInv(p)', JournalUsable', OrphanInv',
           \A f \in Path : Stands(f)' = Stands(f)
    PROVE  TxnInv'
<1>1. Recorded'
  BY DEF TxnInv, Recorded, Owned
<1>2. SameFiles => \A b \in Bundle : Owned(manifest)' \subseteq Files(b)
  BY DEF TxnInv, Owned
<1>3. \A q \in Proc : MemInv(q)'
  BY OthersKeepMem
<1> QED
  BY <1>1, <1>2, <1>3 DEF TxnInv, SameFiles, Files

LEMMA WorkKeepsMem ==
    ASSUME NEW p \in Proc, pc'[p] \in Working, WorkInv(p)'
    PROVE  MemInv(p)'
BY DEF MemInv, Working, Installing, Removing

LEMMA HolderSeesOrphans ==
    ASSUME LockDiscipline, OrphanInv, NEW p \in Proc, pc[p] \in Locked \ {"orphan", "publish"}
    PROVE  ~Unpublished(journal) \/ NoOrphans(journal)
BY DEF LockDiscipline, OrphanInv, Locked, Phase

-----------------------------------------------------------------------------
(* The end of a command.                                                   *)

LEMMA OverUsable ==
    ASSUME TypeOK, journal = NoJournal \/ Published(manifest, journal)
    PROVE  ~Unpublished(journal)
BY NoJournalOver, PublishedOver DEF TypeOK

LEMMA WriteCompleteEnds ==
    ASSUME TypeOK, NEW p \in Proc, CleanInv(p), WriteComplete(p) \/ WriteCompleteFails(p)
    PROVE  /\ MemInv(p)' /\ JournalUsable' /\ OrphanInv' /\ manifest' = manifest
           /\ \A f \in Path : Stands(f)' = Stands(f)
<1>1. /\ pc[p] = "complete" /\ pc'[p] = "cleanup" /\ mem' = mem
      /\ UNCHANGED <<live, manifest, stage>>
  BY DEF WriteComplete, WriteCompleteFails, TypeOK, Goto
<1>2. /\ ~mem[p].undone /\ mem[p].jm.state = "complete"
      /\ journal = NoJournal \/ Published(manifest, journal)
  BY <1>1 DEF CleanInv
<1>3. /\ journal' = NoJournal \/ Published(manifest, journal)'
      /\ ~Unpublished(journal)'
  <2>1. CASE journal' = mem[p].jm
    BY <1>2, <2>1 DEF Published, Unpublished
  <2>2. CASE journal' = NoJournal
    BY <1>1, <2>2, NoJournalOver DEF Unpublished
  <2>3. CASE journal' = journal
    BY <1>1, <1>2, <2>3, OverUsable DEF Published, Unpublished
  <2> QED
    BY <2>1, <2>2, <2>3 DEF WriteComplete, WriteCompleteFails
<1>4. ~Unpublished(journal)
  BY <1>2, OverUsable
<1>5. MemInv(p)'
  BY <1>1, <1>2, <1>3 DEF MemInv, CleanInv, Working, Installing, Removing
<1>6. JournalUsable' /\ OrphanInv'
  BY <1>3 DEF JournalUsable, OrphanInv
<1> QED
  BY <1>1, <1>3, <1>4, <1>5, <1>6 DEF Stands

(* Snapshots may go where nothing needs them.                              *)
LEMMA ShrinkingStage ==
    ASSUME JournalUsable, NEW p \in Proc, CleanInv(p), TypeOK,
           UNCHANGED <<live, manifest, journal>>,
           \A f \in Path : stage'[f] \in {stage[f], Absent}
    PROVE  JournalUsable' /\ \A f \in Path : Stands(f)' = Stands(f)
<1>1. Unpublished(journal)' <=> Unpublished(journal)
  BY DEF Unpublished
<1>2. \A f \in Path : Stands(f)' = Stands(f)
  BY <1>1 DEF Stands, Before
<1>3. CASE ~Unpublished(journal)
  <2>1. journal = NoJournal \/ Published(manifest, journal)
    BY <1>3 DEF JournalUsable
  <2>2. journal' = NoJournal \/ Published(manifest, journal)'
    BY <2>1 DEF Published
  <2> QED
    BY <1>1, <1>2, <1>3, <2>2 DEF JournalUsable
<1>4. CASE Unpublished(journal)
  <2>1. mem[p].undone
    BY <1>4, OverUsable DEF CleanInv
  <2>2. ASSUME NEW f \in Path, journal.paths[f].st # "none"
        PROVE  Undoable(journal.op, journal.paths[f], live[f], stage'[f])
    <3>1. live[f] = journal.paths[f].orig
      BY <2>1, <2>2 DEF CleanInv, Journaled
    <3>2. Undoable(journal.op, journal.paths[f], live[f], stage[f])
      BY <1>4, <2>2 DEF JournalUsable, CanUndo
    <3> QED
      BY <3>1, <3>2 DEF Undoable
  <2> QED
    BY <1>1, <1>2, <1>4, <2>2 DEF JournalUsable, CanUndo
<1> QED
  BY <1>2, <1>3, <1>4

LEMMA DropTreesEnds ==
    ASSUME TypeOK, LockDiscipline, JournalUsable, OrphanInv, NEW p \in Proc, CleanInv(p),
           DropTrees(p) \/ DropTreesFails(p)
    PROVE  /\ MemInv(p)' /\ JournalUsable' /\ OrphanInv' /\ manifest' = manifest
           /\ \A f \in Path : Stands(f)' = Stands(f)
<1>1. /\ pc[p] = "cleanup" /\ UNCHANGED <<live, manifest, journal>>
      /\ \/ pc'[p] = "unlink" /\ mem' = mem
         \/ pc'[p] = "idle"
      /\ \A f \in Path : stage'[f] \in {stage[f], Absent}
  BY DEF DropTrees, DropTreesFails, EmptyTree, TypeOK, Goto, Leave
<1>2. JournalUsable' /\ \A f \in Path : Stands(f)' = Stands(f)
  BY <1>1, ShrinkingStage
<1>3. OrphanInv'
  BY <1>1, HolderSeesOrphans DEF Locked, Phase, OrphanInv, Unpublished, NoOrphans
<1>4. MemInv(p)'
  BY <1>1 DEF MemInv, CleanInv, Working, Installing, Removing, Published, Journaled
<1> QED
  BY <1>1, <1>2, <1>3, <1>4

LEMMA DropJournalEnds ==
    ASSUME TypeOK, LockDiscipline, JournalUsable, OrphanInv, NEW p \in Proc, CleanInv(p),
           DropJournal(p) \/ DropJournalFails(p)
    PROVE  /\ MemInv(p)' /\ JournalUsable' /\ OrphanInv' /\ manifest' = manifest
           /\ \A f \in Path : Stands(f)' = Stands(f)
<1>1. /\ pc[p] = "unlink" /\ pc'[p] = "idle" /\ UNCHANGED <<live, manifest, stage>>
      /\ journal' \in {NoJournal, journal}
  BY DEF DropJournal, DropJournalFails, TypeOK, Goto, Leave, disk
<1>2. MemInv(p)'
  BY <1>1 DEF MemInv, Working, Installing, Removing
<1>3. ~Unpublished(journal) \/ NoOrphans(journal)
  BY <1>1, HolderSeesOrphans DEF Locked, Phase
<1>4. CASE journal' = journal
  BY <1>1, <1>2, <1>3, <1>4
     DEF JournalUsable, OrphanInv, Stands, Before, Unpublished, CanUndo, Published, NoOrphans
<1>5. CASE journal' = NoJournal
  <2>1. ~Unpublished(journal)'
    BY <1>1, <1>5, NoJournalOver DEF Unpublished
  <2>2. \A f \in Path : Stands(f) = live[f]
    <3>1. CASE ~Unpublished(journal)
      BY <3>1 DEF Stands
    <3>2. CASE Unpublished(journal)
      <4>1. mem[p].undone
        BY <3>2, OverUsable DEF CleanInv
      <4>2. \A f \in Journaled(journal) : live[f] = journal.paths[f].orig
        BY <4>1 DEF CleanInv
      <4> QED
        BY <1>3, <3>2, <4>2 DEF Stands, Before, NoOrphans, Journaled
    <3> QED
      BY <3>1, <3>2
  <2> QED
    BY <1>1, <1>2, <1>5, <2>1, <2>2 DEF JournalUsable, OrphanInv, Stands
<1> QED
  BY <1>1, <1>4, <1>5

-----------------------------------------------------------------------------
(* Rollback.  What can be undone is undone: the path gets back what it     *)
(* held, and the file counts as restored.                                  *)

LEMMA RestoredUndoes ==
    ASSUME NEW op \in {"install", "uninstall"}, NEW e \in PathEntry, NEW cur, NEW snap,
           Undoable(op, e, cur, snap)
    PROVE  /\ Restored(op, e, cur, snap).leaf = e.orig
           /\ Restored(op, e, cur, snap).ok
           /\ Restored(op, e, cur, snap).snap \in {e.orig, Absent}
<1>1. CASE e.st = "retained"
  BY <1>1 DEF Restored, Undoable
<1>2. CASE e.st # "retained" /\ e.saved = "none"
  BY <1>2 DEF Restored, Undoable
<1>3. CASE e.st # "retained" /\ e.saved = "rollback"
  BY <1>3 DEF Restored, Undoable
<1> QED
  BY <1>1, <1>2, <1>3 DEF Undoable

LEMMA UndoUsable ==
    ASSUME NEW p \in Proc
    PROVE  TypeOK /\ UndoInv(p) =>
             /\ JournalUsable
             /\ ~Unpublished(journal) \/ NoOrphans(journal)
             /\ \A f \in Path : Stands(f) = IF journal = NoJournal THEN live[f] ELSE Before(mem[p].jm, f)
<1> SUFFICES ASSUME TypeOK, UndoInv(p)
             PROVE  /\ JournalUsable
                    /\ ~Unpublished(journal) \/ NoOrphans(journal)
                    /\ \A f \in Path : Stands(f) = IF journal = NoJournal THEN live[f] ELSE Before(mem[p].jm, f)
  OBVIOUS
<1>1. CASE journal = NoJournal
  BY <1>1, NoJournalOver DEF JournalUsable, Stands
<1>2. CASE journal # NoJournal
  <2>1. /\ Unpublished(journal) /\ SameCall(journal, mem[p].jm) /\ Agree(journal, mem[p].jm)
        /\ CanUndo(mem[p].jm) /\ NoOrphans(mem[p].jm)
    BY <1>2 DEF UndoInv
  <2>2. JournalUsable
    BY <2>1, AgreeUsable DEF JournalUsable, SameCall
  <2> QED
    BY <1>2, <2>1, <2>2 DEF Agree, NoOrphans, Stands
<1> QED
  BY <1>1, <1>2

LEMMA UndoUsableNext ==
    ASSUME NEW p \in Proc, TypeOK', UndoInv(p)'
    PROVE  /\ JournalUsable' /\ OrphanInv'
           /\ \A f \in Path : Stands(f)' = IF journal' = NoJournal THEN live'[f] ELSE Before(mem[p].jm, f)'
<1>1. (TypeOK /\ UndoInv(p) =>
             /\ JournalUsable
             /\ ~Unpublished(journal) \/ NoOrphans(journal)
             /\ \A f \in Path : Stands(f) = IF journal = NoJournal THEN live[f] ELSE Before(mem[p].jm, f))'
  BY UndoUsable, PTL
<1> QED
  BY <1>1 DEF OrphanInv

LEMMA UndoFileUndoes ==
    ASSUME TypeOK, TypeOK', NEW p \in Proc, UndoInv(p), NEW f \in Path, UndoFile(p, f)
    PROVE  /\ MemInv(p)' /\ JournalUsable' /\ OrphanInv' /\ manifest' = manifest
           /\ \A g \in Path : Stands(g)' = Stands(g)
<1> DEFINE j == mem[p].jm
           e == j.paths[f]
<1>1. /\ pc[p] = "undo" /\ f \in mem[p].todo /\ UNCHANGED <<manifest, journal, pc>>
  BY DEF UndoFile
<1>2. Undoable(j.op, e, live[f], stage[f]) /\ f \in Journaled(j)
  BY <1>1, SMTT(30) DEF UndoInv, CanUndo, Journaled
<1>3. PICK r : /\ r.leaf = e.orig /\ r.ok /\ r.snap \in {e.orig, Absent}
               /\ live' = [live EXCEPT ![f] = r.leaf] /\ stage' = [stage EXCEPT ![f] = r.snap]
               /\ Set(p, [mem[p] EXCEPT !.todo = @ \ {f}, !.ok = @ /\ r.ok])
  <2>1. e \in PathEntry /\ j.op \in {"install", "uninstall"}
    BY MemType DEF Journal
  <2>2. PICK r : r = Restored(j.op, e, live[f], stage[f])
    OBVIOUS
  <2>3. r.leaf = e.orig /\ r.ok /\ r.snap \in {e.orig, Absent}
    BY <1>2, <2>1, <2>2, RestoredUndoes
  <2>4. /\ live' = [live EXCEPT ![f] = r.leaf] /\ stage' = [stage EXCEPT ![f] = r.snap]
        /\ Set(p, [mem[p] EXCEPT !.todo = @ \ {f}, !.ok = @ /\ r.ok])
    BY <2>2, Zenon DEF UndoFile
  <2> QED
    BY <2>3, <2>4
<1>4. /\ live'[f] = e.orig /\ stage'[f] \in {e.orig, Absent}
      /\ \A g \in Path \ {f} : live'[g] = live[g] /\ stage'[g] = stage[g]
  BY <1>3 DEF TypeOK
<1>5. /\ mem'[p].jm = j /\ mem'[p].todo = mem[p].todo \ {f} /\ mem'[p].undone = mem[p].undone
      /\ mem'[p].ok => mem[p].ok
  <2>1. mem[p] \in Mem /\ mem' = [mem EXCEPT ![p] = [mem[p] EXCEPT !.todo = @ \ {f}, !.ok = @ /\ r.ok]]
    BY <1>3 DEF TypeOK, Set
  <2> QED
    BY <2>1 DEF TypeOK, Mem
<1>6. PICK k, d : k = j /\ d = journal
  OBVIOUS
<1>7. \A g \in Path : /\ k.paths[g].st # "none" =>
                            Undoable(k.op, k.paths[g], live'[g], stage'[g])
                      /\ k.paths[g].st # "none" /\ live[g] = k.paths[g].orig =>
                            live'[g] = k.paths[g].orig
                      /\ k.paths[g].st = "none" => live'[g] = live[g]
  <2> TAKE g \in Path
  <2>1. CASE g = f
    BY <1>2, <1>4, <1>6, <2>1 DEF Undoable, Journaled
  <2>2. CASE g # f
    BY <1>4, <1>6, <2>2 DEF UndoInv, CanUndo
  <2> QED
    BY <2>1, <2>2
<1>8. CanUndo(mem[p].jm)' /\ Unpublished(mem[p].jm)' /\ NoOrphans(mem[p].jm)'
  BY <1>1, <1>5, <1>6, <1>7 DEF CanUndo, Unpublished, NoOrphans, UndoInv
<1>9. CASE journal = NoJournal
  <2>1. \A g \in Path : live'[g] = live[g]
    BY <1>6, <1>7, <1>9 DEF UndoInv, Journaled
  <2>2. UndoInv(p)'
    BY <1>1, <1>4, <1>5, <1>8, <1>9, <2>1 DEF UndoInv, Journaled
  <2> QED
    BY <1>1, <1>9, <2>1, <2>2, UndoUsable, UndoUsableNext DEF MemInv, Working, Installing, Removing
<1>10. CASE journal # NoJournal
  <2>1. Unpublished(d) /\ SameCall(d, k) /\ Agree(d, k) /\ NoOrphans(k)
    BY <1>6, <1>10 DEF UndoInv
  <2>2. \A g \in Path : d.orphans[g] = "none" /\ k.orphans[g] = "none"
    BY <2>1 DEF Agree, NoOrphans
  <2>3. \A g \in Path : Before(d, g)' = Before(d, g) /\ Before(k, g)' = Before(k, g)
    BY <1>1, <1>7, <2>1, <2>2 DEF Before, Agree, SameEntry
  <2>4. Agree(d, k)'
    BY <2>1, <2>3, SMTT(30) DEF Agree, SameEntry
  <2>5. Agree(journal, mem[p].jm)' /\ SameCall(journal, mem[p].jm)' /\ Unpublished(journal)'
    BY <1>1, <1>5, <1>6, <2>1, <2>4, SMTT(30) DEF Agree, SameEntry, SameCall, Unpublished, Before
  <2>6. UndoInv(p)'
    BY <1>1, <1>4, <1>5, <1>6, <1>7, <1>8, <1>10, <2>5 DEF UndoInv, Journaled
  <2>7. \A g \in Path : Before(mem[p].jm, g)' = Before(mem[p].jm, g)
    BY <1>5, <1>6, <2>3 DEF Before
  <2> QED
    BY <1>1, <1>10, <2>6, <2>7, UndoUsable, UndoUsableNext DEF MemInv, Working, Installing, Removing
<1> QED
  BY <1>9, <1>10

LEMMA UndoFileFailsUndoes ==
    ASSUME TypeOK, TypeOK', NEW p \in Proc, UndoInv(p), NEW f \in Path, UndoFileFails(p, f)
    PROVE  /\ MemInv(p)' /\ JournalUsable' /\ OrphanInv' /\ manifest' = manifest
           /\ \A g \in Path : Stands(g)' = Stands(g)
<1>1. /\ pc[p] = "undo" /\ UNCHANGED <<disk, pc>>
      /\ mem'[p].jm = mem[p].jm /\ mem'[p].todo = mem[p].todo \ {f}
      /\ mem'[p].undone = mem[p].undone /\ ~mem'[p].ok
  <2>1. mem[p] \in Mem /\ mem' = [mem EXCEPT ![p] = [mem[p] EXCEPT !.todo = @ \ {f}, !.ok = FALSE]]
    BY DEF UndoFileFails, TypeOK, Set
  <2> QED
    BY <2>1 DEF UndoFileFails, TypeOK, Mem
<1>2. UNCHANGED <<live, stage, manifest, journal>>
  BY <1>1 DEF disk
<1>3. CanUndo(mem[p].jm)' /\ Unpublished(mem[p].jm)' /\ NoOrphans(mem[p].jm)'
  BY <1>1, <1>2 DEF UndoInv, CanUndo, Unpublished, NoOrphans
<1>4. \A g \in Path : /\ Before(mem[p].jm, g)' = Before(mem[p].jm, g)
                      /\ Before(journal, g)' = Before(journal, g)
  BY <1>1, <1>2 DEF Before
<1>5. journal # NoJournal =>
         Agree(journal, mem[p].jm)' /\ SameCall(journal, mem[p].jm)' /\ Unpublished(journal)'
  BY <1>1, <1>2, <1>4 DEF UndoInv, Agree, SameEntry, SameCall, Unpublished
<1>6. UndoInv(p)'
  BY <1>1, <1>2, <1>3, <1>5 DEF UndoInv, Journaled
<1> QED
  BY <1>1, <1>2, <1>4, <1>6, UndoUsable, UndoUsableNext DEF MemInv, Working, Installing, Removing

(* A step that leaves the disk alone.                                      *)
LEMMA SameDisk ==
    ASSUME JournalUsable, UNCHANGED disk, ~Unpublished(journal) \/ NoOrphans(journal)
    PROVE  /\ JournalUsable' /\ OrphanInv' /\ manifest' = manifest
           /\ \A g \in Path : Stands(g)' = Stands(g)
<1>1. UNCHANGED <<live, stage, manifest, journal>>
  BY DEF disk
<1>2. Unpublished(journal)' <=> Unpublished(journal)
  BY <1>1 DEF Unpublished
<1>3. \A g \in Path : Stands(g)' = Stands(g)
  BY <1>1, <1>2 DEF Stands, Before
<1>4. OrphanInv'
  BY <1>1, <1>2 DEF OrphanInv, NoOrphans
<1>5. CanUndo(journal) => CanUndo(journal)'
  BY <1>1 DEF CanUndo
<1>6. (journal = NoJournal \/ Published(manifest, journal))
         => (journal = NoJournal \/ Published(manifest, journal))'
  BY <1>1 DEF Published
<1> QED
  BY <1>1, <1>2, <1>3, <1>4, <1>5, <1>6 DEF JournalUsable

LEMMA UndoDoneEnds ==
    ASSUME TypeOK, NEW p \in Proc, UndoInv(p), UndoDone(p)
    PROVE  /\ MemInv(p)' /\ JournalUsable' /\ OrphanInv' /\ manifest' = manifest
           /\ \A g \in Path : Stands(g)' = Stands(g)
<1>1. /\ UNCHANGED disk /\ mem[p].todo = {}
      /\ \/ pc'[p] = "cleanup" /\ mem' = mem /\ mem[p].ok
         \/ pc'[p] = "idle"
  BY DEF UndoDone, TypeOK, Goto, Leave
<1>2. mem[p].ok => \A f \in Journaled(journal) : live[f] = journal.paths[f].orig
  <2>1. CASE journal = NoJournal
    BY <2>1 DEF Journaled, NoJournal, NewJournal, NoEntry
  <2>2. CASE journal # NoJournal
    BY <1>1, <2>2 DEF UndoInv, Agree, SameEntry, Journaled
  <2> QED
    BY <2>1, <2>2
<1>3. MemInv(p)'
  BY <1>1, <1>2 DEF MemInv, CleanInv, UndoInv, Working, Installing, Removing, disk, Journaled
<1> QED
  BY <1>1, <1>3, SameDisk, UndoUsable

LEMMA EnterRecoverUndoes ==
    ASSUME TypeOK, LockDiscipline, JournalUsable, OrphanInv, NEW p \in Proc, EnterRecover(p)
    PROVE  /\ MemInv(p)' /\ JournalUsable' /\ OrphanInv' /\ manifest' = manifest
           /\ \A g \in Path : Stands(g)' = Stands(g)
<1>1. ~Unpublished(journal) \/ NoOrphans(journal)
  BY BoundAssumption DEF LockDiscipline, OrphanInv, EnterRecover, Locked, Phase
<1>2. /\ UNCHANGED disk /\ journal # NoJournal
      /\ pc'[p] = IF Published(manifest, journal) THEN "cleanup" ELSE "undo"
      /\ mem'[p].jm = journal /\ mem'[p].undone = ~Published(manifest, journal)
      /\ mem'[p].todo = Journaled(journal)
  BY DEF EnterRecover, TypeOK, Goto, Set, NoMem
<1>3. UNCHANGED <<live, stage, manifest, journal>>
  BY <1>2 DEF disk
<1>4. CASE Published(manifest, journal)
  <2>1. Published(manifest, journal)'
    BY <1>3, <1>4 DEF Published
  <2>2. pc'[p] = "cleanup" /\ ~mem'[p].undone
    BY <1>2, <1>4
  <2>3. MemInv(p)'
    BY <2>1, <2>2 DEF MemInv, CleanInv, Working, Installing, Removing
  <2> QED
    BY <1>1, <1>2, <2>3, SameDisk
<1>5. CASE ~Published(manifest, journal)
  <2>1. Unpublished(journal) /\ CanUndo(journal) /\ NoOrphans(journal)
    BY <1>1, <1>2, <1>5 DEF JournalUsable
  <2>2. Unpublished(mem[p].jm)' /\ CanUndo(mem[p].jm)' /\ NoOrphans(mem[p].jm)' /\ Unpublished(journal)'
    BY <1>2, <1>3, <2>1 DEF Unpublished, CanUndo, NoOrphans
  <2>3. SameCall(journal, mem[p].jm)' /\ Agree(journal, mem[p].jm)'
    BY <1>2, <1>3, FlushAgrees DEF SameCall
  <2>4. pc'[p] = "undo" /\ mem'[p].undone
    BY <1>2, <1>5
  <2>5. UndoInv(p)'
    BY <1>2, <1>3, <2>2, <2>3, <2>4 DEF UndoInv, Journaled
  <2>6. MemInv(p)'
    BY <2>4, <2>5 DEF MemInv, Working, Installing, Removing
  <2> QED
    BY <1>1, <1>2, <2>6, SameDisk
<1> QED
  BY <1>4, <1>5

-----------------------------------------------------------------------------
(* Errors and deaths while a command works.                                *)

(* Orphans are in the journal only from their removal on, and only if a    *)
(* bundle can drop a file.                                                 *)
LEMMA WorkNoOrphans ==
    ASSUME CallInv, NEW p \in Proc, pc[p] \in Working, WorkInv(p), TypeOK,
           \/ pc[p] \notin {"orphan", "publish"}
           \/ \A b \in Bundle : Owned(manifest) \subseteq Files(b)
    PROVE  NoOrphans(mem[p].jm)
<1> SUFFICES ASSUME NEW f \in Path PROVE mem[p].jm.orphans[f] = "none"
  BY DEF NoOrphans
<1>1. CASE mem[p].jm.op = "uninstall"
  BY <1>1, FilesByKind DEF RemovedFile
<1>2. CASE mem[p].jm.op = "install" /\ f \in Files(plan[p].bundle)
  BY <1>2, FilesByKind DEF ShippedFile
<1>3. CASE mem[p].jm.op = "install" /\ f \notin Files(plan[p].bundle)
  <2>1. plan[p].bundle \in Bundle
    BY DEF TypeOK, Plan
  <2> QED
    BY <1>3, <2>1, FilesByKind DEF OtherFile
<1> QED
  BY <1>1, <1>2, <1>3, FilesByKind

LEMMA CrashLeaves ==
    ASSUME TypeOK, QuietRoot, LockDiscipline, CallInv, TxnInv, NEW p \in Proc, Crash(p)
    PROVE  /\ MemInv(p)' /\ JournalUsable' /\ OrphanInv' /\ manifest' = manifest
           /\ \A g \in Path : Stands(g)' = Stands(g)
<1>1. UNCHANGED disk /\ pc'[p] = "idle" /\ pc[p] \in Locked /\ pc[p] \in CrashPhase
  BY DEF Crash, TypeOK, Goto, Leave
<1>2. MemInv(p)'
  BY <1>1 DEF MemInv, Working, Installing, Removing
<1>3. ~Unpublished(journal) \/ NoOrphans(journal)
  <2>1. CASE pc[p] \notin {"orphan", "publish"}
    BY <1>1, <2>1, HolderSeesOrphans DEF TxnInv
  <2>2. CASE pc[p] \in {"orphan", "publish"}
    <3>1. pc[p] \in Working /\ pc[p] \notin Early
      BY <2>2 DEF Working, Installing, Early
    <3>2. WorkInv(p) /\ \A b \in Bundle : Owned(manifest) \subseteq Files(b)
      BY <1>1, <2>2, <3>1 DEF QuietRoot, TxnInv, MemInv
    <3>3. NoOrphans(mem[p].jm) /\ Agree(journal, mem[p].jm)
      BY <3>1, <3>2, WorkNoOrphans DEF WorkInv
    <3> QED
      BY <3>3 DEF Agree, NoOrphans
  <2> QED
    BY <2>1, <2>2
<1> QED
  BY <1>1, <1>2, <1>3, SameDisk DEF TxnInv

LEMMA FailUndoes ==
    ASSUME TypeOK, TypeOK', QuietRoot, CallInv, TxnInv, NEW p \in Proc, Fail(p)
    PROVE  /\ MemInv(p)' /\ JournalUsable' /\ OrphanInv' /\ manifest' = manifest
           /\ \A g \in Path : Stands(g)' = Stands(g)
<1> DEFINE j == mem[p].jm
<1>1. /\ pc[p] \in Working /\ pc[p] \notin {"staging", "snapshot"}
      /\ pc[p] \in {"orphan", "publish"} => pc[p] \in FaultPhase
  <2>1. pc[p] \in FaultPhase \/ pc[p] \in {"commit", "backup", "saving"}
    BY DEF Fail, Conflict
  <2>2. pc[p] \in Working
    BY DEF Fail, Locked, Phase, Working, Installing, Removing
  <2> QED
    BY <2>1, <2>2 DEF QuietRoot
<1>2. WorkInv(p)
  BY <1>1 DEF TxnInv, MemInv
<1>3. /\ Unpublished(j) /\ CanUndo(j) /\ NoOrphans(j) /\ j \in Journal
      /\ IF pc[p] \in Early THEN journal = NoJournal ELSE Unpublished(journal)
  BY <1>1, <1>2, CallUnpublished, WorkCanUndo, WorkNoOrphans, MemType DEF QuietRoot, TxnInv
<1>4. UNCHANGED <<live, manifest, stage>> /\ ~Published(manifest, j)
  BY <1>3, PublishedOver DEF Fail
<1>5. /\ Set(p, [mem[p] EXCEPT !.jm = At(@, "rollback"), !.undone = TRUE, !.todo = Journaled(j)])
      /\ journal' \in {At(j, "rollback"), journal}
      /\ pc'[p] = "undo"
  BY <1>4 DEF Fail, TypeOK, Goto
<1>6. /\ mem'[p].jm = At(j, "rollback") /\ mem'[p].undone /\ mem'[p].todo = Journaled(j)
  <2>1. mem[p] \in Mem
    BY DEF TypeOK
  <2> QED
    BY <1>5, <2>1 DEF Set, Mem, TypeOK
<1>7. PICK k : k = At(j, "rollback")
  OBVIOUS
<1>8. /\ SameCall(k, j) /\ k.state = "rollback" /\ k.orphans = j.orphans /\ k.paths = j.paths
  BY <1>3, <1>7, AtFields
<1>9. Unpublished(k) /\ CanUndo(k) /\ NoOrphans(k) /\ Journaled(k) = Journaled(j)
  BY <1>3, <1>8 DEF Unpublished, CanUndo, NoOrphans, Journaled, SameCall
<1>10. \A f \in Path : Before(k, f)' = Before(j, f)
  BY <1>4, <1>8 DEF Before
<1>11. Unpublished(mem[p].jm)' /\ CanUndo(mem[p].jm)' /\ NoOrphans(mem[p].jm)'
  BY <1>4, <1>6, <1>7, <1>9 DEF Unpublished, CanUndo, NoOrphans
<1>12. ASSUME pc[p] \in Early, NEW f \in Path
       PROVE  Before(j, f) = live[f] /\ (f \in Journaled(j) => live[f] = j.paths[f].orig)
  <2>1. CASE j.op = "uninstall"
    <3>1. RemovedFile(p, f) /\ pc[p] = "saving"
      BY <1>1, <1>2, <1>12, <2>1, FilesByKind DEF Early, Installing
    <3> QED
      BY <3>1 DEF RemovedFile, Before, Journaled
  <2>2. CASE j.op = "install" /\ f \in Files(plan[p].bundle)
    <3>1. ShippedFile(p, f) /\ pc[p] = "backup"
      BY <1>1, <1>2, <1>12, <2>2, FilesByKind DEF Early, Removing
    <3> QED
      BY <3>1 DEF ShippedFile, Snapped, Ready, Before, Journaled
  <2>3. CASE j.op = "install" /\ f \notin Files(plan[p].bundle)
    <3>1. OtherFile(p, f) /\ pc[p] = "backup"
      BY <1>1, <1>2, <1>12, <2>3, FilesByKind DEF Early, Removing
    <3> QED
      BY <3>1 DEF OtherFile, Before, Journaled
  <2> QED
    BY <1>1, <1>2, <2>1, <2>2, <2>3, FilesByKind
<1>13. journal' # NoJournal =>
         Unpublished(journal)' /\ SameCall(journal, mem[p].jm)' /\ Agree(journal, mem[p].jm)'
  <2>1. CASE journal' = At(j, "rollback")
    BY <1>6, <1>11, <2>1, FlushAgrees DEF SameCall, Unpublished
  <2>2. CASE journal' = journal /\ journal # NoJournal
    <3>1. Agree(journal, j) /\ SameCall(journal, j) /\ Unpublished(journal)
      BY <1>1, <1>2, <1>3, <2>2 DEF WorkInv, CallInv, JournalOf
    <3>2. \A f \in Path : Before(journal, f)' = Before(journal, f)
      BY <1>4, <2>2, SMTT(30) DEF Before
    <3>3. Agree(journal, mem[p].jm)'
      BY <1>6, <1>7, <1>8, <1>10, <2>2, <3>1, <3>2 DEF Agree, SameEntry, Before
    <3> QED
      BY <1>4, <1>6, <1>7, <1>8, <2>2, <3>1, <3>3 DEF SameCall, Unpublished
  <2> QED
    BY <1>5, <2>1, <2>2
<1>14. journal' = NoJournal => pc[p] \in Early
  BY <1>3, <1>5, <1>7, <1>8, NoJournalOver DEF NoJournal, NewJournal
<1>15. UndoInv(p)'
  <2>1. \A f \in Path : live'[f] = live[f] /\ mem'[p].jm.paths[f] = j.paths[f]
    BY <1>4, <1>6, <1>7, <1>8
  <2>2. Journaled(mem[p].jm)' = Journaled(j)
    BY <1>6, <1>7, <1>9 DEF Journaled
  <2>3. journal' = NoJournal => \A f \in Journaled(j) : live'[f] = mem'[p].jm.paths[f].orig
    BY <1>12, <1>14, <2>1 DEF Journaled
  <2> QED
    BY <1>6, <1>11, <1>13, <2>2, <2>3 DEF UndoInv
<1>16. \A f \in Path : Stands(f)' = Stands(f)
  <2> TAKE f \in Path
  <2>1. Stands(f)' = IF journal' = NoJournal THEN live'[f] ELSE Before(mem[p].jm, f)'
    BY <1>15, UndoUsableNext
  <2>2. Before(mem[p].jm, f)' = Before(j, f)
    BY <1>6, <1>7, <1>10 DEF Before
  <2>3. Stands(f) = IF pc[p] \in Early THEN live[f] ELSE Before(j, f)
    BY <1>1, <1>2, WorkUsable
  <2> QED
    BY <1>4, <1>12, <1>14, <2>1, <2>2, <2>3
<1>17. MemInv(p)'
  BY <1>5, <1>15 DEF MemInv, Working, Installing, Removing
<1> QED
  BY <1>4, <1>15, <1>16, <1>17, UndoUsableNext

-----------------------------------------------------------------------------
(* The start of a command.                                                 *)

LEMMA BeginInstallWorks ==
    ASSUME TypeOK, TypeOK', CallInv', TxnInv, NEW p \in Proc, BeginInstall(p)
    PROVE  /\ MemInv(p)' /\ JournalUsable' /\ OrphanInv' /\ manifest' = manifest
           /\ \A g \in Path : Stands(g)' = Stands(g)
<1>1. /\ journal = NoJournal /\ UNCHANGED <<live, manifest, journal, plan>> /\ stage' = EmptyTree
      /\ pc[p] = "planned" /\ pc'[p] = "staging" /\ Start(p, manifest)
  BY DEF BeginInstall, Start, NewTrees, PlanHolds, TypeOK, Goto
<1>2. PICK c \in plan[p].claims :
         Set(p, [NoMem EXCEPT
             !.jm     = NewJournal("staging", "install", {c}, manifest.gen + 1),
             !.next   = WithClaim(manifest, c, plan[p].bundle),
             !.copies = {f \in Files(plan[p].bundle) : Kind(p, f) = "backup"},
             !.todo   = Files(plan[p].bundle)])
  BY <1>1 DEF Start
<1>3. /\ mem'[p].jm = NewJournal("staging", "install", {c}, manifest.gen + 1)
      /\ mem'[p].copies \subseteq Files(plan[p].bundle)
      /\ mem'[p].todo = Files(plan[p].bundle) /\ ~mem'[p].undone
  BY <1>2 DEF Set, NoMem, TypeOK
<1>4. ASSUME NEW f \in Path PROVE FileOf(p, f)'
  <2>1. /\ mem'[p].jm.op = "install" /\ mem'[p].jm.paths[f].st = "none"
        /\ mem'[p].jm.orphans[f] = "none"
    BY <1>3 DEF NewJournal, NoEntry
  <2>2. stage'[f] = Absent
    BY <1>1 DEF EmptyTree
  <2> QED
    BY <1>1, <1>3, <2>1, <2>2 DEF FileOf, ShippedFile, OtherFile, Files
<1>5. plan[p].force \in Forcing
  BY <1>1 DEF TxnInv, MemInv
<1>6. WorkInv(p)'
  BY <1>1, <1>3, <1>4, <1>5 DEF WorkInv, Early
<1>7. pc'[p] \in Working /\ pc'[p] \in Early
  BY <1>1 DEF Working, Installing, Early
<1>8. \A g \in Path : Stands(g) = live[g]
  BY <1>1, NoJournalOver DEF Stands
<1> QED
  BY <1>1, <1>6, <1>7, <1>8, WorkUsableNext, WorkKeepsMem

LEMMA BeginUninstallWorks ==
    ASSUME TypeOK, TypeOK', CallInv', TxnInv, NEW p \in Proc, NEW c \in Claim, BeginUninstall(p, c)
    PROVE  /\ MemInv(p)' /\ JournalUsable' /\ OrphanInv' /\ manifest' = manifest
           /\ \A g \in Path : Stands(g)' = Stands(g)
<1>1. /\ journal = NoJournal /\ UNCHANGED <<live, manifest, journal, plan>>
      /\ pc'[p] = "saving"
  BY DEF BeginUninstall, TypeOK, Goto
<1>2. /\ mem'[p].jm = NewJournal("staging", "uninstall", {c}, manifest.gen + 1)
      /\ mem'[p].todo = {f \in SoleOwned(manifest, c) : live[f] = manifest.sha[f]}
      /\ ~mem'[p].undone
  BY DEF BeginUninstall, Set, NoMem, TypeOK
<1>3. \A g \in Path : Stands(g) = live[g]
  BY <1>1, NoJournalOver DEF Stands
<1>4. ASSUME NEW f \in Path PROVE FileOf(p, f)'
  <2>1. /\ mem'[p].jm.op = "uninstall" /\ mem'[p].jm.paths[f].st = "none"
        /\ mem'[p].jm.orphans[f] = "none" /\ mem'[p].jm.claims = {c}
    BY <1>2 DEF NewJournal, NoEntry
  <2>2. manifest.owner[f] = {c} => live[f] = manifest.sha[f]
    BY <1>3 DEF TxnInv, Recorded, Owned
  <2>3. f \in mem'[p].todo <=> manifest.owner[f] = {c}
    BY <1>2, <2>2 DEF SoleOwned
  <2> QED
    BY <1>1, <2>1, <2>3 DEF FileOf, RemovedFile
<1>5. WorkInv(p)'
  BY <1>1, <1>2, <1>4 DEF WorkInv, Early, NewJournal
<1>6. pc'[p] \in Working /\ pc'[p] \in Early
  BY <1>1 DEF Working, Removing, Early
<1> QED
  BY <1>1, <1>3, <1>5, <1>6, WorkUsableNext, WorkKeepsMem

-----------------------------------------------------------------------------
(* The publish, in which the root moves from one generation to the next.   *)

LEMMA PublishedInstall ==
    ASSUME TypeOK, CallInv, NEW p \in Proc, pc[p] = "publish", WorkInv(p),
           mem[p].jm.op = "install", NEW f \in Path
    PROVE  LET b == plan[p].bundle IN
           /\ f \in Files(b) =>
                /\ live[f] = b.files[f]
                /\ Classify(manifest, f, Stands(f), b.files[f], plan[p].force) # "conflict"
           /\ f \in (Owned(manifest) \ Owned(mem[p].next)) \ Files(b) =>
                live[f] \in {Absent, manifest.sha[f]} /\ Stands(f) = manifest.sha[f]
           /\ f \notin Files(b) /\ f \notin Owned(manifest) \ Owned(mem[p].next) => Stands(f) = live[f]
<1>1. pc[p] \in Working /\ pc[p] \notin Early /\ mem[p].todo = {}
  BY DEF Working, Early, WorkInv
<1>2. Stands(f) = Before(mem[p].jm, f)
  BY <1>1, WorkUsable
<1>3. CASE f \in Files(plan[p].bundle)
  <2>1. ShippedFile(p, f) /\ Snapped(p, f) /\ Placed(p, f)
    BY <1>1, <1>3, FilesByKind DEF ShippedFile
  <2>2. Stands(f) = mem[p].jm.paths[f].orig
    BY <1>2, <2>1 DEF ShippedFile, Placed, Before
  <2> QED
    BY <1>3, <2>1, <2>2 DEF Snapped, Placed
<1>4. CASE f \notin Files(plan[p].bundle)
  <2>1. OtherFile(p, f)
    BY <1>1, <1>4, FilesByKind
  <2> QED
    BY <1>1, <1>2, <1>4, <2>1 DEF OtherFile, Before
<1> QED
  BY <1>3, <1>4

LEMMA PublishedUninstall ==
    ASSUME TypeOK, CallInv, NEW p \in Proc, pc[p] = "publish", WorkInv(p),
           mem[p].jm.op = "uninstall", NEW f \in Path
    PROVE  IF manifest.owner[f] = mem[p].jm.claims
           THEN live[f] = Absent /\ Stands(f) = manifest.sha[f]
           ELSE Stands(f) = live[f]
<1>1. pc[p] \in Working /\ pc[p] \notin Early
  BY DEF Working, Early
<1>2. Stands(f) = Before(mem[p].jm, f) /\ RemovedFile(p, f)
  BY <1>1, WorkUsable, FilesByKind
<1> QED
  BY <1>2 DEF RemovedFile, Before

(* What p is about to publish, and from which manifest.                    *)
LEMMA PublishedCall ==
    ASSUME TypeOK, CallInv, NEW p \in Proc, pc[p] = "publish"
    PROVE  \E c \in Claim :
             /\ mem[p].jm.claims = {c}
             /\ \/ /\ mem[p].jm.op = "install"
                   /\ Plannable(manifest, c, plan[p].bundle)
                   /\ mem[p].next = WithClaim(manifest, c, plan[p].bundle)
                \/ /\ mem[p].jm.op = "uninstall"
                   /\ c \in manifest.claims
                   /\ mem[p].next = WithoutClaim(manifest, c)
BY DEF CallInv, CallOf, Working

LEMMA WithClaimOwned ==
    ASSUME NEW m, NEW c \in Claim, NEW b, NEW f \in Owned(WithClaim(m, c, b)) \ Files(b)
    PROVE  f \in Owned(m) /\ WithClaim(m, c, b).sha[f] = m.sha[f]
BY DEF WithClaim, Owned

LEMMA WithoutClaimOwned ==
    ASSUME NEW m, NEW c \in Claim, NEW f \in Owned(WithoutClaim(m, c))
    PROVE  f \in Owned(m) /\ m.owner[f] # {c} /\ WithoutClaim(m, c).sha[f] = m.sha[f]
<1>1. m.claims # {c}
  BY DEF WithoutClaim, NoManifest, Owned
<1> QED
  BY <1>1 DEF WithoutClaim, Owned

LEMMA PublishRecords ==
    ASSUME TypeOK, CallInv, Recorded, NEW p \in Proc, pc[p] = "publish", WorkInv(p),
           NEW f \in Owned(mem[p].next)
    PROVE  live[f] = mem[p].next.sha[f]
<1>1. PICK c \in Claim :
             /\ mem[p].jm.claims = {c}
             /\ \/ /\ mem[p].jm.op = "install"
                   /\ mem[p].next = WithClaim(manifest, c, plan[p].bundle)
                \/ /\ mem[p].jm.op = "uninstall"
                   /\ mem[p].next = WithoutClaim(manifest, c)
  BY PublishedCall
<1>2. f \in Path
  BY DEF Owned
<1>3. CASE mem[p].jm.op = "install" /\ f \in Files(plan[p].bundle)
  <2>1. mem[p].next.sha[f] = plan[p].bundle.files[f]
    BY <1>1, <1>2, <1>3 DEF WithClaim
  <2> QED
    BY <1>2, <1>3, <2>1, PublishedInstall
<1>4. CASE mem[p].jm.op = "install" /\ f \notin Files(plan[p].bundle)
  <2>1. f \in Owned(manifest) /\ mem[p].next.sha[f] = manifest.sha[f]
    BY <1>1, <1>4, WithClaimOwned
  <2>2. Stands(f) = live[f]
    BY <1>2, <1>4, PublishedInstall
  <2> QED
    BY <2>1, <2>2 DEF Recorded
<1>5. CASE mem[p].jm.op = "uninstall"
  <2>1. f \in Owned(manifest) /\ manifest.owner[f] # {c} /\ mem[p].next.sha[f] = manifest.sha[f]
    BY <1>1, <1>5, WithoutClaimOwned
  <2>2. Stands(f) = live[f]
    BY <1>1, <1>2, <1>5, <2>1, PublishedUninstall
  <2> QED
    BY <2>1, <2>2 DEF Recorded
<1> QED
  BY <1>1, <1>3, <1>4, <1>5

LEMMA PublishIsRecognised ==
    ASSUME TypeOK, CallInv, NEW p \in Proc, WorkInv(p), PublishManifest(p)
    PROVE  Published(manifest, journal)'
<1>1. /\ pc[p] = "publish" /\ manifest' = mem[p].next /\ journal' = mem[p].jm
      /\ mem[p].jm.state = "publishing_manifest"
      /\ mem[p].jm.target = manifest.gen + 1
  BY DEF PublishManifest, WorkInv, Synced, CallInv, CallOf, Working
<1>2. manifest.gen \in Nat
  BY DEF TypeOK, Manifest
<1>3. PICK c \in Claim :
             /\ mem[p].jm.claims = {c}
             /\ \/ /\ mem[p].jm.op = "install"
                   /\ mem[p].next = WithClaim(manifest, c, plan[p].bundle)
                \/ /\ mem[p].jm.op = "uninstall"
                   /\ mem[p].next = WithoutClaim(manifest, c)
  BY <1>1, PublishedCall
<1>4. CASE mem[p].jm.op = "install"
  <2>1. manifest'.gen = manifest.gen + 1
    BY <1>1, <1>3, <1>4 DEF WithClaim
  <2>2. manifest' # NoManifest
    BY <1>2, <2>1 DEF NoManifest
  <2> QED
    BY <1>1, <1>4, <2>1, <2>2 DEF Published
<1>5. CASE mem[p].jm.op = "uninstall" /\ manifest' = NoManifest
  BY <1>1, <1>5 DEF Published
<1>6. CASE mem[p].jm.op = "uninstall" /\ manifest' # NoManifest
  <2>1. manifest'.gen = manifest.gen + 1 /\ manifest'.claims = manifest.claims \ {c}
    BY <1>1, <1>3, <1>6 DEF WithoutClaim
  <2> QED
    BY <1>1, <1>3, <1>6, <2>1 DEF Published
<1> QED
  BY <1>3, <1>4, <1>5, <1>6

LEMMA PublishKeepsTxn ==
    ASSUME TypeOK, TypeOK', LockDiscipline, LockDiscipline', CallInv, TxnInv, NEW p \in Proc,
           PublishManifest(p)
    PROVE  TxnInv' /\ ~Unpublished(journal)'
<1>1. /\ pc[p] = "publish" /\ pc'[p] = "complete" /\ manifest' = mem[p].next
      /\ UNCHANGED <<live, journal, stage, plan>>
  BY DEF PublishManifest, TypeOK, Goto
<1>2. WorkInv(p)
  BY <1>1 DEF TxnInv, MemInv, Working
<1>3. Published(manifest, journal)'
  BY <1>2, PublishIsRecognised
<1>4. ~Unpublished(journal)'
  <2>1. (TypeOK /\ (journal = NoJournal \/ Published(manifest, journal)) => ~Unpublished(journal))'
    BY OverUsable, PTL
  <2> QED
    BY <1>3, <2>1
<1>5. JournalUsable' /\ OrphanInv'
  BY <1>3, <1>4 DEF JournalUsable, OrphanInv
<1>6. Recorded'
  BY <1>1, <1>2, <1>4, PublishRecords DEF Recorded, Stands, TxnInv, Owned
<1>7. ASSUME SameFiles, NEW b \in Bundle
      PROVE  Owned(manifest)' \subseteq Files(b)
  <2> SUFFICES ASSUME NEW f \in Owned(mem[p].next) PROVE f \in Files(b)
    BY <1>1 DEF Owned
  <2>1. plan[p].bundle \in Bundle /\ Owned(manifest) \subseteq Files(b)
    BY <1>7 DEF TypeOK, Plan, TxnInv
  <2>2. Files(plan[p].bundle) = Files(b)
    BY <1>7, <2>1 DEF SameFiles
  <2>3. f \in Owned(manifest) \/ f \in Files(plan[p].bundle)
    BY <1>1, PublishedCall, WithClaimOwned, WithoutClaimOwned
  <2> QED
    BY <2>1, <2>2, <2>3
<1>8. mem'[p].jm.state = "complete" /\ ~mem'[p].undone
  <2>1. Todo(p, {}, At(mem[p].jm, "complete"))
    BY DEF PublishManifest
  <2> QED
    BY <1>2, <2>1, TodoMem, MemType, AtFields DEF WorkInv
<1>9. MemInv(p)'
  BY <1>1, <1>3, <1>8 DEF MemInv, CleanInv, Working, Installing, Removing
<1>10. \A q \in Proc : MemInv(q)'
  BY <1>9, OthersKeepMem DEF Advance
<1> QED
  BY <1>4, <1>5, <1>6, <1>7, <1>10 DEF TxnInv, SameFiles, Files

(* Every other step leaves what the root stands for as it is.              *)

LEMMA FileStepKeepsTxn ==
    ASSUME TypeOK, TypeOK', CallInv, CallInv', TxnInv, NEW p \in Proc, NEW f \in Path,
           \/ StageFile(p, f) \/ SnapshotFile(p, f) \/ BackupFile(p, f)
           \/ CommitFile(p, f) \/ RemoveOrphan(p, f) \/ RemoveOrphanFails(p, f)
           \/ SaveOwned(p, f) \/ RemoveOwned(p, f)
    PROVE  /\ MemInv(p)' /\ JournalUsable' /\ OrphanInv' /\ manifest' = manifest
           /\ \A g \in Path : Stands(g)' = Stands(g)
<1>1. pc[p] \in Working /\ pc' = pc /\ manifest' = manifest
  BY DEF StageFile, SnapshotFile, BackupFile, CommitFile, RemoveOrphan, RemoveOrphanFails,
         SaveOwned, RemoveOwned, Working, Installing, Removing, disk
<1>2. WorkInv(p) /\ Recorded
  BY <1>1 DEF TxnInv, MemInv
<1>3. WorkInv(p)' /\ \A g \in Path : Stands(g)' = Stands(g)
  BY <1>2, FileStepKeepsWork
<1> QED
  BY <1>1, <1>3, WorkKeepsMem, WorkUsableNext, SMTT(30)

LEMMA PhaseStepKeepsTxn ==
    ASSUME TypeOK, TypeOK', CallInv, CallInv', TxnInv, NEW p \in Proc,
           \/ StagingDone(p) \/ SnapshotsDone(p) \/ WriteIntent(p) \/ ListOrphans(p)
           \/ Announce(p) \/ UninstallIntent(p) \/ WriteJournal(p) \/ WriteStaging(p)
    PROVE  /\ MemInv(p)' /\ JournalUsable' /\ OrphanInv' /\ manifest' = manifest
           /\ \A g \in Path : Stands(g)' = Stands(g)
<1>1. pc[p] \in Working /\ pc'[p] \in Working /\ manifest' = manifest
  BY DEF StagingDone, SnapshotsDone, WriteIntent, ListOrphans, Announce, UninstallIntent,
         WriteJournal, WriteStaging, Working, Installing, Removing, Goto, TypeOK, disk
<1>2. WorkInv(p) /\ Recorded
  BY <1>1 DEF TxnInv, MemInv
<1>3. WorkInv(p)' /\ \A g \in Path : Stands(g)' = Stands(g)
  BY <1>2, PhaseStepKeepsWork
<1> QED
  BY <1>1, <1>3, WorkKeepsMem, WorkUsableNext

LEMMA EndingKeepsTxn ==
    ASSUME TypeOK, TypeOK', LockDiscipline, TxnInv, NEW p \in Proc,
           \/ \E f \in Path : UndoFile(p, f) \/ UndoFileFails(p, f)
           \/ UndoDone(p) \/ WriteComplete(p) \/ WriteCompleteFails(p)
           \/ DropTrees(p) \/ DropTreesFails(p) \/ DropJournal(p) \/ DropJournalFails(p)
    PROVE  /\ MemInv(p)' /\ JournalUsable' /\ OrphanInv' /\ manifest' = manifest
           /\ \A g \in Path : Stands(g)' = Stands(g)
<1>1. JournalUsable /\ OrphanInv /\ MemInv(p)
  BY DEF TxnInv
<1>2. CASE \E f \in Path : UndoFile(p, f) \/ UndoFileFails(p, f)
  <2>1. UndoInv(p)
    BY <1>1, <1>2 DEF MemInv, UndoFile, UndoFileFails
  <2> QED
    BY <1>2, <2>1, UndoFileUndoes, UndoFileFailsUndoes, SMTT(30)
<1>3. CASE UndoDone(p)
  <2>1. UndoInv(p)
    BY <1>1, <1>3 DEF MemInv, UndoDone
  <2> QED
    BY <1>3, <2>1, UndoDoneEnds
<1>4. CASE \/ WriteComplete(p) \/ WriteCompleteFails(p) \/ DropTrees(p) \/ DropTreesFails(p)
           \/ DropJournal(p) \/ DropJournalFails(p)
  <2>1. CleanInv(p)
    BY <1>1, <1>4 DEF MemInv, WriteComplete, WriteCompleteFails, DropTrees, DropTreesFails,
                      DropJournal, DropJournalFails
  <2> QED
    BY <1>1, <1>4, <2>1, WriteCompleteEnds, DropTreesEnds, DropJournalEnds
<1> QED
  BY <1>2, <1>3, <1>4

LEMMA HolderStepKeepsTxn ==
    ASSUME TypeOK, TypeOK', QuietRoot, LockDiscipline, LockDiscipline', CallInv, CallInv', TxnInv,
           NEW p \in Proc, Advance(p) \/ Err(p) \/ Takes(p), ~PublishManifest(p)
    PROVE  TxnInv' /\ manifest' = manifest /\ \A g \in Path : Stands(g)' = Stands(g)
<1>1. /\ MemInv(p)' /\ JournalUsable' /\ OrphanInv' /\ manifest' = manifest
      /\ \A g \in Path : Stands(g)' = Stands(g)
  <2>1. CASE Advance(p)
    BY <2>1, FileStepKeepsTxn, PhaseStepKeepsTxn, EndingKeepsTxn DEF Advance
  <2>2. CASE Err(p)
    BY <2>2, FileStepKeepsTxn, EndingKeepsTxn, FailUndoes, CrashLeaves DEF Err
  <2>3. CASE Takes(p)
    <3>1. JournalUsable /\ OrphanInv
      BY DEF TxnInv
    <3> QED
      BY <2>3, <3>1, BeginInstallWorks, BeginUninstallWorks, EnterRecoverUndoes DEF Takes
  <2> QED
    BY <2>1, <2>2, <2>3
<1> QED
  BY <1>1, StepKeepsTxn

(* A process that waits, or plans, changes nothing but its own plan.       *)
LEMMA StillKeepsTxn ==
    ASSUME TxnInv, UNCHANGED <<disk, mem>>,
           \A p \in Proc : \/ pc'[p] = pc[p] /\ plan'[p] = plan[p]
                           \/ /\ pc[p] \notin Locked /\ pc'[p] \notin Locked
                              /\ pc'[p] = "planned" => plan'[p].force \in Forcing
    PROVE  TxnInv' /\ manifest' = manifest /\ \A g \in Path : Stands(g)' = Stands(g)
<1>1. UNCHANGED <<live, stage, manifest, journal>>
  BY DEF disk
<1>2. /\ Unpublished(journal)' <=> Unpublished(journal)
      /\ \A g \in Path : Stands(g)' = Stands(g)
  BY <1>1 DEF Unpublished, Stands, Before
<1>3. Recorded'
  BY <1>1, <1>2 DEF TxnInv, Recorded, Owned
<1>4. JournalUsable'
  <2>1. CanUndo(journal) => CanUndo(journal)'
    BY <1>1 DEF CanUndo
  <2>2. (journal = NoJournal \/ Published(manifest, journal))
           => (journal = NoJournal \/ Published(manifest, journal))'
    BY <1>1 DEF Published
  <2> QED
    BY <1>2, <2>1, <2>2 DEF TxnInv, JournalUsable
<1>5. OrphanInv'
  <2>1. \A p \in Proc : pc[p] \in {"orphan", "publish"} => pc'[p] = pc[p]
    BY DEF Locked, Phase
  <2> QED
    BY <1>1, <1>2, <2>1 DEF TxnInv, OrphanInv, NoOrphans
<1>6. ASSUME NEW p \in Proc PROVE MemInv(p)'
  <2>1. CASE pc[p] \notin Locked /\ pc'[p] \notin Locked /\ (pc'[p] = "planned" => plan'[p].force \in Forcing)
    BY <2>1 DEF MemInv, Locked, Phase, Working, Installing, Removing
  <2>2. CASE pc'[p] = pc[p] /\ plan'[p] = plan[p]
    <3>1. mem'[p] = mem[p] /\ MemInv(p)
      BY DEF TxnInv
    <3>2. WorkInv(p) => WorkInv(p)'
      <4>1. ASSUME NEW f \in Path PROVE FileOf(p, f) => FileOf(p, f)'
        BY <1>1, <2>2, <3>1 DEF FileOf, RemovedFile, ShippedFile, OtherFile, Staged, Snapped,
                                Ready, Placed
      <4>2. Agree(journal, mem[p].jm) => Agree(journal, mem[p].jm)'
        BY <1>1, <3>1 DEF Agree, SameEntry, Before
      <4> QED
        BY <1>1, <2>2, <3>1, <4>1, <4>2, SMTT(30) DEF WorkInv, Synced
    <3>3. UndoInv(p) => UndoInv(p)'
      <4>1. Agree(journal, mem[p].jm) => Agree(journal, mem[p].jm)'
        BY <1>1, <3>1 DEF Agree, SameEntry, Before
      <4>2. Unpublished(mem[p].jm) /\ CanUndo(mem[p].jm) /\ NoOrphans(mem[p].jm)
               => Unpublished(mem[p].jm)' /\ CanUndo(mem[p].jm)' /\ NoOrphans(mem[p].jm)'
        BY <1>1, <3>1 DEF Unpublished, CanUndo, NoOrphans
      <4> QED
        BY <1>1, <1>2, <3>1, <4>1, <4>2 DEF UndoInv, Journaled, SameCall
    <3>4. CleanInv(p) => CleanInv(p)'
      BY <1>1, <2>2, <3>1 DEF CleanInv, Journaled, Published
    <3> QED
      BY <2>2, <3>1, <3>2, <3>3, <3>4 DEF MemInv
  <2> QED
    BY <2>1, <2>2
<1>7. SameFiles => \A b \in Bundle : Owned(manifest)' \subseteq Files(b)
  BY <1>1 DEF TxnInv, Owned
<1> QED
  BY <1>1, <1>2, <1>3, <1>4, <1>5, <1>6, <1>7 DEF TxnInv, SameFiles, Files

LEMMA WaitingKeepsTxn ==
    ASSUME TypeOK, TxnInv, NEW p \in Proc, Command(p), ~Takes(p)
    PROVE  TxnInv' /\ manifest' = manifest /\ \A g \in Path : Stands(g)' = Stands(g)
<1>1. pc \in [Proc -> Phase] /\ plan \in [Proc -> Plan]
  BY DEF TypeOK
<1>2. ASSUME NEW c \in Claim, NEW b \in Bundle, NEW force \in Forcing, MakePlan(p, c, b, force)
      PROVE  pc'[p] = "planned" => plan'[p].force \in Forcing
  BY <1>1, <1>2 DEF MakePlan
<1>3. ASSUME RefuseInstall(p) \/ ProbeRecover(p) \/ RefuseRecover(p)
      PROVE  pc'[p] # "planned"
  BY <1>1, <1>3 DEF RefuseInstall, ProbeRecover, RefuseRecover, Goto
<1>4. pc'[p] = "planned" => plan'[p].force \in Forcing
  BY <1>2, <1>3 DEF Command, Takes
<1>5. Waits(p)
  BY CommandTakesOrWaits
<1> QED
  BY <1>4, <1>5, StillKeepsTxn DEF Waits

(* Only a publish moves what the root stands for.                          *)
LEMMA TxnStep ==
    ASSUME TypeOK, TypeOK', QuietRoot, LockDiscipline, LockDiscipline', CallInv, CallInv', TxnInv,
           [Next]_vars
    PROVE  /\ TxnInv'
           /\ \/ manifest' = manifest /\ \A g \in Path : Stands(g)' = Stands(g)
              \/ \E p \in Proc : PublishManifest(p)
<1>1. ASSUME NEW p \in Proc, Advance(p) \/ Err(p) \/ Command(p)
      PROVE  /\ TxnInv'
             /\ \/ manifest' = manifest /\ \A g \in Path : Stands(g)' = Stands(g)
                \/ PublishManifest(p)
  <2>1. CASE PublishManifest(p)
    BY <2>1, PublishKeepsTxn
  <2>2. CASE ~PublishManifest(p) /\ (Advance(p) \/ Err(p) \/ Takes(p))
    BY <2>2, HolderStepKeepsTxn
  <2>3. CASE Command(p) /\ ~Takes(p)
    BY <2>3, WaitingKeepsTxn
  <2> QED
    BY <1>1, <2>1, <2>2, <2>3
<1>2. ~User
  BY DEF User, UserEdit, QuietRoot, TypeOK
<1>3. CASE UNCHANGED vars
  BY <1>3, StillKeepsTxn DEF vars, disk
<1> QED
  BY <1>1, <1>2, <1>3 DEF Next

LEMMA TxnInit == TypeOK /\ Init => TxnInv
<1> SUFFICES ASSUME TypeOK, Init PROVE TxnInv
  OBVIOUS
<1>1. Owned(manifest) = {}
  BY DEF Init, NoManifest, Owned
<1>2. journal = NoJournal /\ ~Unpublished(journal)
  BY NoJournalOver DEF Init
<1>3. \A p \in Proc : pc[p] = "idle"
  BY DEF Init
<1> QED
  BY <1>1, <1>2, <1>3 DEF TxnInv, Recorded, JournalUsable, OrphanInv, MemInv, Working,
                          Installing, Removing

LEMMA TxnInvariant == ASSUME QuietRoot PROVE Spec => []TxnInv
<1>1. TypeOK /\ Init => TxnInv
  BY TxnInit
<1>2. TypeOK /\ TypeOK' /\ LockDiscipline /\ LockDiscipline' /\ CallInv /\ CallInv' /\ TxnInv
         /\ [Next]_vars => TxnInv'
  BY TxnStep
<1> QED
  BY <1>1, <1>2, TypeCorrect, MutualExclusion, CallInvariant, PTL DEF Spec

-----------------------------------------------------------------------------
(* What a user of a quiet root may rely on.                                *)

(* Except while a transaction waits to be undone, every file the manifest  *)
(* lists is on disk with the recorded digest: whatever errors struck,      *)
(* whichever process died where, what `verify` checks holds.               *)
THEOREM ManifestIsTrue == ASSUME QuietRoot PROVE Spec => []ManifestMatchesDisk
<1>1. TypeOK /\ TxnInv => ManifestMatchesDisk
  BY PendingIsUnpublished DEF TxnInv, ManifestMatchesDisk, Recorded, Stands, Owned
<1> QED
  BY <1>1, TypeCorrect, TxnInvariant, PTL

(* A journal that was not published, on disk after any error or death, can *)
(* be undone file by file from the path and the stage.                     *)
THEOREM RollbackIsPossible == ASSUME QuietRoot PROVE Spec => []RollbackMaterial
<1>1. TypeOK /\ TxnInv => RollbackMaterial
  <2> SUFFICES ASSUME TypeOK, TxnInv, Pending, NEW f \in Path, journal.paths[f].st # "none"
               PROVE  LET e == journal.paths[f]
                      IN  \/ e.st = "retained"
                          \/ e.existed  /\ e.orig \in {live[f], stage[f]} \ {Absent}
                          \/ ~e.existed /\ live[f] \in {e.sha, Absent}
    BY DEF RollbackMaterial, Journaled
  <2>1. CanUndo(journal)
    BY PendingIsUnpublished DEF TxnInv, JournalUsable
  <2> QED
    BY <2>1 DEF CanUndo, Undoable
<1> QED
  BY <1>1, TypeCorrect, TxnInvariant, PTL

-----------------------------------------------------------------------------
(* The root is atomic: AtomicRoot's payload is what the root stands for.   *)

(* AtomicRoot extends the same Ownership: its operators are these.         *)
LEMMA SameOwnership ==
    /\ Atomic!NoManifest = NoManifest
    /\ \A b : Atomic!Files(b) = Files(b)
    /\ \A m : Atomic!Owned(m) = Owned(m)
    /\ \A m, c : Atomic!SoleOwned(m, c) = SoleOwned(m, c)
    /\ \A m, c, b : Atomic!Plannable(m, c, b) <=> Plannable(m, c, b)
    /\ \A m, c, b : Atomic!WithClaim(m, c, b) = WithClaim(m, c, b)
    /\ \A m, c : Atomic!WithoutClaim(m, c) = WithoutClaim(m, c)
    /\ \A m, f, cur, new, force :
          Atomic!Classify(m, f, cur, new, force) = Classify(m, f, cur, new, force)
    /\ \A m, new, pay, b : Atomic!PayloadAfter(m, new, pay, b) = PayloadAfter(m, new, pay, b)
<1>1. /\ Atomic!NoManifest = NoManifest
      /\ \A b : Atomic!Files(b) = Files(b)
      /\ \A m : Atomic!Owned(m) = Owned(m)
      /\ \A m, c : Atomic!SoleOwned(m, c) = SoleOwned(m, c)
  BY Zenon DEF Atomic!NoManifest, NoManifest, Atomic!Files, Files, Atomic!Owned, Owned,
               Atomic!SoleOwned, SoleOwned
<1>2. \A m, c, b : Atomic!Plannable(m, c, b) <=> Plannable(m, c, b)
  BY <1>1, Zenon DEF Atomic!Plannable, Plannable
<1>3. \A m, c, b : Atomic!WithClaim(m, c, b) = WithClaim(m, c, b)
  BY Zenon DEF Atomic!WithClaim, WithClaim, Atomic!Files, Files
<1>4. \A m, c : Atomic!WithoutClaim(m, c) = WithoutClaim(m, c)
  BY <1>1, Zenon DEF Atomic!WithoutClaim, WithoutClaim
<1>5. \A m, f, cur, new, force :
          Atomic!Classify(m, f, cur, new, force) = Classify(m, f, cur, new, force)
  BY Zenon DEF Atomic!Classify, Classify
<1>6. \A m, new, pay, b : Atomic!PayloadAfter(m, new, pay, b) = PayloadAfter(m, new, pay, b)
  BY <1>1, ZenonT(40) DEF Atomic!PayloadAfter, PayloadAfter
<1> QED
  BY <1>1, <1>2, <1>3, <1>4, <1>5, <1>6

LEMMA StandingNext ==
    ASSUME TypeOK', TxnInv'
    PROVE  Standing' = [f \in Path |-> Stands(f)']
<1>1. (TypeOK /\ JournalUsable => Standing = [f \in Path |-> Stands(f)])'
  BY StandingIsStands, PTL
<1> QED
  BY <1>1 DEF TxnInv

LEMMA PublishIsAtomic ==
    ASSUME TypeOK, TypeOK', LockDiscipline, LockDiscipline', CallInv, TxnInv, NEW p \in Proc,
           PublishManifest(p)
    PROVE  Atomic!Next
<1>1. pc[p] = "publish" /\ manifest' = mem[p].next /\ live' = live
  BY DEF PublishManifest
<1>2. WorkInv(p)
  BY <1>1 DEF TxnInv, MemInv, Working
<1>3. TxnInv' /\ ~Unpublished(journal)'
  BY PublishKeepsTxn
<1>4. Standing' = live
  <2>1. \A f \in Path : Stands(f)' = live[f]
    BY <1>1, <1>3 DEF Stands
  <2> QED
    BY <1>3, <2>1, StandingNext DEF TypeOK
<1>5. Standing = [f \in Path |-> Stands(f)]
  BY StandingIsStands DEF TxnInv
<1>6. PICK c \in Claim :
             /\ mem[p].jm.claims = {c}
             /\ \/ /\ mem[p].jm.op = "install"
                   /\ Plannable(manifest, c, plan[p].bundle)
                   /\ mem[p].next = WithClaim(manifest, c, plan[p].bundle)
                \/ /\ mem[p].jm.op = "uninstall"
                   /\ c \in manifest.claims
                   /\ mem[p].next = WithoutClaim(manifest, c)
  BY <1>1, PublishedCall
<1>7. CASE mem[p].jm.op = "install"
  <2> DEFINE b == plan[p].bundle
  <2>1. b \in Bundle /\ plan[p].force \in Forcing
    BY <1>2, <1>7 DEF TypeOK, Plan, WorkInv
  <2>2. Plannable(manifest, c, b) /\ manifest' = WithClaim(manifest, c, b)
    BY <1>1, <1>6, <1>7
  <2>3. \A f \in Files(b) : Classify(manifest, f, Standing[f], b.files[f], plan[p].force) # "conflict"
    BY <1>1, <1>2, <1>5, <1>7, PublishedInstall DEF Files
  <2> DEFINE left == {f \in (Owned(manifest) \ Owned(mem[p].next)) \ Files(b) :
                          live[f] = manifest.sha[f]}
             after == PayloadAfter(manifest, manifest', Standing, b)
  <2>4. ASSUME NEW f \in Path
        PROVE  live[f] = IF f \in left THEN Standing[f] ELSE after[f]
    <3>1. CASE f \in Files(b)
      BY <1>1, <1>2, <1>7, <3>1, PublishedInstall DEF PayloadAfter
    <3>2. CASE f \in (Owned(manifest) \ Owned(mem[p].next)) \ Files(b)
      <4>1. live[f] \in {Absent, manifest.sha[f]} /\ Standing[f] = manifest.sha[f]
        BY <1>1, <1>2, <1>5, <1>7, <3>2, PublishedInstall
      <4>2. after[f] = Absent
        BY <1>1, <3>2, <4>1 DEF PayloadAfter
      <4> QED
        BY <3>2, <4>1, <4>2
    <3>3. CASE f \notin Files(b) /\ f \notin Owned(manifest) \ Owned(mem[p].next)
      <4>1. Stands(f) = live[f]
        BY <1>1, <1>2, <1>7, <3>3, PublishedInstall
      <4> QED
        BY <1>1, <1>5, <3>3, <4>1 DEF PayloadAfter
    <3> QED
      BY <3>1, <3>2, <3>3
  <2>5. live = [f \in Path |-> IF f \in left THEN Standing[f] ELSE after[f]]
    <3> HIDE DEF left, after
    <3> QED
      BY <2>4 DEF TypeOK
  <2>6. left \in SUBSET (Owned(manifest) \ Owned(manifest'))
    BY <1>1
  <2> HIDE DEF left
  <2>7. Atomic!Install(c, b)
    BY <1>4, <2>1, <2>2, <2>3, <2>5, <2>6, SameOwnership DEF Atomic!Install
  <2> QED
    BY <2>1, <2>7 DEF Atomic!Next
<1>8. CASE mem[p].jm.op = "uninstall"
  <2>1. c \in manifest.claims /\ manifest' = WithoutClaim(manifest, c) /\ mem[p].jm.claims = {c}
    BY <1>1, <1>6, <1>8
  <2>2. ASSUME NEW f \in Path
        PROVE  live[f] = IF f \in SoleOwned(manifest, c) /\ Standing[f] = manifest.sha[f]
                         THEN Absent ELSE Standing[f]
    BY <1>1, <1>2, <1>5, <1>8, <2>1, PublishedUninstall DEF SoleOwned
  <2>3. live = [f \in Path |-> IF f \in SoleOwned(manifest, c) /\ Standing[f] = manifest.sha[f]
                               THEN Absent ELSE Standing[f]]
    BY <2>2 DEF TypeOK
  <2>4. Atomic!Uninstall(c)
    BY <1>4, <2>1, <2>3, SameOwnership DEF Atomic!Uninstall
  <2> QED
    BY <2>4 DEF Atomic!Next
<1> QED
  BY <1>6, <1>7, <1>8

(* Through every interleaving of installs, uninstalls, recoveries, errors  *)
(* and deaths, the manifest and the payload the root stands for move       *)
(* together, in the one step that publishes, and by what AtomicRoot says.  *)
THEOREM RootMovesAtOnce == ASSUME QuietRoot PROVE Spec => RootIsAtomic
<1>1. TypeOK /\ TxnInv /\ Init => Atomic!Init
  <2> SUFFICES ASSUME TypeOK, TxnInv, Init PROVE Atomic!Init
    OBVIOUS
  <2>1. \A f \in Path : Stands(f) = live[f]
    BY NoJournalOver DEF Init, Stands
  <2>2. Standing = live
    BY <2>1, StandingIsStands DEF TxnInv, TypeOK
  <2> QED
    BY <2>2, SameOwnership DEF Init, Atomic!Init
<1>2. TypeOK /\ TypeOK' /\ LockDiscipline /\ LockDiscipline' /\ CallInv /\ CallInv' /\ TxnInv
         /\ [Next]_vars => [Atomic!Next]_<<manifest, Standing>>
  <2> SUFFICES ASSUME TypeOK, TypeOK', LockDiscipline, LockDiscipline', CallInv, CallInv', TxnInv,
                      [Next]_vars
               PROVE  Atomic!Next \/ UNCHANGED <<manifest, Standing>>
    OBVIOUS
  <2>1. CASE manifest' = manifest /\ \A g \in Path : Stands(g)' = Stands(g)
    <3>1. Standing' = [f \in Path |-> Stands(f)'] /\ Standing = [f \in Path |-> Stands(f)]
      BY TxnStep, StandingNext, StandingIsStands DEF TxnInv
    <3> QED
      BY <2>1, <3>1
  <2>2. CASE \E p \in Proc : PublishManifest(p)
    BY <2>2, PublishIsAtomic
  <2> QED
    BY <2>1, <2>2, TxnStep
<1> QED
  BY <1>1, <1>2, TypeCorrect, MutualExclusion, CallInvariant, TxnInvariant, PTL
     DEF Spec, RootIsAtomic, Atomic!Spec

-----------------------------------------------------------------------------
(* Forced backups.                                                         *)

(* The user's bytes p is going to replace are listed, and once copied are  *)
(* in the backup tree.                                                     *)
CopyOf(p, f) ==
    /\ manifest.owner[f] = {} /\ Stands(f) \in UserData => f \in mem[p].copies
    /\ (/\ f \in mem[p].copies
        /\ pc[p] \in {"backup", "commit", "orphan", "publish"}
        /\ pc[p] = "backup" => f \notin mem[p].todo) => backup[f] = Stands(f)

CopyInv ==
    \A p \in Proc : pc[p] \in Working /\ mem[p].jm.op = "install" =>
        \A f \in Files(plan[p].bundle) : CopyOf(p, f)

LEMMA CopyKept ==
    ASSUME NEW p \in Proc, NEW f, CopyOf(p, f), Stands(f)' = Stands(f),
           manifest' = manifest, mem'[p].copies = mem[p].copies,
           \/ pc'[p] \in {"staging", "snapshot"}
           \/ pc'[p] = "backup" /\ mem[p].copies \subseteq mem'[p].todo
           \/ /\ backup'[f] = backup[f]
              /\ pc[p] \in {"backup", "commit", "orphan", "publish"}
              /\ pc[p] = "backup" /\ f \in mem[p].todo => pc'[p] = "backup" /\ f \in mem'[p].todo
    PROVE  CopyOf(p, f)'
BY DEF CopyOf

LEMMA DoneCopies ==
    ASSUME TypeOK, NEW p \in Proc, NEW f, NEW j, Done(p, f, j)
    PROVE  mem'[p].copies = mem[p].copies /\ mem'[p].todo = mem[p].todo \ {f}
<1>1. mem[p] \in Mem /\ mem' = [mem EXCEPT ![p] = [mem[p] EXCEPT !.todo = @ \ {f}, !.jm = j]]
  BY DEF TypeOK, Done, Set
<1> QED
  BY <1>1 DEF TypeOK, Mem

LEMMA FileStepKeepsCopy ==
    ASSUME TypeOK, CallInv, NEW p \in Proc, NEW f \in Path, CopyOf(p, f), Stands(f)' = Stands(f),
           NEW g \in Path, \/ StageFile(p, g) \/ SnapshotFile(p, g) \/ BackupFile(p, g)
                           \/ CommitFile(p, g) \/ RemoveOrphan(p, g) \/ RemoveOrphanFails(p, g)
    PROVE  CopyOf(p, f)' /\ plan' = plan /\ manifest' = manifest /\ pc' = pc
<1>1. /\ plan' = plan /\ manifest' = manifest /\ pc' = pc
      /\ mem'[p].copies = mem[p].copies /\ mem'[p].todo = mem[p].todo \ {g}
  <2>1. \E j : Done(p, g, j)
    BY Zenon DEF StageFile, SnapshotFile, BackupFile, CommitFile, RemoveOrphan, RemoveOrphanFails
  <2> QED
    BY <2>1, DoneCopies DEF StageFile, SnapshotFile, BackupFile, CommitFile, RemoveOrphan,
                            RemoveOrphanFails, disk
<1>2. CASE StageFile(p, g) \/ SnapshotFile(p, g)
  <2>1. pc'[p] \in {"staging", "snapshot"}
    BY <1>1, <1>2 DEF StageFile, SnapshotFile
  <2> QED
    BY <1>1, <2>1, CopyKept
<1>3. CASE CommitFile(p, g) \/ RemoveOrphan(p, g) \/ RemoveOrphanFails(p, g)
  <2>1. pc[p] \in {"commit", "orphan"} /\ backup' = backup
    BY <1>3 DEF CommitFile, RemoveOrphan, RemoveOrphanFails, disk
  <2> QED
    BY <1>1, <2>1, CopyKept
<1>4. CASE BackupFile(p, g) /\ g # f
  <2>1. pc[p] = "backup" /\ backup'[f] = backup[f]
    BY <1>4 DEF BackupFile, TypeOK
  <2> QED
    BY <1>1, <1>4, <2>1, CopyKept
<1>5. CASE BackupFile(p, g) /\ g = f
  <2>1. pc[p] = "backup" /\ backup'[f] = live[f]
    BY <1>5 DEF BackupFile, TypeOK
  <2>2. Stands(f) = live[f]
    <3>1. journal = NoJournal
      BY <2>1, CallUnpublished DEF Working, Installing, Early
    <3> QED
      BY <3>1, NoJournalOver DEF Stands
  <2> QED
    BY <1>1, <2>1, <2>2 DEF CopyOf
<1> QED
  BY <1>1, <1>2, <1>3, <1>4, <1>5

LEMMA PhaseStepKeepsCopy ==
    ASSUME TypeOK, NEW p \in Proc, NEW f \in Path, CopyOf(p, f), Stands(f)' = Stands(f),
           pc[p] \in Installing,
           \/ StagingDone(p) \/ SnapshotsDone(p) \/ WriteIntent(p) \/ ListOrphans(p)
           \/ Announce(p) \/ WriteJournal(p)
    PROVE  CopyOf(p, f)' /\ plan' = plan
<1>1. plan' = plan /\ manifest' = manifest /\ backup' = backup
  BY DEF StagingDone, SnapshotsDone, WriteIntent, ListOrphans, Announce, WriteJournal, disk
<1>2. CASE WriteJournal(p)
  <2>1. mem' = mem /\ pc' = pc /\ pc[p] \in {"commit", "orphan"}
    BY <1>2 DEF WriteJournal, Installing
  <2> QED
    BY <1>1, <2>1, CopyKept
<1>3. CASE ListOrphans(p)
  <2>1. pc[p] = "commit" /\ pc'[p] = "orphan" /\ mem'[p].copies = mem[p].copies
    <3>1. mem' = mem \/ \E fs, j : Todo(p, fs, j)
      BY <1>3, Zenon DEF ListOrphans
    <3> QED
      BY <1>3, <3>1, TodoMem DEF ListOrphans, TypeOK, Goto
  <2> QED
    BY <1>1, <2>1, CopyKept
<1>4. CASE StagingDone(p) \/ SnapshotsDone(p) \/ WriteIntent(p) \/ Announce(p)
  <2>1. PICK fs, j : /\ Todo(p, fs, j)
                     /\ SnapshotsDone(p) => fs = mem[p].copies
    BY <1>4, Zenon DEF StagingDone, SnapshotsDone, WriteIntent, Announce
  <2>2. mem'[p].copies = mem[p].copies /\ mem'[p].todo = fs
    BY <2>1, TodoMem
  <2>3. \/ pc'[p] = "snapshot"
        \/ SnapshotsDone(p) /\ pc'[p] = "backup"
        \/ pc[p] = "backup" /\ mem[p].todo = {}
        \/ pc[p] = "orphan"
    BY <1>4 DEF StagingDone, SnapshotsDone, WriteIntent, Announce, Goto, TypeOK, Installing
  <2> QED
    BY <1>1, <2>1, <2>2, <2>3, CopyKept
<1> QED
  BY <1>2, <1>3, <1>4

(* A forced install lists the user's bytes it finds at the paths it writes.*)
LEMMA BeginListsCopies ==
    ASSUME TypeOK, NEW p \in Proc, BeginInstall(p), NEW f \in Files(plan[p].bundle),
           Stands(f)' = Stands(f)
    PROVE  plan' = plan /\ CopyOf(p, f)'
<1>1. /\ journal = NoJournal /\ UNCHANGED <<manifest, plan>> /\ pc'[p] = "staging"
      /\ Start(p, manifest) /\ Kind(p, f) # "conflict" /\ f \in Path
  BY DEF BeginInstall, Start, PlanHolds, TypeOK, Goto, Files
<1>2. mem'[p].copies = {g \in Files(plan[p].bundle) : Kind(p, g) = "backup"}
  BY <1>1 DEF Start, Set, NoMem, TypeOK
<1>3. Stands(f) = live[f]
  BY <1>1, NoJournalOver DEF Stands
<1>4. plan[p].bundle.files[f] \notin UserData
  BY <1>1, ContentType DEF TypeOK, Plan
<1>5. manifest.owner[f] = {} /\ live[f] \in UserData => Kind(p, f) = "backup"
  BY <1>1, <1>4, ContentAssumption DEF Kind, Classify, Content
<1> QED
  BY <1>1, <1>2, <1>3, <1>5, SMTT(30) DEF CopyOf

LEMMA RemovingIsUninstall ==
    ASSUME NEW p \in Proc
    PROVE  CallInv /\ pc[p] \in Removing => mem[p].jm.op = "uninstall"
BY DEF CallInv, CallOf, Working

LEMMA RemovingIsUninstallNext ==
    ASSUME NEW p \in Proc, CallInv', pc'[p] \in Removing
    PROVE  mem'[p].jm.op = "uninstall"
<1>1. (CallInv /\ pc[p] \in Removing => mem[p].jm.op = "uninstall")'
  BY RemovingIsUninstall, PTL
<1> QED
  BY <1>1

LEMMA HolderKeepsCopy ==
    ASSUME TypeOK, TypeOK', CallInv, CallInv', CopyInv, NEW p \in Proc,
           Advance(p) \/ Err(p) \/ Takes(p), ~PublishManifest(p),
           \A g \in Path : Stands(g)' = Stands(g),
           pc'[p] \in Working, mem'[p].jm.op = "install", NEW f \in Files(plan'[p].bundle)
    PROVE  CopyOf(p, f)'
<1>1. f \in Path /\ Stands(f)' = Stands(f) /\ pc'[p] \notin Removing
  BY RemovingIsUninstallNext DEF Files
<1>2. pc[p] \in Installing /\ plan' = plan => CopyOf(p, f)
  <2>1. pc[p] \in Installing => pc[p] \in Working /\ mem[p].jm.op = "install"
    BY OpByPhase DEF Working
  <2> QED
    BY <2>1 DEF CopyInv
<1>3. CASE \E g \in Path : \/ StageFile(p, g) \/ SnapshotFile(p, g) \/ BackupFile(p, g)
                           \/ CommitFile(p, g) \/ RemoveOrphan(p, g) \/ RemoveOrphanFails(p, g)
  <2>1. pc[p] \in Installing /\ plan' = plan
    BY <1>3 DEF StageFile, SnapshotFile, BackupFile, CommitFile, RemoveOrphan,
                RemoveOrphanFails, Installing
  <2> QED
    BY <1>1, <1>2, <1>3, <2>1, FileStepKeepsCopy
<1>4. CASE \/ StagingDone(p) \/ SnapshotsDone(p) \/ WriteIntent(p) \/ ListOrphans(p)
           \/ Announce(p) \/ WriteJournal(p)
  <2>1. pc[p] \in Installing /\ plan' = plan
    <3>1. CASE Announce(p) /\ pc[p] = "remove"
      <4>1. mem[p].jm.op = "uninstall"
        BY <3>1, OpByPhase DEF Working, Removing
      <4>2. mem'[p].jm.op = mem[p].jm.op
        BY <3>1, TodoMem, MemType, AtFields DEF Announce, SameCall
      <4> QED
        BY <4>1, <4>2
    <3>2. CASE WriteJournal(p) /\ pc[p] = "remove"
      BY <1>1, <3>2 DEF WriteJournal, Removing
    <3> QED
      BY <1>4, <3>1, <3>2 DEF StagingDone, SnapshotsDone, WriteIntent, ListOrphans, Announce,
                              WriteJournal, Installing
  <2> QED
    BY <1>1, <1>2, <1>4, <2>1, PhaseStepKeepsCopy
<1>5. CASE BeginInstall(p)
  <2>1. plan' = plan
    BY <1>5 DEF BeginInstall, Start
  <2> QED
    BY <1>1, <1>5, <2>1, BeginListsCopies
<1>6. ASSUME NEW g \in Path, SaveOwned(p, g) \/ RemoveOwned(p, g) \/ UndoFile(p, g) \/ UndoFileFails(p, g)
      PROVE  FALSE
  BY <1>1, <1>6 DEF SaveOwned, RemoveOwned, UndoFile, UndoFileFails, Removing, Working, Installing
<1>7. ~(WriteComplete(p) \/ WriteStaging(p) \/ UninstallIntent(p) \/ UndoDone(p) \/ DropTrees(p)
        \/ DropJournal(p))
  BY <1>1 DEF WriteComplete, WriteStaging, UninstallIntent, UndoDone, DropTrees, DropJournal,
              Leave, Goto, TypeOK, Removing, Working, Installing
<1>8. ~(Fail(p) \/ WriteCompleteFails(p) \/ DropTreesFails(p) \/ DropJournalFails(p) \/ Crash(p))
  BY <1>1 DEF Fail, WriteCompleteFails, DropTreesFails, DropJournalFails, Crash,
              Leave, Goto, TypeOK, Removing, Working, Installing
<1>9. ~(EnterRecover(p) \/ \E c \in Claim : BeginUninstall(p, c))
  BY <1>1 DEF EnterRecover, BeginUninstall, Goto, TypeOK, Removing, Working, Installing
<1> QED
  BY <1>3, <1>4, <1>5, <1>6, <1>7, <1>8, <1>9 DEF Advance, Err, Takes

LEMMA CopyStep ==
    ASSUME TypeOK, TypeOK', QuietRoot, LockDiscipline, LockDiscipline', CallInv, CallInv', TxnInv,
           CopyInv, [Next]_vars
    PROVE  CopyInv'
<1>1. ASSUME NEW p \in Proc, Advance(p) \/ Err(p) \/ Takes(p)
      PROVE  CopyInv'
  <2>1. \A q \in Proc \ {p} : pc'[q] \notin Working
    BY <1>1, HolderIsAlone, WorkingIsLocked
  <2>2. PublishManifest(p) => pc'[p] \notin Working
    BY DEF PublishManifest, Working, Installing, Removing, TypeOK, Goto
  <2>3. ~PublishManifest(p) => \A g \in Path : Stands(g)' = Stands(g)
    BY <1>1, HolderStepKeepsTxn
  <2>4. ASSUME pc'[p] \in Working, mem'[p].jm.op = "install", NEW f \in Files(plan'[p].bundle)
        PROVE  CopyOf(p, f)'
    BY <1>1, <2>2, <2>3, <2>4, HolderKeepsCopy
  <2> QED
    BY <2>1, <2>4 DEF CopyInv, Files
<1>2. CASE \A q \in Proc : \/ pc'[q] \notin Working
                           \/ pc'[q] = pc[q] /\ plan'[q] = plan[q] /\ mem' = mem /\ UNCHANGED disk
                              /\ \A g \in Path : Stands(g)' = Stands(g)
  <2> SUFFICES ASSUME NEW q \in Proc, pc'[q] \in Working, mem'[q].jm.op = "install",
                      NEW f \in Files(plan'[q].bundle)
               PROVE  CopyOf(q, f)'
    BY DEF CopyInv, Files
  <2>1. /\ pc'[q] = pc[q] /\ plan'[q] = plan[q] /\ mem' = mem /\ manifest' = manifest
        /\ backup' = backup /\ f \in Path /\ Stands(f)' = Stands(f)
    BY <1>2 DEF disk, Files
  <2>2. CopyOf(q, f)
    BY <2>1 DEF CopyInv
  <2> QED
    BY <2>1, <2>2 DEF CopyOf
<1>3. ASSUME NEW p \in Proc, Command(p), ~Takes(p)
      PROVE  CopyInv'
  <2>1. Waits(p) /\ \A g \in Path : Stands(g)' = Stands(g)
    BY <1>3, CommandTakesOrWaits, WaitingKeepsTxn
  <2> QED
    BY <1>2, <2>1, WorkingIsLocked DEF Waits
<1>4. ~User
  BY DEF User, UserEdit, QuietRoot, TypeOK
<1>5. CASE UNCHANGED vars
  BY <1>2, <1>5, StillKeepsTxn DEF vars, disk
<1> QED
  BY <1>1, <1>3, <1>4, <1>5 DEF Next

LEMMA CopyInvariant == ASSUME QuietRoot PROVE Spec => []CopyInv
<1>1. Init => CopyInv
  BY DEF Init, CopyInv, Working, Installing, Removing
<1>2. TypeOK /\ TypeOK' /\ LockDiscipline /\ LockDiscipline' /\ CallInv /\ CallInv' /\ TxnInv
         /\ CopyInv /\ [Next]_vars => CopyInv'
  BY CopyStep
<1> QED
  BY <1>1, <1>2, TypeCorrect, MutualExclusion, CallInvariant, TxnInvariant, PTL DEF Spec

(* The copies in the last transaction's tree are what the root still stands *)
(* for, unless that transaction is over and nothing will undo it.          *)
Over ==
    /\ ~Unpublished(journal)
    /\ \A p \in Proc : pc[p] \in Locked =>
           pc[p] \in {"complete", "cleanup", "unlink"} /\ ~mem[p].undone

BackupInv == Over \/ \A f \in Path : backup[f] \in UserData => Stands(f) = backup[f]

(* What a step does to the trees of backups.                               *)
TreesMove(p) ==
    \/ NewTrees
    \/ UNCHANGED <<backup, kept>>
    \/ \E g \in Path : BackupFile(p, g)
    \/ /\ pc[p] = "cleanup" /\ mem[p].undone /\ UNCHANGED <<live, kept>>
       /\ \A f \in Path : backup'[f] \in {backup[f], Absent}

LEMMA StepMovesTrees ==
    ASSUME TypeOK, NEW p \in Proc, Advance(p) \/ Err(p) \/ Takes(p)
    PROVE  TreesMove(p)
<1>1. ASSUME NEW f \in Path,
             \/ StageFile(p, f) \/ SnapshotFile(p, f) \/ CommitFile(p, f)
             \/ RemoveOrphan(p, f) \/ RemoveOrphanFails(p, f) \/ SaveOwned(p, f)
             \/ RemoveOwned(p, f) \/ UndoFile(p, f) \/ UndoFileFails(p, f)
      PROVE  UNCHANGED <<backup, kept>>
  BY <1>1 DEF StageFile, SnapshotFile, CommitFile, RemoveOrphan, RemoveOrphanFails,
              SaveOwned, RemoveOwned, UndoFile, UndoFileFails, disk
<1>2. ASSUME \/ StagingDone(p) \/ SnapshotsDone(p) \/ WriteIntent(p) \/ ListOrphans(p)
             \/ Announce(p) \/ PublishManifest(p) \/ WriteComplete(p) \/ WriteJournal(p)
             \/ WriteStaging(p) \/ UninstallIntent(p) \/ UndoDone(p) \/ DropJournal(p)
      PROVE  UNCHANGED <<backup, kept>>
  BY <1>2 DEF StagingDone, SnapshotsDone, WriteIntent, ListOrphans, Announce, WriteJournal,
              PublishManifest, WriteComplete, WriteStaging, UninstallIntent, UndoDone,
              DropJournal, disk
<1>3. ASSUME \/ Fail(p) \/ WriteCompleteFails(p) \/ DropJournalFails(p) \/ Crash(p)
             \/ EnterRecover(p)
      PROVE  UNCHANGED <<backup, kept>>
  BY <1>3 DEF Fail, WriteCompleteFails, DropJournalFails, Crash, EnterRecover, disk
<1>4. ASSUME DropTrees(p) \/ DropTreesFails(p)
      PROVE  TreesMove(p)
  <2>1. pc[p] = "cleanup" /\ UNCHANGED <<live, kept>>
    BY <1>4 DEF DropTrees, DropTreesFails
  <2>2. backup \in [Path -> Leaf]
    BY DEF TypeOK
  <2>3. CASE DropTrees(p)
    BY <2>1, <2>2, <2>3 DEF DropTrees, EmptyTree, TreesMove
  <2>4. CASE DropTreesFails(p)
    <3>1. PICK left \in SUBSET Path :
             /\ mem[p].undone \/ left = Path
             /\ backup' = [f \in Path |-> IF f \in left THEN backup[f] ELSE Absent]
      BY <2>4 DEF DropTreesFails
    <3>2. CASE mem[p].undone
      BY <2>1, <3>1, <3>2 DEF TreesMove
    <3>3. CASE left = Path
      <4>1. backup' = backup
        BY <2>2, <3>1, <3>3
      <4> QED
        BY <2>1, <4>1 DEF TreesMove
    <3> QED
      BY <3>1, <3>2, <3>3
  <2> QED
    BY <1>4, <2>3, <2>4
<1>5. ASSUME BeginInstall(p) \/ \E c \in Claim : BeginUninstall(p, c)
      PROVE  NewTrees
  BY <1>5 DEF BeginInstall, Start, BeginUninstall
<1> QED
  BY <1>1, <1>2, <1>3, <1>4, <1>5 DEF Advance, Err, Takes, TreesMove

(* A command that has cleaned up behind a rollback stands for the payload. *)
LEMMA CleanStands ==
    ASSUME TypeOK, LockDiscipline, TxnInv, NEW p \in Proc, pc[p] = "cleanup", mem[p].undone,
           NEW f \in Path
    PROVE  Stands(f) = live[f]
<1>1. CleanInv(p) /\ OrphanInv
  BY DEF TxnInv, MemInv
<1>2. ~Unpublished(journal) \/ NoOrphans(journal)
  BY <1>1, HolderSeesOrphans DEF Locked, Phase
<1>3. f \in Journaled(journal) => live[f] = journal.paths[f].orig
  BY <1>1 DEF CleanInv
<1> QED
  BY <1>2, <1>3 DEF Stands, Before, NoOrphans, Journaled

(* Before the journal is on disk the root stands for the payload.          *)
LEMMA EarlyStands ==
    ASSUME TypeOK, CallInv, NEW p \in Proc, pc[p] = "backup", NEW f \in Path
    PROVE  Stands(f) = live[f]
<1>1. journal = NoJournal
  BY CallUnpublished DEF Working, Installing, Early
<1> QED
  BY <1>1, NoJournalOver DEF Stands

(* A transaction that is over stays over until the next makes new trees.   *)
LEMMA OverStep ==
    ASSUME TypeOK, TypeOK', LockDiscipline, LockDiscipline', TxnInv, Over, NEW p \in Proc,
           Advance(p) \/ Err(p) \/ Takes(p), manifest' = manifest
    PROVE  Over' \/ NewTrees
<1>1. \A q \in Proc \ {p} : pc'[q] \notin Locked
  BY HolderIsAlone
<1>2. pc \in [Proc -> Phase] /\ mem \in [Proc -> Mem] /\ mem' \in [Proc -> Mem]
  BY DEF TypeOK
<1>3. ~Unpublished(journal) /\ JournalUsable
  BY DEF Over, TxnInv
<1>4. ASSUME ~Unpublished(journal)',
             pc'[p] \in Locked => pc'[p] \in {"complete", "cleanup", "unlink"} /\ ~mem'[p].undone
      PROVE  Over'
  BY <1>1, <1>4 DEF Over
<1>5. journal' = journal \/ journal' = NoJournal => ~Unpublished(journal)'
  <2>1. TypeOK => ~Unpublished(NoJournal)
    BY NoJournalOver
  <2>2. ~Unpublished(NoJournal)
    BY <2>1
  <2> QED
    BY <1>3, <2>2 DEF Unpublished
<1>6. CASE EnterRecover(p)
  <2>1. Published(manifest, journal) /\ journal' = journal
    BY <1>3, <1>6 DEF EnterRecover, JournalUsable, disk
  <2>2. pc'[p] = "cleanup" /\ ~mem'[p].undone
    BY <1>2, <1>6, <2>1 DEF EnterRecover, Goto, Set, NoMem
  <2> QED
    BY <1>4, <1>5, <2>1, <2>2
<1>7. CASE BeginInstall(p) \/ \E c \in Claim : BeginUninstall(p, c)
  BY <1>7 DEF BeginInstall, Start, BeginUninstall
<1>8. CASE Advance(p) \/ Err(p)
  <2>1. pc[p] \in {"complete", "cleanup", "unlink"} /\ ~mem[p].undone
    BY <1>8, HoldersStep DEF Over
  <2>2. \/ WriteComplete(p) \/ WriteCompleteFails(p) \/ DropTrees(p) \/ DropTreesFails(p)
        \/ DropJournal(p) \/ DropJournalFails(p) \/ Crash(p)
    <3>1. ASSUME NEW f \in Path
          PROVE  ~(\/ StageFile(p, f) \/ SnapshotFile(p, f) \/ BackupFile(p, f)
                   \/ CommitFile(p, f) \/ RemoveOrphan(p, f) \/ RemoveOrphanFails(p, f)
                   \/ SaveOwned(p, f) \/ RemoveOwned(p, f) \/ UndoFile(p, f)
                   \/ UndoFileFails(p, f))
      BY <2>1 DEF StageFile, SnapshotFile, BackupFile, CommitFile, RemoveOrphan,
                  RemoveOrphanFails, SaveOwned, RemoveOwned, UndoFile, UndoFileFails
    <3>2. ~(\/ StagingDone(p) \/ SnapshotsDone(p) \/ WriteIntent(p) \/ ListOrphans(p)
            \/ Announce(p) \/ PublishManifest(p) \/ WriteJournal(p)
            \/ WriteStaging(p) \/ UninstallIntent(p) \/ UndoDone(p))
      BY <2>1 DEF StagingDone, SnapshotsDone, WriteIntent, ListOrphans, Announce, WriteJournal,
                  PublishManifest, WriteStaging, UninstallIntent, UndoDone
    <3>3. ~Fail(p) \/ pc[p] = "complete"
      BY <2>1 DEF Fail
    <3>4. ~Fail(p)
      BY <3>3 DEF Fail
    <3> QED
      BY <1>8, <3>1, <3>2, <3>4 DEF Advance, Err
  <2>3. pc'[p] = "idle" \/ (pc'[p] \in {"cleanup", "unlink"} /\ mem' = mem)
    BY <1>2, <2>2, SMTT(30) DEF WriteComplete, WriteCompleteFails, DropTrees, DropTreesFails,
       DropJournal, DropJournalFails, Crash, Leave, Goto
  <2>4. ~Unpublished(journal)'
    <3>1. CASE WriteComplete(p)
      <4>1. journal'.state = "complete"
        BY <3>1 DEF WriteComplete, TxnInv, MemInv, CleanInv
      <4> QED
        BY <4>1 DEF Unpublished
    <3>2. CASE ~WriteComplete(p)
      <4>1. journal' = journal \/ journal' = NoJournal
        BY <2>2, <3>2 DEF WriteCompleteFails, DropTrees, DropTreesFails, DropJournal,
                          DropJournalFails, Crash, disk
      <4> QED
        BY <1>5, <4>1
    <3> QED
      BY <3>1, <3>2
  <2> QED
    BY <1>4, <2>1, <2>3, <2>4 DEF Locked
<1> QED
  BY <1>6, <1>7, <1>8 DEF Takes

(* No copy of a user's bytes leaves the trees of backups but where the path *)
(* holds them again.                                                       *)
LEMMA BackupStep ==
    ASSUME TypeOK, TypeOK', QuietRoot, LockDiscipline, LockDiscipline', CallInv, CallInv', TxnInv,
           BackupInv, NEW p \in Proc, Advance(p) \/ Err(p) \/ Takes(p), ~PublishManifest(p)
    PROVE  /\ BackupInv'
           /\ \A f \in Path, d \in UserData :
                 <<f, d>> \in Copies /\ <<f, d>> \notin Copies' => live'[f] = d
<1>1. manifest' = manifest /\ \A f \in Path : Stands(f)' = Stands(f)
  BY HolderStepKeepsTxn
<1>2. Over => Over' \/ NewTrees
  BY <1>1, OverStep
<1>3. TreesMove(p) /\ Absent \notin UserData
  BY StepMovesTrees, ContentAssumption DEF Content
<1>4. CASE NewTrees
  <2>1. BackupInv'
    BY <1>3, <1>4 DEF NewTrees, EmptyTree, BackupInv
  <2>2. Copies \subseteq Copies'
    BY <1>4 DEF NewTrees, Copies
  <2> QED
    BY <2>1, <2>2
<1>5. CASE UNCHANGED <<backup, kept>> /\ ~NewTrees
  <2>1. BackupInv'
    BY <1>1, <1>2, <1>5 DEF BackupInv
  <2>2. Copies' = Copies
    BY <1>5 DEF Copies
  <2> QED
    BY <2>1, <2>2
<1>6. ASSUME NEW g \in Path, BackupFile(p, g), ~NewTrees
      PROVE  /\ BackupInv'
             /\ \A f \in Path, d \in UserData :
                   <<f, d>> \in Copies /\ <<f, d>> \notin Copies' => live'[f] = d
  <2>1. /\ pc[p] = "backup" /\ kept' = kept /\ live' = live
        /\ backup' = [backup EXCEPT ![g] = live[g]] /\ backup \in [Path -> Leaf]
    BY <1>6 DEF BackupFile, TypeOK
  <2>2. ~Over
    BY <2>1 DEF Over, Locked, Phase
  <2>3. \A f \in Path : Stands(f) = live[f]
    BY <2>1, EarlyStands
  <2>4. \A f \in Path : backup[f] \in UserData => live[f] = backup[f]
    BY <2>2, <2>3 DEF BackupInv
  <2>5. \A f \in Path : backup'[f] \in UserData => Stands(f)' = backup'[f]
    BY <1>1, <2>1, <2>3, <2>4
  <2>6. ASSUME NEW f \in Path, NEW d \in UserData, <<f, d>> \in Copies, live[f] # d
        PROVE  <<f, d>> \in Copies'
    <3>1. CASE <<f, d>> \in kept
      BY <2>1, <3>1 DEF Copies
    <3>2. CASE <<f, d>> \notin kept
      <4>1. backup[f] = d
        BY <2>6, <3>2 DEF Copies
      <4> QED
        BY <2>4, <2>6, <4>1
    <3> QED
      BY <3>1, <3>2
  <2> QED
    BY <2>1, <2>5, <2>6 DEF BackupInv
<1>7. CASE /\ pc[p] = "cleanup" /\ mem[p].undone /\ UNCHANGED <<live, kept>>
           /\ \A f \in Path : backup'[f] \in {backup[f], Absent}
  <2>1. ~Over
    BY <1>7 DEF Over, Locked, Phase
  <2>2. \A f \in Path : backup[f] \in UserData => Stands(f) = backup[f] /\ live[f] = backup[f]
    BY <1>7, <2>1, CleanStands DEF BackupInv
  <2>3. BackupInv'
    BY <1>1, <1>3, <1>7, <2>2 DEF BackupInv
  <2>4. ASSUME NEW f \in Path, NEW d \in UserData, <<f, d>> \in Copies, live[f] # d
        PROVE  <<f, d>> \in Copies'
    <3>1. CASE <<f, d>> \in kept
      BY <1>7, <3>1 DEF Copies
    <3>2. CASE <<f, d>> \notin kept
      <4>1. backup[f] = d
        BY <2>4, <3>2 DEF Copies
      <4> QED
        BY <2>2, <2>4, <4>1
    <3> QED
      BY <3>1, <3>2
  <2> QED
    BY <1>7, <2>3, <2>4
<1> QED
  BY <1>3, <1>4, <1>5, <1>6, <1>7 DEF TreesMove

LEMMA PublishKeepsCopies ==
    ASSUME TypeOK, TypeOK', LockDiscipline, LockDiscipline', CallInv, TxnInv, NEW p \in Proc,
           PublishManifest(p)
    PROVE  BackupInv' /\ Copies' = Copies
<1>1. pc'[p] = "complete" /\ UNCHANGED <<backup, kept>>
  BY DEF PublishManifest, TypeOK, Goto
<1>2. TxnInv' /\ ~Unpublished(journal)'
  BY PublishKeepsTxn
<1>3. ~mem'[p].undone
  BY <1>1, <1>2 DEF TxnInv, MemInv, CleanInv
<1>4. \A q \in Proc \ {p} : pc'[q] \notin Locked
  BY HolderIsAlone DEF Advance
<1>5. Over'
  BY <1>1, <1>2, <1>3, <1>4 DEF Over
<1> QED
  BY <1>1, <1>5 DEF BackupInv, Copies

LEMMA StillKeepsCopies ==
    ASSUME BackupInv, UNCHANGED <<disk, mem>>, \A f \in Path : Stands(f)' = Stands(f),
           \A q \in Proc : pc'[q] = pc[q] \/ pc'[q] \notin Locked
    PROVE  BackupInv' /\ Copies' = Copies
<1>1. UNCHANGED <<manifest, journal, backup, kept>>
  BY DEF disk
<1>2. Over => Over'
  BY <1>1 DEF Over, Unpublished
<1> QED
  BY <1>1, <1>2 DEF BackupInv, Copies

LEMMA CopiesStay ==
    ASSUME TypeOK, TypeOK', QuietRoot, LockDiscipline, LockDiscipline', CallInv, CallInv', TxnInv,
           BackupInv, [Next]_vars
    PROVE  /\ BackupInv'
           /\ \A f \in Path, d \in UserData :
                 <<f, d>> \in Copies /\ <<f, d>> \notin Copies' => live'[f] = d
<1>1. ASSUME NEW p \in Proc, Advance(p) \/ Err(p) \/ Takes(p)
      PROVE  /\ BackupInv'
             /\ \A f \in Path, d \in UserData :
                   <<f, d>> \in Copies /\ <<f, d>> \notin Copies' => live'[f] = d
  BY <1>1, BackupStep, PublishKeepsCopies
<1>2. ASSUME NEW p \in Proc, Command(p), ~Takes(p)
      PROVE  BackupInv' /\ Copies' = Copies
  <2>1. Waits(p) /\ \A f \in Path : Stands(f)' = Stands(f)
    BY <1>2, CommandTakesOrWaits, WaitingKeepsTxn
  <2> QED
    BY <2>1, StillKeepsCopies DEF Waits
<1>3. ~User
  BY DEF User, UserEdit, QuietRoot, TypeOK
<1>4. CASE UNCHANGED vars
  <2>1. \A f \in Path : Stands(f)' = Stands(f)
    BY <1>4 DEF vars, Stands, Unpublished, Before
  <2> QED
    BY <1>4, <2>1, StillKeepsCopies DEF vars, disk
<1> QED
  BY <1>1, <1>2, <1>3, <1>4 DEF Next

LEMMA BackupInvariant == ASSUME QuietRoot PROVE Spec => []BackupInv
<1>1. Init => BackupInv
  BY ContentAssumption DEF Init, BackupInv, EmptyTree, Content
<1>2. TypeOK /\ TypeOK' /\ LockDiscipline /\ LockDiscipline' /\ CallInv /\ CallInv' /\ TxnInv
         /\ BackupInv /\ [Next]_vars => BackupInv'
  BY CopiesStay
<1> QED
  BY <1>1, <1>2, TypeCorrect, MutualExclusion, CallInvariant, TxnInvariant, PTL DEF Spec

(* When a forced install publishes over a file nobody owned, the bytes the *)
(* user had there are in a tree of backups; and no step of any command, no *)
(* error, death or recovery takes a user's bytes out of those trees but    *)
(* where the path holds them again.                                        *)
THEOREM ForcedBytesAreKept == ASSUME QuietRoot PROVE Spec => ForcedBackupKept
<1> DEFINE Kept == \A f \in Path :
         (manifest.owner[f] = {} /\ manifest'.owner[f] # {} /\ lock # Nobody) =>
             LET e == mem[lock].jm.paths[f]
             IN  e.orig \in UserData => <<f, e.orig>> \in Copies'
           Stay == \A f \in Path, d \in UserData :
             <<f, d>> \in Copies /\ <<f, d>> \notin Copies' => live'[f] = d
<1>1. TypeOK /\ LockDiscipline /\ CallInv /\ TxnInv /\ CopyInv /\ [Next]_vars => [Kept]_vars
  <2> SUFFICES ASSUME TypeOK, LockDiscipline, CallInv, TxnInv, CopyInv, [Next]_vars,
                      NEW f \in Path, manifest.owner[f] = {}, manifest'.owner[f] # {}, lock # Nobody,
                      mem[lock].jm.paths[f].orig \in UserData
               PROVE  <<f, mem[lock].jm.paths[f].orig>> \in Copies'
    OBVIOUS
  <2>1. PICK p \in Proc : PublishManifest(p)
    BY OnlyPublishMoves
  <2>2. pc[p] = "publish" /\ pc[p] \in Working /\ manifest' = mem[p].next /\ lock = p /\ WorkInv(p)
    BY <2>1 DEF PublishManifest, LockDiscipline, Locked, Phase, Working, TxnInv, MemInv
  <2>3. PICK c \in Claim :
             \/ /\ mem[p].jm.op = "install"
                /\ mem[p].next = WithClaim(manifest, c, plan[p].bundle)
             \/ /\ mem[p].jm.op = "uninstall"
                /\ mem[p].next = WithoutClaim(manifest, c)
    BY <2>2, PublishedCall
  <2>4. mem[p].jm.op = "install" /\ f \in Files(plan[p].bundle)
    <3>1. CASE mem[p].next = WithoutClaim(manifest, c)
      <4>1. f \in Owned(WithoutClaim(manifest, c))
        BY <2>2, <3>1 DEF Owned
      <4>2. f \in Owned(manifest)
        BY <4>1, WithoutClaimOwned
      <4> QED
        BY <4>2 DEF Owned
    <3>2. CASE f \notin Files(plan[p].bundle) /\ mem[p].next = WithClaim(manifest, c, plan[p].bundle)
      <4>1. f \in Owned(WithClaim(manifest, c, plan[p].bundle)) \ Files(plan[p].bundle)
        BY <2>2, <3>2 DEF Owned
      <4>2. f \in Owned(manifest)
        BY <4>1, WithClaimOwned
      <4> QED
        BY <4>2 DEF Owned
    <3> QED
      BY <2>3, <3>1, <3>2
  <2>5. Stands(f) = mem[p].jm.paths[f].orig
    <3>1. ShippedFile(p, f) /\ f \notin mem[p].todo
      BY <2>2, <2>4, FilesByKind DEF WorkInv
    <3>2. Placed(p, f) /\ mem[p].jm.orphans[f] = "none"
      BY <2>2, <3>1 DEF ShippedFile
    <3> QED
      BY <2>2, <3>2, WorkUsable DEF Placed, Before, Early
  <2>6. backup[f] = mem[p].jm.paths[f].orig
    BY <2>2, <2>4, <2>5 DEF CopyInv, CopyOf
  <2>7. backup[f] # Absent
    BY <2>2, <2>6, ContentAssumption DEF Content
  <2> QED
    BY <2>1, <2>2, <2>6, <2>7 DEF PublishManifest, Copies
<1>2. TypeOK /\ TypeOK' /\ LockDiscipline /\ LockDiscipline' /\ CallInv /\ CallInv' /\ TxnInv
         /\ BackupInv /\ [Next]_vars => [Stay]_vars
  BY CopiesStay
<1> DEFINE Both == /\ Kept
                   /\ Stay
<1>3. TypeOK /\ TypeOK' /\ LockDiscipline /\ LockDiscipline' /\ CallInv /\ CallInv' /\ TxnInv
         /\ CopyInv /\ BackupInv /\ [Next]_vars => [Both]_vars
  BY <1>1, <1>2
<1>4. Spec => [][Both]_vars
  BY <1>3, TypeCorrect, MutualExclusion, CallInvariant, TxnInvariant, CopyInvariant,
     BackupInvariant, PTL DEF Spec
<1> QED
  BY <1>4 DEF ForcedBackupKept
=============================================================================
