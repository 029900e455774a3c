------------------------------ MODULE InstallTxn -----------------------------
(***************************************************************************)
(* The journaled install, uninstall and recovery of one skill root         *)
(* (install/transaction.py, the descriptor-relative POSIX path), run by    *)
(* several installer processes beside users who edit the payload files.    *)
(*                                                                         *)
(* A mutating command holds the root's flock from its checks to its last   *)
(* cleanup.  It works on a journal in memory (mem[p].jm) and flushes it to *)
(* disk (journal) before and after each payload change, so every change    *)
(* and every flush is a step of its own: a process may die between any two *)
(* of them, and the kernel then drops its lock.  The first I/O error turns *)
(* a command to its in-process rollback; a later `recover` command rolls   *)
(* back, or clears, from the journal a dead process left.                  *)
(***************************************************************************)
EXTENDS Ownership

CONSTANTS
    Proc, Nobody,              \* installer processes; the free lock
    FaultPhase, CrashPhase,    \* program points where errors, crashes strike
    MaxGen, MaxEdits, MaxCrashes, MaxFaults,     \* bounds of a run
    Forcing                    \* the --force-with-backup values used

ASSUME BoundAssumption ==
    /\ Nobody \notin Proc
    /\ MaxGen \in Nat /\ MaxEdits \in Nat /\ MaxCrashes \in Nat /\ MaxFaults \in Nat
    /\ Forcing \subseteq BOOLEAN

VARIABLES
    live,      \* the payload files under the root
    manifest,  \* the ownership manifest on disk
    journal,   \* the install journal on disk
    stage,     \* rollback snapshots in the transaction's stage directory
    backup,    \* the last transaction's tree of forced backups
    kept,      \* the copies in the trees of transactions before it
    lock,      \* holder of the root's flock
    pc,        \* where each process is
    plan,      \* the advisory plan each process made without the lock
    mem,       \* the lock holder's working memory
    spent      \* edits, crashes and faults used up

disk == <<live, manifest, journal, stage, backup, kept>>
vars == <<live, manifest, journal, stage, backup, kept, lock, pc, plan, mem, spent>>

-----------------------------------------------------------------------------
(* Journals and working memory. *)

PathEntry == [st      : {"none", "staged", "committed", "retained", "pending", "removed"},
              sha     : Digest \cup {Absent},
              existed : BOOLEAN,
              saved   : {"none", "rollback", "backup"},
              orig    : Leaf]

NoEntry == [st |-> "none", sha |-> Absent, existed |-> FALSE,
            saved |-> "none", orig |-> Absent]

Journal == [state   : {"none", "staging", "committing", "orphaning",
                       "publishing_manifest", "complete", "rollback"},
            op      : {"install", "uninstall"},
            claims  : SUBSET Claim,
            target  : Nat,
            paths   : [Path -> PathEntry],
            orphans : [Path -> {"none", "pending", "removed", "skipped"}]]

(* The journal of operation op for the claims cs (at most one). *)
NewJournal(st, op, cs, target) ==
    [state |-> st, op |-> op, claims |-> cs, target |-> target,
     paths |-> [f \in Path |-> NoEntry], orphans |-> [f \in Path |-> "none"]]

NoJournal == NewJournal("none", "install", {}, 0)

EmptyTree == [f \in Path |-> Absent]

Journaled(j) == {f \in Path : j.paths[f].st # "none"}

(* Mutant: recognises only the journal state, never the generation. *)
PublishedByState(m, j) == j.state = "complete"

(* _install_generation_is_published: the manifest on disk is the one the   *)
(* journal meant to publish, so the payload is no longer to be undone.     *)
Published(m, j) ==
    \/ j.state = "complete"
    \/ /\ j.op = "install"
       /\ m # NoManifest
       /\ m.gen = j.target
    \/ /\ j.op = "uninstall"
       /\ m # NoManifest
       /\ m.gen = j.target
       /\ j.claims \cap m.claims = {}
    \/ /\ j.op = "uninstall"
       /\ m = NoManifest
       /\ \/ j.state = "publishing_manifest"
          \/ /\ Journaled(j) # {}
             /\ \A f \in Journaled(j) : j.paths[f].st \in {"removed", "retained"}

Plan == [claims : SUBSET Claim, bundle : Bundle, force : BOOLEAN, base : Manifest]

NoPlan == [claims |-> {}, bundle |-> CHOOSE b \in Bundle : TRUE,
           force |-> FALSE, base |-> NoManifest]

Mem == [jm     : Journal,       \* the journal as the process has it
        next   : Manifest,      \* the manifest it will publish
        copies : SUBSET Path,   \* files whose foreign bytes it will back up
        todo   : SUBSET Path,   \* files left in the current phase
        ok     : BOOLEAN,       \* the rollback has restored every file so far
        undone : BOOLEAN,       \* the cleanup follows a rollback
        recover : BOOLEAN]      \* the process runs the recover command

NoMem == [jm |-> NoJournal, next |-> NoManifest, copies |-> {}, todo |-> {},
          ok |-> TRUE, undone |-> FALSE, recover |-> FALSE]

Phase == {"idle", "planned", "staging", "snapshot", "backup", "commit", "orphan",
          "publish", "complete", "saving", "ready", "remove", "recover", "undo",
          "cleanup", "unlink"}

Locked == Phase \ {"idle", "planned", "recover"}

TypeOK ==
    /\ live \in [Path -> Leaf]
    /\ manifest \in Manifest
    /\ journal \in Journal
    /\ stage \in [Path -> Leaf]
    /\ backup \in [Path -> Leaf]
    /\ kept \in SUBSET (Path \X Content)
    /\ lock \in Proc \cup {Nobody}
    /\ pc \in [Proc -> Phase]
    /\ plan \in [Proc -> Plan]
    /\ mem \in [Proc -> Mem]
    /\ spent \in [edits : Nat, crashes : Nat, faults : Nat]

Init ==
    /\ live \in [Path -> UserData \cup {Absent}]
    /\ manifest = NoManifest
    /\ journal = NoJournal
    /\ stage = EmptyTree
    /\ backup = EmptyTree
    /\ kept = {}
    /\ lock = Nobody
    /\ pc = [p \in Proc |-> "idle"]
    /\ plan = [p \in Proc |-> NoPlan]
    /\ mem = [p \in Proc |-> NoMem]
    /\ spent = [edits |-> 0, crashes |-> 0, faults |-> 0]

Synced(p) == journal = mem[p].jm

(* p's memory becomes m.  A file f is done when it leaves todo; the        *)
(* journal changes by an entry for one file, or by its state.              *)
Set(p, m) == mem' = [mem EXCEPT ![p] = m]

Put(j, f, e) == [j EXCEPT !.paths = [@ EXCEPT ![f] = e]]

At(j, st) == [j EXCEPT !.state = st]

Done(p, f, j) == Set(p, [mem[p] EXCEPT !.todo = @ \ {f}, !.jm = j])

Todo(p, fs, j) == Set(p, [mem[p] EXCEPT !.todo = fs, !.jm = j])

Goto(p, ph) == pc' = [pc EXCEPT ![p] = ph]

(* The command ends, by return or by exception: its flock is released. *)
Leave(p) ==
    /\ Goto(p, "idle")
    /\ lock' = Nobody
    /\ plan' = [plan EXCEPT ![p] = NoPlan]
    /\ Set(p, NoMem)

Fault == /\ spent.faults < MaxFaults
         /\ spent' = [spent EXCEPT !.faults = @ + 1]

-----------------------------------------------------------------------------
(* Install: plan without the lock, then check everything again under it. *)

Kind(p, f) == Classify(manifest, f, live[f], plan[p].bundle.files[f], plan[p].force)

MakePlan(p, c, b, force) ==
    /\ pc[p] = "idle"
    /\ manifest.gen < MaxGen
    /\ Plannable(manifest, c, b)
    /\ \A f \in Files(b) :
           Classify(manifest, f, live[f], b.files[f], force) # "conflict"
    /\ plan' = [plan EXCEPT ![p] =
           [claims |-> {c}, bundle |-> b, force |-> force, base |-> manifest]]
    /\ Goto(p, "planned")
    /\ UNCHANGED <<disk, lock, mem, spent>>

(* Mutant: no check for a pending journal. *)
PlanHoldsDespiteJournal(p) ==
    /\ manifest = plan[p].base
    /\ \A c \in plan[p].claims : Plannable(manifest, c, plan[p].bundle)
    /\ \A f \in Files(plan[p].bundle) : Kind(p, f) # "conflict"

PlanHolds(p) ==
    /\ journal = NoJournal
    /\ manifest = plan[p].base
    /\ \A c \in plan[p].claims : Plannable(manifest, c, plan[p].bundle)
    /\ \A f \in Files(plan[p].bundle) : Kind(p, f) # "conflict"

(* A transaction makes new trees; a tree of backups that is there stays,   *)
(* but it is no longer one that a rollback would know of.                  *)
PutAwayAll ==      \* a bug: copies of files that had none
    /\ stage' = EmptyTree
    /\ kept' = kept \cup {<<f, backup[f]>> : f \in Path}
    /\ backup' = EmptyTree

NewTrees ==
    /\ stage' = EmptyTree
    /\ kept' = kept \cup {<<f, backup[f]>> : f \in {g \in Path : backup[g] # Absent}}
    /\ backup' = EmptyTree

(* What a command that has the lock sets up: fresh trees, the journal in   *)
(* memory, the manifest to publish over base.                              *)
Start(p, base) ==
    /\ lock' = p
    /\ \E c \in plan[p].claims :
         Set(p, [NoMem EXCEPT
             !.jm     = NewJournal("staging", "install", {c}, base.gen + 1),
             !.next   = WithClaim(base, c, plan[p].bundle),
             !.copies = {f \in Files(plan[p].bundle) : Kind(p, f) = "backup"},
             !.todo   = Files(plan[p].bundle)])
    /\ NewTrees
    /\ Goto(p, "staging")
    /\ UNCHANGED <<live, manifest, journal, plan, spent>>

(* Mutant: the flock is not awaited. *)
BeginUnlocked(p) == pc[p] = "planned" /\ PlanHolds(p) /\ Start(p, manifest)

(* Mutant: the plan made before the lock is the authority. *)
BeginFromStalePlan(p) ==
    /\ pc[p] = "planned"
    /\ lock = Nobody
    /\ journal = NoJournal
    /\ Start(p, plan[p].base)

BeginInstall(p) ==
    /\ pc[p] = "planned"
    /\ lock = Nobody
    /\ PlanHolds(p)
    /\ Start(p, manifest)

(* E_INSTALL_BUSY (lock wait over, or the manifest moved since the plan),  *)
(* E_RECOVERY_REQUIRED (a journal is pending) or E_INSTALL_CONFLICT.       *)
RefuseInstall(p) ==
    /\ pc[p] = "planned"
    /\ lock # Nobody \/ ~PlanHolds(p)
    /\ Goto(p, "idle")
    /\ plan' = [plan EXCEPT ![p] = NoPlan]
    /\ UNCHANGED <<disk, lock, mem, spent>>

-----------------------------------------------------------------------------
(* Install: stage the new files, snapshot the old ones, copy forced ones.  *)

StageFile(p, f) ==
    /\ pc[p] = "staging"
    /\ f \in mem[p].todo
    /\ Done(p, f, Put(mem[p].jm, f, [NoEntry EXCEPT !.st = "staged",
                                                   !.sha = plan[p].bundle.files[f]]))
    /\ UNCHANGED <<disk, lock, pc, plan, spent>>

StagingDone(p) ==
    /\ pc[p] = "staging"
    /\ mem[p].todo = {}
    /\ Todo(p, Files(plan[p].bundle), mem[p].jm)
    /\ Goto(p, "snapshot")
    /\ UNCHANGED <<disk, lock, plan, spent>>

(* Mutant: only files nobody owns are snapshotted. *)
SnapshotForeignOnly(p, f) ==
    /\ pc[p] = "snapshot"
    /\ f \in mem[p].todo
    /\ IF live[f] = Absent \/ manifest.owner[f] # {}
       THEN Done(p, f, mem[p].jm) /\ UNCHANGED stage
       ELSE /\ stage' = [stage EXCEPT ![f] = live[f]]
            /\ Done(p, f, Put(mem[p].jm, f, [mem[p].jm.paths[f] EXCEPT
                   !.existed = TRUE, !.saved = "rollback", !.orig = live[f]]))
    /\ UNCHANGED <<live, manifest, journal, backup, kept, lock, pc, plan, spent>>

SnapshotFile(p, f) ==
    /\ pc[p] = "snapshot"
    /\ f \in mem[p].todo
    /\ IF live[f] = Absent
       THEN Done(p, f, mem[p].jm) /\ UNCHANGED stage
       ELSE /\ stage' = [stage EXCEPT ![f] = live[f]]
            /\ Done(p, f, Put(mem[p].jm, f, [mem[p].jm.paths[f] EXCEPT
                   !.existed = TRUE, !.saved = "rollback", !.orig = live[f]]))
    /\ UNCHANGED <<live, manifest, journal, backup, kept, lock, pc, plan, spent>>

SnapshotsDone(p) ==
    /\ pc[p] = "snapshot"
    /\ mem[p].todo = {}
    /\ Todo(p, mem[p].copies, mem[p].jm)
    /\ Goto(p, "backup")
    /\ UNCHANGED <<disk, lock, plan, spent>>

(* The entry's "backup" serves a rollback only where no snapshot does. *)
BackupFile(p, f) ==
    /\ pc[p] = "backup"
    /\ f \in mem[p].todo
    /\ live[f] # Absent
    /\ backup' = [backup EXCEPT ![f] = live[f]]
    /\ Done(p, f, Put(mem[p].jm, f, [mem[p].jm.paths[f] EXCEPT
                      !.saved = IF @ = "none" THEN "backup" ELSE @]))
    /\ UNCHANGED <<live, manifest, journal, stage, kept, lock, pc, plan, spent>>

-----------------------------------------------------------------------------
(* Install: commit file by file under the journal, then remove orphans. *)

WriteIntent(p) ==
    /\ pc[p] = "backup"
    /\ mem[p].todo = {}
    /\ journal' = At(mem[p].jm, "committing")
    /\ Todo(p, Files(plan[p].bundle), journal')
    /\ Goto(p, "commit")
    /\ UNCHANGED <<live, manifest, stage, backup, kept, lock, plan, spent>>

(* One file is classified again and, unless it already holds the new       *)
(* bytes, atomically replaced by its staged copy.                          *)
CommitFile(p, f) ==
    /\ pc[p] = "commit"
    /\ Synced(p)
    /\ f \in mem[p].todo
    /\ Kind(p, f) # "conflict"
    /\ live' = [live EXCEPT ![f] = plan[p].bundle.files[f]]
    /\ Done(p, f, Put(mem[p].jm, f, [mem[p].jm.paths[f] EXCEPT
           !.st = IF Kind(p, f) = "retain" THEN "retained" ELSE "committed"]))
    /\ UNCHANGED <<manifest, journal, stage, backup, kept, lock, pc, plan, spent>>

(* The flush that follows each per-file change. *)
WriteJournal(p) ==
    /\ pc[p] \in {"commit", "orphan", "remove"}
    /\ ~Synced(p)
    /\ journal' = mem[p].jm
    /\ UNCHANGED <<live, manifest, stage, backup, kept, lock, pc, plan, mem, spent>>

(* Mutant: files other claims still own count as orphans. *)
OrphansSharedToo(p) == {f \in Owned(manifest) \ Files(plan[p].bundle) :
                            live[f] = manifest.sha[f]}

Orphans(p) == {f \in Owned(manifest) \ Files(plan[p].bundle) :
                   mem[p].next.owner[f] = {} /\ live[f] = manifest.sha[f]}

ListOrphans(p) ==
    /\ pc[p] = "commit"
    /\ mem[p].todo = {}
    /\ Synced(p)
    /\ IF Orphans(p) = {}
       THEN UNCHANGED mem
       ELSE Todo(p, Orphans(p), [At(mem[p].jm, "orphaning") EXCEPT !.orphans =
                [f \in Path |-> IF f \in Orphans(p) THEN "pending" ELSE "none"]])
    /\ Goto(p, "orphan")
    /\ UNCHANGED <<disk, lock, plan, spent>>

(* The unlink is guarded by the recorded digest. *)
RemoveOrphan(p, f) ==
    /\ pc[p] = "orphan"
    /\ Synced(p)
    /\ f \in mem[p].todo
    /\ LET match == live[f] = manifest.sha[f]
       IN  /\ live' = [live EXCEPT ![f] = IF match THEN Absent ELSE @]
           /\ Done(p, f, [mem[p].jm EXCEPT !.orphans =
                  [@ EXCEPT ![f] = IF match THEN "removed" ELSE "skipped"]])
    /\ UNCHANGED <<manifest, journal, stage, backup, kept, lock, pc, plan, spent>>

(* The unlink fails: the orphan stays, and the install goes on.            *)
RemoveOrphanFails(p, f) ==
    /\ pc[p] = "orphan"
    /\ Synced(p)
    /\ f \in mem[p].todo
    /\ Fault
    /\ Done(p, f, [mem[p].jm EXCEPT !.orphans = [@ EXCEPT ![f] = "skipped"]])
    /\ UNCHANGED <<disk, lock, pc, plan>>

-----------------------------------------------------------------------------
(* Install and uninstall: announce and publish the manifest, clean up. *)

Announce(p) ==
    /\ pc[p] \in {"orphan", "remove"}
    /\ mem[p].todo = {}
    /\ Synced(p)
    /\ journal' = At(mem[p].jm, "publishing_manifest")
    /\ Todo(p, {}, journal')
    /\ Goto(p, "publish")
    /\ UNCHANGED <<live, manifest, stage, backup, kept, lock, plan, spent>>

(* The manifest is replaced atomically (or unlinked with the last claim);  *)
(* from here on forced backups belong to the caller.                       *)
PublishManifest(p) ==
    /\ pc[p] = "publish"
    /\ manifest' = mem[p].next
    /\ Todo(p, {}, At(mem[p].jm, "complete"))
    /\ Goto(p, "complete")
    /\ UNCHANGED <<live, journal, stage, backup, kept, lock, plan, spent>>

WriteComplete(p) ==
    /\ pc[p] = "complete"
    /\ journal' = mem[p].jm
    /\ Goto(p, "cleanup")
    /\ UNCHANGED <<live, manifest, stage, backup, kept, lock, plan, mem, spent>>

(* The write fails: the stale journal is dropped, or, that failing too,    *)
(* stays for recovery to recognise by its generation.                      *)
WriteCompleteFails(p) ==
    /\ pc[p] = "complete"
    /\ Fault
    /\ journal' \in {NoJournal, journal}
    /\ Goto(p, "cleanup")
    /\ UNCHANGED <<live, manifest, stage, backup, kept, lock, plan, mem>>

(* A bug: the tree of backups goes with the stage, published or not.       *)
DropTreesAlways(p) ==
    /\ pc[p] = "cleanup"
    /\ stage' = EmptyTree
    /\ backup' = EmptyTree
    /\ Goto(p, "unlink")
    /\ UNCHANGED <<live, manifest, journal, kept, lock, plan, mem, spent>>

(* After a rollback, in the command or by recover, the tree of backups     *)
(* goes too; after a publication, or to clear its journal, it does not.    *)
DropTrees(p) ==
    /\ pc[p] = "cleanup"
    /\ stage' = EmptyTree
    /\ backup' = IF mem[p].undone THEN EmptyTree ELSE backup
    /\ Goto(p, "unlink")
    /\ UNCHANGED <<live, manifest, journal, kept, lock, plan, mem, spent>>

(* A tree deletion stops half way: an install or uninstall ignores it, may *)
(* go on to the other tree and unlinks the journal; recover fails and      *)
(* keeps the journal.                                                      *)
DropTreesFails(p) ==
    /\ pc[p] = "cleanup"
    /\ Fault
    /\ \E left \in SUBSET Path :
           stage' = [f \in Path |-> IF f \in left THEN stage[f] ELSE Absent]
    /\ \E left \in SUBSET Path :
           /\ mem[p].undone \/ left = Path
           /\ backup' = [f \in Path |-> IF f \in left THEN backup[f] ELSE Absent]
    /\ IF mem[p].recover
       THEN Leave(p)
       ELSE Goto(p, "unlink") /\ UNCHANGED <<lock, plan, mem>>
    /\ UNCHANGED <<live, manifest, journal, kept>>

DropJournal(p) ==
    /\ pc[p] = "unlink"
    /\ journal' = NoJournal
    /\ Leave(p)
    /\ UNCHANGED <<live, manifest, stage, backup, kept, spent>>

DropJournalFails(p) ==
    /\ pc[p] = "unlink"
    /\ Fault
    /\ Leave(p)
    /\ UNCHANGED disk

-----------------------------------------------------------------------------
(* Uninstall: snapshot what will go, flush the journal, unlink, publish. *)

BeginUninstall(p, c) ==
    /\ pc[p] = "idle"
    /\ lock = Nobody
    /\ journal = NoJournal
    /\ c \in manifest.claims
    /\ manifest.gen < MaxGen
    /\ lock' = p
    /\ Set(p, [NoMem EXCEPT
           !.jm   = NewJournal("staging", "uninstall", {c}, manifest.gen + 1),
           !.next = WithoutClaim(manifest, c),
           !.todo = {f \in SoleOwned(manifest, c) : live[f] = manifest.sha[f]}])
    /\ NewTrees
    /\ Goto(p, "saving")
    /\ UNCHANGED <<live, manifest, journal, plan, spent>>

(* A file that no longer matches is left alone: it is merely disowned. *)
SaveOwned(p, f) ==
    /\ pc[p] = "saving"
    /\ f \in mem[p].todo
    /\ live[f] # Absent
    /\ IF live[f] = manifest.sha[f]
       THEN /\ stage' = [stage EXCEPT ![f] = live[f]]
            /\ Done(p, f, Put(mem[p].jm, f,
                   [st |-> "pending", sha |-> live[f], existed |-> TRUE,
                    saved |-> "rollback", orig |-> live[f]]))
       ELSE Done(p, f, mem[p].jm) /\ UNCHANGED stage
    /\ UNCHANGED <<live, manifest, journal, backup, kept, lock, pc, plan, spent>>

WriteStaging(p) ==
    /\ pc[p] = "saving"
    /\ mem[p].todo = {}
    /\ journal' = mem[p].jm
    /\ Goto(p, "ready")
    /\ UNCHANGED <<live, manifest, stage, backup, kept, lock, plan, mem, spent>>

UninstallIntent(p) ==
    /\ pc[p] = "ready"
    /\ journal' = At(mem[p].jm, "committing")
    /\ Todo(p, Journaled(mem[p].jm), journal')
    /\ Goto(p, "remove")
    /\ UNCHANGED <<live, manifest, stage, backup, kept, lock, plan, spent>>

(* Mutant: the unlink does not look at the digest. *)
RemoveUnguarded(p, f) ==
    /\ pc[p] = "remove"
    /\ Synced(p)
    /\ f \in mem[p].todo
    /\ live' = [live EXCEPT ![f] = Absent]
    /\ Done(p, f, Put(mem[p].jm, f, [mem[p].jm.paths[f] EXCEPT !.st = "removed"]))
    /\ UNCHANGED <<manifest, journal, stage, backup, kept, lock, pc, plan, spent>>

(* The unlink is guarded by the snapshot's digest; a file edited since     *)
(* stays, and its entry loses the snapshot.                                *)
RemoveOwned(p, f) ==
    /\ pc[p] = "remove"
    /\ Synced(p)
    /\ f \in mem[p].todo
    /\ LET e    == mem[p].jm.paths[f]
           gone == live[f] \in {e.orig, Absent}
       IN  /\ live' = [live EXCEPT ![f] = IF gone THEN Absent ELSE @]
           /\ Done(p, f, Put(mem[p].jm, f,
                  IF gone THEN [e EXCEPT !.st = "removed"]
                  ELSE [e EXCEPT !.st = "retained", !.saved = "none", !.orig = Absent]))
    /\ UNCHANGED <<manifest, journal, stage, backup, kept, lock, pc, plan, spent>>

-----------------------------------------------------------------------------
(* Failure and rollback. *)

(* What stops a command without an I/O error: a foreign file that appeared *)
(* before the commit, a file to back up or save that went away.            *)
Conflict(p) == \E f \in mem[p].todo :
                  \/ pc[p] = "commit" /\ Synced(p) /\ Kind(p, f) = "conflict"
                  \/ pc[p] \in {"backup", "saving"} /\ live[f] = Absent

(* The except clause: nothing to undo once published, else roll back from  *)
(* the journal in memory, whether or not it could be flushed.              *)
Fail(p) ==
    /\ pc[p] \in Locked \ {"complete", "undo", "cleanup", "unlink"}
    /\ \/ pc[p] \in FaultPhase /\ Fault
       \/ Conflict(p) /\ UNCHANGED spent
    /\ IF Published(manifest, mem[p].jm)
       THEN Leave(p) /\ UNCHANGED journal
       ELSE /\ Set(p, [mem[p] EXCEPT !.jm     = At(@, "rollback"),
                                     !.undone = TRUE,
                                     !.todo   = Journaled(mem[p].jm)])
            /\ journal' \in {At(mem[p].jm, "rollback"), journal}
            /\ Goto(p, "undo")
            /\ UNCHANGED <<lock, plan>>
    /\ UNCHANGED <<live, manifest, stage, backup, kept>>

(* Mutant: a snapshot a former attempt consumed counts as lost. *)
RestoredOnce(op, e, cur, snap) ==
    LET saved == e.saved # "none" /\ e.st # "retained"
    IN  CASE saved /\ snap = Absent -> [leaf |-> cur, snap |-> snap, ok |-> FALSE]
          [] saved /\ snap # Absent -> [leaf |-> snap, snap |-> Absent, ok |-> TRUE]
          [] OTHER -> [leaf |-> IF ~e.existed /\ cur = e.sha THEN Absent ELSE cur,
                       snap |-> snap, ok |-> e.existed \/ cur \in {e.sha, Absent}]

(* _rollback_paths on one file: what it leaves at the path and in the      *)
(* stage, and whether the file counts as restored.  An install's snapshot  *)
(* is moved over the path; an uninstall's is linked only into a free path; *)
(* a created file goes only if it still holds the staged bytes; a snapshot *)
(* that a former attempt consumed must be what the path holds.             *)
Restored(op, e, cur, snap) ==
    LET skipped == e.st = "retained" \/ (e.saved = "none" /\ e.existed)
        created == ~skipped /\ e.saved = "none"
        usable  == ~skipped /\ e.saved # "none" /\ e.orig # Absent
        To(leaf, left, ok) == [leaf |-> leaf, snap |-> left, ok |-> ok]
    IN  CASE skipped -> To(cur, snap, TRUE)
          [] created /\ cur = e.sha -> To(Absent, snap, TRUE)
          [] created /\ cur # e.sha -> To(cur, snap, cur = Absent)
          [] usable /\ snap = Absent -> To(cur, snap, cur = e.orig)
          [] usable /\ snap # Absent /\ op = "install" -> To(snap, Absent, TRUE)
          [] usable /\ snap # Absent /\ op = "uninstall" ->
                 To(IF cur = Absent THEN snap ELSE cur, snap, TRUE)
          [] OTHER -> To(cur, snap, FALSE)

UndoFile(p, f) ==
    /\ pc[p] = "undo"
    /\ f \in mem[p].todo
    /\ LET r == Restored(mem[p].jm.op, mem[p].jm.paths[f], live[f], stage[f])
       IN  /\ live' = [live EXCEPT ![f] = r.leaf]
           /\ stage' = [stage EXCEPT ![f] = r.snap]
           /\ Set(p, [mem[p] EXCEPT !.todo = @ \ {f}, !.ok = @ /\ r.ok])
    /\ UNCHANGED <<manifest, journal, backup, kept, lock, pc, plan, spent>>

UndoFileFails(p, f) ==
    /\ pc[p] = "undo"
    /\ f \in mem[p].todo
    /\ mem[p].jm.paths[f].st # "retained"
    /\ Fault
    /\ Set(p, [mem[p] EXCEPT !.todo = @ \ {f}, !.ok = FALSE])
    /\ UNCHANGED <<disk, lock, pc, plan>>

(* A complete rollback drops its trees and its journal; an incomplete one  *)
(* keeps them, and the root refuses installs until recover completes it.   *)
UndoDone(p) ==
    /\ pc[p] = "undo"
    /\ mem[p].todo = {}
    /\ IF mem[p].ok
       THEN Goto(p, "cleanup") /\ UNCHANGED <<lock, plan, mem>>
       ELSE Leave(p)
    /\ UNCHANGED <<disk, spent>>

-----------------------------------------------------------------------------
(* Recover, crashes and users. *)

(* recover_root looks for a journal before it waits for the lock. *)
ProbeRecover(p) ==
    /\ pc[p] = "idle"
    /\ journal # NoJournal
    /\ Goto(p, "recover")
    /\ UNCHANGED <<disk, lock, plan, mem, spent>>

(* Mutant: recover does not wait for the flock. *)
EnterUnlocked(p) ==
    /\ pc[p] = "recover"
    /\ journal # NoJournal
    /\ lock' = p
    /\ Set(p, [NoMem EXCEPT !.jm      = journal,
                            !.recover = TRUE,
                            !.undone  = ~Published(manifest, journal),
                            !.todo    = Journaled(journal)])
    /\ Goto(p, IF Published(manifest, journal) THEN "cleanup" ELSE "undo")
    /\ UNCHANGED <<disk, plan, spent>>

EnterRecover(p) ==
    /\ pc[p] = "recover"
    /\ lock = Nobody
    /\ journal # NoJournal
    /\ lock' = p
    /\ Set(p, [NoMem EXCEPT !.jm      = journal,
                            !.recover = TRUE,
                            !.undone  = ~Published(manifest, journal),
                            !.todo    = Journaled(journal)])
    /\ Goto(p, IF Published(manifest, journal) THEN "cleanup" ELSE "undo")
    /\ UNCHANGED <<disk, plan, spent>>

(* The lock wait ends, or the journal is gone by the time it is read. *)
RefuseRecover(p) ==
    /\ pc[p] = "recover"
    /\ lock # Nobody \/ journal = NoJournal
    /\ Goto(p, "idle")
    /\ UNCHANGED <<disk, lock, plan, mem, spent>>

(* The process dies: what is on disk stays, its flock goes. *)
Crash(p) ==
    /\ pc[p] \in CrashPhase \cap Locked
    /\ spent.crashes < MaxCrashes
    /\ spent' = [spent EXCEPT !.crashes = @ + 1]
    /\ Leave(p)
    /\ UNCHANGED disk

UserEdit(f, d) ==
    /\ spent.edits < MaxEdits
    /\ live[f] # d
    /\ live' = [live EXCEPT ![f] = d]
    /\ spent' = [spent EXCEPT !.edits = @ + 1]
    /\ UNCHANGED <<manifest, journal, stage, backup, kept, lock, pc, plan, mem>>

-----------------------------------------------------------------------------
(* The steps a command takes once it holds the lock, errors left out. *)
Advance(p) ==
    \/ \E f \in Path : \/ StageFile(p, f) \/ SnapshotFile(p, f) \/ BackupFile(p, f)
                       \/ CommitFile(p, f) \/ RemoveOrphan(p, f)
                       \/ SaveOwned(p, f) \/ RemoveOwned(p, f) \/ UndoFile(p, f)
    \/ StagingDone(p) \/ SnapshotsDone(p) \/ WriteIntent(p) \/ WriteJournal(p)
    \/ ListOrphans(p) \/ Announce(p) \/ PublishManifest(p) \/ WriteComplete(p)
    \/ WriteStaging(p) \/ UninstallIntent(p)
    \/ UndoDone(p) \/ DropTrees(p) \/ DropJournal(p)

Err(p) ==
    \/ Fail(p) \/ WriteCompleteFails(p) \/ DropTreesFails(p) \/ DropJournalFails(p)
    \/ \E f \in Path : UndoFileFails(p, f) \/ RemoveOrphanFails(p, f)
    \/ Crash(p)

Command(p) ==
    \/ \E c \in Claim : \/ \E b \in Bundle, force \in Forcing : MakePlan(p, c, b, force)
                        \/ BeginUninstall(p, c)
    \/ BeginInstall(p) \/ RefuseInstall(p)
    \/ ProbeRecover(p) \/ EnterRecover(p) \/ RefuseRecover(p)

User == \E f \in Path, d \in UserData \cup {Absent} : UserEdit(f, d)

Next == (\E p \in Proc : Advance(p) \/ Err(p) \/ Command(p)) \/ User

Spec == Init /\ [][Next]_vars

(* A command that was started takes its steps: it waits for the lock no    *)
(* longer than its deadline, and with the lock it runs to its end or dies. *)
(* Somebody who finds a journal pending runs recover again and again.      *)
Fairness == \A p \in Proc : /\ WF_vars(Advance(p) \/ Fail(p))
                            /\ WF_vars(BeginInstall(p) \/ RefuseInstall(p))
                            /\ WF_vars(RefuseRecover(p))
                            /\ SF_vars(ProbeRecover(p))
                            /\ SF_vars(EnterRecover(p))

FairSpec == Spec /\ Fairness
=============================================================================
