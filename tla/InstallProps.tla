----------------------------- MODULE InstallProps ----------------------------
(***************************************************************************)
(* What the journaled transaction of InstallTxn guarantees.  Properties    *)
(* about rollback speak of roots nobody edits while a command runs         *)
(* (MaxEdits = 0); those about user files let users edit at any moment.    *)
(***************************************************************************)
EXTENDS InstallTxn

(* A journal on disk whose generation has not been published. *)
Pending == journal # NoJournal /\ ~Published(manifest, journal)

-----------------------------------------------------------------------------
(* Invariants. *)

(* RootLock is mutual exclusion: a process is inside a mutating command    *)
(* exactly when the flock is its own.                                      *)
LockDiscipline == \A p \in Proc : pc[p] \in Locked <=> lock = p

(* While a command commits, the journal on disk describes that command and *)
(* the generation after the one on disk: no other command's journal is     *)
(* ever overwritten, none outlives the generation it was written for.      *)
JournalIsCurrent ==
    \A p \in Proc : pc[p] \in {"commit", "orphan", "remove", "publish"} =>
        /\ journal.op = mem[p].jm.op
        /\ journal.claims = mem[p].jm.claims
        /\ journal.target = manifest.gen + 1
        /\ mem[p].next.gen \in {0, journal.target}

(* Except while a transaction waits to be undone, every file the manifest  *)
(* lists is on disk with the recorded digest: what `verify` checks.        *)
ManifestMatchesDisk ==
    ~Pending => \A f \in Owned(manifest) : live[f] = manifest.sha[f]

(* A pending journal can always be undone: a file that existed still has   *)
(* its original bytes, in place or in the stage; a created one holds the   *)
(* staged bytes or nothing.                                                *)
RollbackMaterial ==
    Pending => \A f \in Journaled(journal) :
        LET e == journal.paths[f]
        IN  \/ e.st = "retained"
            \/ e.existed  /\ e.orig \in {live[f], stage[f]} \ {Absent}
            \/ ~e.existed /\ live[f] \in {e.sha, Absent}

-----------------------------------------------------------------------------
(* Action properties. *)

(* A published manifest changes what one claim owns; every other claim     *)
(* keeps its files at the digests it recorded.  A plan made before the     *)
(* lock was taken never undoes what another command published since (#35). *)
NoLostClaim ==
    [][manifest' # manifest =>
         \E c \in Claim : \A d \in Claim \ {c} :
             /\ d \in manifest.claims <=> d \in manifest'.claims
             /\ \A f \in Path : /\ d \in manifest.owner[f] <=> d \in manifest'.owner[f]
                                /\ d \in manifest.owner[f] => manifest'.sha[f] = manifest.sha[f]
      ]_vars

UserStep == spent'.edits # spent.edits

(* Uninstall, its rollback and its recovery never remove or overwrite      *)
(* bytes a user wrote, whenever the user wrote them.                       *)
UninstallKeepsUserData ==
    [][(lock # Nobody /\ mem[lock].jm.op = "uninstall" /\ ~UserStep) =>
         \A f \in Path : live[f] \in UserData => live'[f] = live[f]]_vars

(* A foreign file is replaced only after a forced install copied it to its *)
(* backup tree, and of the copies in backup trees none is ever deleted,    *)
(* whatever fails, dies, is recovered or runs next, but where the path has *)
(* the bytes again: a rollback deletes its tree, clearing the journal of a *)
(* published transaction does not (transaction.py:5140, 5220).             *)
Copies == kept \cup {<<f, backup[f]>> : f \in {g \in Path : backup[g] # Absent}}

ForcedBackupKept ==
    [][/\ \A f \in Path :
             (manifest.owner[f] = {} /\ manifest'.owner[f] # {} /\ lock # Nobody) =>
                 LET e == mem[lock].jm.paths[f]
                 IN  e.orig \in UserData => <<f, e.orig>> \in Copies'
       /\ \A f \in Path, d \in UserData :
             <<f, d>> \in Copies /\ <<f, d>> \notin Copies' => live'[f] = d]_vars

(* The invariant behind it: an uninstall's journal, on disk or in memory,  *)
(* names as an original only bytes the manifest had recorded, and only an  *)
(* install goes through the phases that write or remove unconditionally.   *)
OriginalsAreShipped(j) == j.op = "uninstall" => \A f \in Path : j.paths[f].orig \notin UserData

UninstallInv ==
    /\ OriginalsAreShipped(journal)
    /\ \A p \in Proc : OriginalsAreShipped(mem[p].jm)
    /\ \A p \in Proc : pc[p] \in {"staging", "snapshot", "backup", "commit", "orphan"} =>
                           mem[p].jm.op = "install"

-----------------------------------------------------------------------------
(* Liveness: with fair scheduling and finitely many faults and crashes,    *)
(* every journal is eventually cleared, by its command or by recover.      *)
JournalIsCleared == journal # NoJournal ~> journal = NoJournal

-----------------------------------------------------------------------------
(* Refinement.  The payload a root stands for: while a transaction is      *)
(* pending, each file it touched counts as what undoing it restores.       *)
Standing == [f \in Path |->
    LET e == journal.paths[f]
    IN  IF ~Pending THEN live[f]
        ELSE IF journal.orphans[f] \in {"pending", "removed"} THEN manifest.sha[f]
        ELSE IF e.st \in {"none", "retained"} THEN live[f]
        ELSE IF e.existed THEN e.orig ELSE Absent]

Atomic == INSTANCE AtomicRoot WITH payload <- Standing

(* Through every interleaving, error, crash and recovery the root moves    *)
(* atomically from one published generation to the next.                   *)
RootIsAtomic == Atomic!Spec
=============================================================================
