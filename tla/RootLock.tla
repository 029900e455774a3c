------------------------------- MODULE RootLock -------------------------------
(***************************************************************************)
(* install/transaction.py: how a command enters a root.  It picks the lock *)
(* file, polls flock until a deadline, and under the lock moves what an    *)
(* installer before the .state directory left in the support directory     *)
(* ("old") into .state ("new"), entry by entry.                            *)
(*                                                                         *)
(* flock locks an inode, not a name: that both names lead to one inode     *)
(* while the lock file itself is moved is what excludes the others.  A     *)
(* crash releases the lock and leaves the move half done.                  *)
(***************************************************************************)
EXTENDS Integers, Sequences, FiniteSets

CONSTANTS
  Procs,      \* commands of this version
  OldProcs,   \* installers that know only the old place
  CanLink,    \* whether the file system has hard links
  MaxLockFaults   \* bound: crashes and I/O errors

Nobody == "nobody"       \* the holder of a free lock

ASSUME LockAssumption ==
  /\ Procs \cap OldProcs = {}
  /\ Nobody \notin Procs \cup OldProcs
  /\ CanLink \in BOOLEAN
  /\ MaxLockFaults \in Nat

Places == {"old", "new"}
(* What is moved, in this order; the lock file comes third.                *)
Moves == <<"manifest", "journal", "lock", "link", "backups", "stage">>
Entries == {"manifest", "journal", "backups", "stage"}

VARIABLES
  lock,     \* the inode of the lock file at each place, 0 when there is none
  inodes,   \* lock files ever made
  held,     \* the process that holds the flock of an inode, by inode
  at,       \* the places where each other entry is
  names,    \* the place that the journal's stage and backup paths name; "stale"
            \* is still the old one, after a rewrite that failed
  doing,       \* what each process does next
  fd,       \* the lock file it opened
  faults,   \* crashes and errors so far
  split     \* history: an installer of the version before made a lock file

lockVars == <<lock, inodes, held, at, names, doing, fd, faults, split>>

All == Procs \cup OldProcs
Inside == {"both", "manifest", "journal", "lock", "link", "backups", "stage", "rewrite", "critical"}
Ready(p) == IF p \in Procs THEN "idle" ELSE "old idle"

-----------------------------------------------------------------------------
(* The lock *)

Goes(p, label) == doing' = [doing EXCEPT ![p] = label]

(* Mutant: the lock outlives the descriptor. *)
LetsKeepingLock(p) == fd' = [fd EXCEPT ![p] = 0] /\ UNCHANGED held

Lets(p) ==
  /\ fd' = [fd EXCEPT ![p] = 0]
  /\ held' = [i \in DOMAIN held |-> IF held[i] = p THEN Nobody ELSE held[i]]

(* An exception closes the descriptor, which releases the lock.            *)
Fails(p, code) == Goes(p, code) /\ Lets(p)

Start(p) ==
  /\ p \in Procs /\ doing[p] = "idle"
  /\ Goes(p, IF lock["old"] # 0 THEN "legacy exists" ELSE "open new")
  /\ UNCHANGED <<lock, inodes, held, at, names, fd, faults, split>>

(* os.path.lexists(new_lock), after the old one was found                  *)
SeesNew(p) ==
  /\ doing[p] = "legacy exists"
  /\ Goes(p, IF lock["new"] # 0 THEN "open new" ELSE "open old")
  /\ UNCHANGED <<lock, inodes, held, at, names, fd, faults, split>>

(* _open_legacy_support_control_file does not create the file.             *)
OpenOld(p) ==
  /\ doing[p] = "open old"
  /\ IF lock["old"] # 0
     THEN fd' = [fd EXCEPT ![p] = lock["old"]] /\ Goes(p, "flock") /\ UNCHANGED held
     ELSE Fails(p, "conflict")
  /\ UNCHANGED <<lock, inodes, at, names, faults, split>>

(* O_CREAT                                                                 *)
Opens(p, place) ==
  /\ IF lock[place] # 0
     THEN fd' = [fd EXCEPT ![p] = lock[place]] /\ UNCHANGED <<lock, inodes, held>>
     ELSE /\ lock' = [lock EXCEPT ![place] = inodes + 1] /\ inodes' = inodes + 1
          /\ fd' = [fd EXCEPT ![p] = inodes + 1]
          /\ held' = [i \in 1..inodes + 1 |-> IF i \in DOMAIN held THEN held[i] ELSE Nobody]
  /\ Goes(p, "flock")
  /\ UNCHANGED <<at, names, faults>>

OpenNew(p) == doing[p] = "open new" /\ Opens(p, "new") /\ UNCHANGED split

(* flock with LOCK_NB: once more after 50 ms, or E_INSTALL_BUSY after the  *)
(* deadline.                                                               *)
Flock(p) ==
  /\ doing[p] = "flock"
  /\ \/ /\ held[fd[p]] = Nobody
        /\ held' = [held EXCEPT ![fd[p]] = p]
        /\ Goes(p, IF p \in Procs THEN "both" ELSE "critical")
        /\ UNCHANGED fd
     \/ /\ held[fd[p]] # Nobody
        /\ \/ Fails(p, Ready(p)) \/ Fails(p, "busy")
  /\ UNCHANGED <<lock, inodes, at, names, faults, split>>

-----------------------------------------------------------------------------
(* _migrate_v1_control_state *)

After(k) == IF k = Len(Moves) THEN "rewrite" ELSE Moves[k + 1]

(* Mutant: a manifest in .state means that nothing is left to move. *)
BothThenDone(p) ==
  /\ doing[p] = "both"
  /\ IF at["manifest"] = Places THEN Fails(p, "conflict")
     ELSE /\ Goes(p, IF at["manifest"] = {"new"} THEN "critical" ELSE "manifest")
          /\ UNCHANGED <<held, fd>>
  /\ UNCHANGED <<lock, inodes, at, names, faults, split>>

(* Two manifests are ambiguous.                                            *)
Both(p) ==
  /\ doing[p] = "both"
  /\ IF at["manifest"] = Places THEN Fails(p, "conflict")
     ELSE Goes(p, "manifest") /\ UNCHANGED <<held, fd>>
  /\ UNCHANGED <<lock, inodes, at, names, faults, split>>

(* Mutant: an entry in both places is taken for moved. *)
MoveOver(p, k) ==
  /\ doing[p] = Moves[k] /\ Moves[k] \in Entries
  /\ at' = [at EXCEPT ![Moves[k]] = IF @ = {} THEN {} ELSE {"new"}]
  /\ Goes(p, After(k))
  /\ UNCHANGED <<lock, inodes, held, names, fd, faults, split>>

(* _rename_child                                                           *)
Move(p, k) ==
  /\ doing[p] = Moves[k] /\ Moves[k] \in Entries
  /\ LET e == Moves[k]
     IN IF "old" \notin at[e]
        THEN Goes(p, After(k)) /\ UNCHANGED <<at, held, fd>>
        ELSE IF "new" \in at[e]
             THEN Fails(p, "conflict") /\ UNCHANGED at
             ELSE /\ at' = [at EXCEPT ![e] = {"new"}]
                  /\ Goes(p, After(k)) /\ UNCHANGED <<held, fd>>
  /\ UNCHANGED <<lock, inodes, names, faults, split>>

(* Mutant: the lock file is copied, not moved. *)
MoveLockByCopy(p) ==
  /\ doing[p] = "lock"
  /\ \/ /\ lock["old"] = 0 \/ lock["new"] # 0
        /\ UNCHANGED <<lock, inodes, held>>
     \/ /\ lock["old"] # 0 /\ lock["new"] = 0
        /\ lock' = [lock EXCEPT !["new"] = inodes + 1]
        /\ inodes' = inodes + 1 /\ held' = Append(held, Nobody)
  /\ Goes(p, "backups")
  /\ UNCHANGED <<at, names, fd, faults, split>>

(* The lock file moves while it is locked; one name for it is enough.      *)
MoveLock(p) ==
  /\ doing[p] = "lock"
  /\ \/ /\ lock["old"] \in {0, lock["new"]}
        /\ Goes(p, "backups") /\ UNCHANGED <<lock, held, fd>>
     \/ /\ lock["old"] \notin {0, lock["new"]} /\ lock["new"] # 0
        /\ Fails(p, "conflict") /\ UNCHANGED lock
     \/ /\ lock["old"] # 0 /\ lock["new"] = 0
        /\ lock' = [lock EXCEPT !["old"] = 0, !["new"] = lock["old"]]
        /\ Goes(p, "link") /\ UNCHANGED <<held, fd>>
  /\ UNCHANGED <<inodes, at, names, faults, split>>

(* _link_lock_sentinel                                                     *)
LinkBack(p) ==
  /\ doing[p] = "link"
  /\ lock' = IF CanLink /\ lock["old"] = 0 THEN [lock EXCEPT !["old"] = lock["new"]] ELSE lock
  /\ Goes(p, "backups")
  /\ UNCHANGED <<inodes, held, at, names, fd, faults, split>>

(* _rewrite_journal_paths_after_migration, whatever was moved just now     *)
Rewrite(p) ==
  /\ doing[p] = "rewrite"
  /\ names' = IF "new" \in at["journal"] THEN "new" ELSE names
  /\ Goes(p, "critical")
  /\ UNCHANGED <<lock, inodes, held, at, fd, faults, split>>

(* A rewrite that fails is swallowed: the command goes in with a journal   *)
(* that names the old place (its recover will refuse it), and the command  *)
(* after it rewrites again.                                                *)
RewriteFails(p) ==
  /\ doing[p] = "rewrite" /\ "new" \in at["journal"] /\ names # "new"
  /\ faults < MaxLockFaults /\ faults' = faults + 1
  /\ names' = "stale"
  /\ Goes(p, "critical")
  /\ UNCHANGED <<lock, inodes, held, at, fd, split>>

Migrate(p) ==
  \/ Both(p) \/ MoveLock(p) \/ LinkBack(p) \/ Rewrite(p)
  \/ \E k \in DOMAIN Moves : Move(p, k)

-----------------------------------------------------------------------------
(* __exit__ *)
Exit(p) ==
  /\ doing[p] = "critical"
  /\ Fails(p, IF p \in Procs THEN "idle" ELSE "done")
  /\ UNCHANGED <<lock, inodes, at, names, faults, split>>

(* The user runs the command again.                                        *)
Again(p) ==
  /\ doing[p] \in {"busy", "conflict", "dead"}
  /\ Goes(p, Ready(p))
  /\ UNCHANGED <<lock, inodes, held, at, names, fd, faults, split>>

(* A rename fails, or the process dies.                                    *)
LockFault(p) ==
  /\ doing[p] \notin {"idle", "old idle", "busy", "conflict", "dead", "done"}
  /\ faults < MaxLockFaults /\ faults' = faults + 1
  /\ \/ Fails(p, "dead")
     \/ doing[p] \in Entries \cup {"lock"} /\ Fails(p, "conflict")
  /\ UNCHANGED <<lock, inodes, at, names, split>>

(* An installer of the version before runs once and leaves a manifest.     *)
OldStart(p) ==
  /\ doing[p] = "old idle"
  /\ Opens(p, "old")
  /\ split' = (split \/ lock["old"] = 0)

OldInstall(p) ==
  /\ p \in OldProcs /\ doing[p] = "critical" /\ "old" \notin at["manifest"]
  /\ at' = [at EXCEPT !["manifest"] = @ \cup {"old"}]
  /\ UNCHANGED <<lock, inodes, held, names, doing, fd, faults, split>>

Enters(p) == Start(p) \/ SeesNew(p) \/ OpenOld(p) \/ OpenNew(p) \/ Flock(p) \/ Migrate(p)

LockNext ==
  \E p \in All : \/ Enters(p) \/ Exit(p) \/ Again(p)
                \/ RewriteFails(p) \/ LockFault(p) \/ OldStart(p) \/ OldInstall(p)

(* What the version before left: nothing, or a lock file and any of its    *)
(* control files.                                                          *)
LockInit ==
  /\ \/ /\ lock = [x \in Places |-> 0] /\ inodes = 0 /\ held = << >>
        /\ at = [e \in Entries |-> {}] /\ names = "new"
     \/ /\ lock = [x \in Places |-> IF x = "old" THEN 1 ELSE 0] /\ inodes = 1 /\ held = <<Nobody>>
        /\ at \in [Entries -> {{}, {"old"}}] /\ names = "old"
  /\ doing = [p \in All |-> Ready(p)]
  /\ fd = [p \in All |-> 0]
  /\ faults = 0
  /\ split = FALSE

LockSpec == LockInit /\ [][LockNext]_lockVars
FairLockSpec == LockSpec /\ \A p \in All : WF_lockVars(Enters(p) \/ Exit(p) \/ Again(p))

-----------------------------------------------------------------------------
(* Properties *)

(* Each lock file has at most one holder, who has it open.                 *)
LockTypeOK ==
  /\ inodes \in Nat
  /\ lock \in [Places -> 0..inodes]
  /\ held \in [1..inodes -> All \cup {Nobody}]
  /\ at \in [Entries -> SUBSET Places]
  /\ names \in Places \cup {"stale"}
  /\ doing \in [All -> Inside \cup {"idle", "old idle", "legacy exists", "open new", "open old",
                                 "flock", "busy", "conflict", "dead", "done"}]
  /\ fd \in [All -> 0..inodes]
  /\ \A i \in 1..inodes : held[i] # Nobody => fd[held[i]] = i
  /\ faults \in 0..MaxLockFaults

(* One process at a time is inside a root, while the lock file is moved    *)
(* from one name to the other and after a command died in between, and an  *)
(* installer of the version before counts, as long as it finds a lock file *)
(* and does not make one beside the one in .state.                         *)
Mutex == ~split => \A p, q \in All : doing[p] \in Inside /\ doing[q] \in Inside => p = q

(* A command that is in finds every control file in .state and a journal   *)
(* that names the trees where they are, however many died on the way; only *)
(* after a rewrite that failed, and until the next one, it may name where  *)
(* they were.                                                              *)
MovedBefore ==
  \A p \in Procs : doing[p] = "critical" /\ ~split =>
    /\ \A e \in Entries : at[e] \subseteq {"new"}
    /\ at["journal"] # {} => names # "old"

(* No control file is lost, or moved over another.                         *)
NothingLost == [][ \A e \in Entries : Cardinality(at'[e]) >= Cardinality(at[e]) ]_lockVars

(* As long as commands keep being run the move is completed, the journal's *)
(* paths included, unless an installer of the version before made a lock   *)
(* file of its own, or wrote a second manifest, which every command then   *)
(* refuses.                                                                *)
MoveEnds ==
  \/ <>(split \/ at["manifest"] = Places)
  \/ <>[](/\ \A e \in Entries : at[e] \subseteq {"new"}
          /\ at["journal"] # {} => names = "new")
=============================================================================
