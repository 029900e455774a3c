---------------------------- MODULE WindowsInstall ----------------------------
(* The Windows path of install/transaction.py: install, uninstall, rollback, *)
(* recovery and the undoing of a group's install by path name, and what     *)
(* verify accepts.  An install and an uninstall are sequences of effects;   *)
(* the log is the commands, each with how many of its effects took place,   *)
(* and the user's edits between them.                                       *)
EXTENDS Integers, Sequences, FiniteSets, SequencesExt, FiniteSetsExt

Absent == 0
User == 9                 \* content that no release has
Paths == 1 .. 4
Claims == {"one", "two"}
Releases == {1, 2}

(* Release 2 adds file 1, changes file 2, drops file 3 and leaves file 4.   *)
(* The two claims share file 2.                                             *)
Files(claim, release) == IF claim = "two" THEN {2} ELSE IF release = 1 THEN {2, 3, 4} ELSE {1, 2, 4}
Payload(path, release) == IF path = 4 THEN 1 ELSE release

NoFiles == [p \in Paths |-> Absent]
NoManifest == [gen |-> 0, release |-> [c \in Claims |-> 0], owners |-> [p \in Paths |-> {}], sha |-> NoFiles]
NoJournal == [state |-> "none", release |-> 0, next |-> NoManifest, files |-> {}, saved |-> {},
              orig |-> NoFiles, committed |-> {}, retained |-> {}]
Start == [live |-> NoFiles, manifest |-> NoManifest, journal |-> NoJournal, copies |-> NoFiles, mem |-> NoJournal]

Effect(do, path) == [do |-> do, path |-> path]
InOrder(part) == part[1] \o part[2] \o part[3] \o part[4]

-----------------------------------------------------------------------------
(* plan_install and _classify_dest, without --force-with-backup.            *)
Conflicts(d, claim, release) ==
    \E p \in Files(claim, release) :
        \/ d.manifest.owners[p] \ {claim} # {} /\ d.manifest.sha[p] # Payload(p, release)
        \/ d.manifest.owners[p] = {} /\ d.live[p] \notin {Absent, Payload(p, release)}

NextManifest(m, claim, release) ==
    [gen |-> m.gen + 1, release |-> [m.release EXCEPT ![claim] = release],
     owners |-> [p \in Paths |-> (m.owners[p] \ {claim}) \cup (IF p \in Files(claim, release) THEN {claim} ELSE {})],
     sha |-> [p \in Paths |-> IF p \in Files(claim, release) THEN Payload(p, release) ELSE m.sha[p]]]

(* Files that a claim had and none has any more, if nobody edited them.     *)
Orphans(d, next) ==
    {p \in Paths : d.manifest.owners[p] # {} /\ next.owners[p] = {} /\ d.live[p] = d.manifest.sha[p]}

(* The loop that copies what is there, so that it can be put back.          *)
Copying(d, claim, release) ==
    InOrder([p \in Paths |-> IF p \in Files(claim, release) /\ d.live[p] # Absent THEN <<Effect("copy", p)>> ELSE <<>>])

Committing(d, claim, release) ==
    InOrder([p \in Paths |->
        IF p \notin Files(claim, release) THEN <<>>
        ELSE IF d.live[p] = Payload(p, release) THEN <<Effect("retain", p)>>
        ELSE <<Effect("replace", p), Effect("committed", p)>>])

Orphaning(d, next) ==
    IF Orphans(d, next) = {} THEN <<>>
    ELSE <<Effect("orphaning", 0)>>
             \o InOrder([p \in Paths |-> IF p \in Orphans(d, next) THEN <<Effect("unlink", p), Effect("flush", p)>> ELSE <<>>])

(* The manifest, the last journal, and the stage and the journal removed.   *)
Publishing == <<Effect("publishing_manifest", 0), Effect("publish", 0), Effect("complete", 0),
                Effect("sweep", 0), Effect("clear", 0)>>

(* _execute_install_under_lock_windows                                      *)
InstallEffects(d, claim, release) ==
    <<Effect("stage", 0)>> \o Copying(d, claim, release) \o <<Effect("committing", 0)>>
        \o (Committing(d, claim, release) \o Orphaning(d, NextManifest(d.manifest, claim, release)) \o Publishing)

-----------------------------------------------------------------------------
WithoutClaim(m, claim) ==
    LET left == [m EXCEPT !.gen = @ + 1, !.release = [@ EXCEPT ![claim] = 0],
                          !.owners = [p \in Paths |-> m.owners[p] \ {claim}]]
    IN  IF \A p \in Paths : left.owners[p] = {} THEN NoManifest ELSE left

SoleOwned(d, claim) == {p \in Paths : d.manifest.owners[p] = {claim} /\ d.live[p] = d.manifest.sha[p]}

(* _uninstall_claim_windows: without a journal.                             *)
UninstallEffects(d, claim) ==
    InOrder([p \in Paths |-> IF p \in SoleOwned(d, claim) THEN <<Effect("unlink", p)>> ELSE <<>>]) \o <<Effect("publish", 0)>>

-----------------------------------------------------------------------------
(* What an effect does to the journal in memory, and to the disk.           *)
Remember(mem, e) ==
    CASE e.do \in {"committing", "orphaning", "publishing_manifest", "complete"} -> [mem EXCEPT !.state = e.do]
      [] e.do = "retain"    -> [mem EXCEPT !.retained = @ \cup {e.path}]
      [] e.do = "committed" -> [mem EXCEPT !.committed = @ \cup {e.path}]
      [] OTHER              -> mem

Do(d, e) ==
    LET mem == Remember(d.mem, e)
    IN  CASE e.do = "stage"   -> d
          [] e.do = "copy"    -> [d EXCEPT !.copies[e.path] = d.live[e.path],
                                           !.mem = [mem EXCEPT !.saved = @ \cup {e.path}, !.orig[e.path] = d.live[e.path]]]
          [] e.do = "replace" -> [d EXCEPT !.live[e.path] = Payload(e.path, mem.release)]
          [] e.do = "unlink"  -> [d EXCEPT !.live[e.path] = Absent]
          [] e.do = "publish" -> [d EXCEPT !.manifest = mem.next]
          [] e.do = "sweep"   -> [d EXCEPT !.copies = NoFiles]
          [] e.do = "clear"   -> [d EXCEPT !.journal = NoJournal]
          [] OTHER            -> [d EXCEPT !.mem = mem, !.journal = mem]

(* _install_generation_is_published, of an install.                         *)
Published(manifest, journal) == journal.state = "complete" \/ manifest.gen = journal.next.gen

(* What a file and its copy hold after a rollback, and whether it is undone. *)
Kept(d, p, undone) == [live |-> d.live[p], copy |-> d.copies[p], undone |-> undone]

(* The copy is moved back, whatever the file holds now; if it was before,   *)
(* the file should hold it.                                                 *)
PutBack(d, j, p) ==
    IF d.copies[p] # Absent THEN [live |-> d.copies[p], copy |-> Absent, undone |-> TRUE]
    ELSE Kept(d, p, d.live[p] = j.orig[p])

(* A file that was not there is removed if it is the staged one.            *)
RemoveStaged(d, j, p) ==
    IF d.live[p] \in {Absent, Payload(p, j.release)} THEN [live |-> Absent, copy |-> d.copies[p], undone |-> TRUE]
    ELSE Kept(d, p, FALSE)

(* Mutant: only what the journal says was replaced is put back.             *)
UndoPathCommitted(d, j, p) ==
    IF p \in j.retained \/ p \notin j.committed THEN Kept(d, p, TRUE)
    ELSE IF p \in j.saved THEN PutBack(d, j, p) ELSE RemoveStaged(d, j, p)

(* _rollback_paths_windows, one path.                                       *)
UndoPath(d, j, p) ==
    IF p \in j.retained THEN Kept(d, p, TRUE)
    ELSE IF p \in j.saved THEN PutBack(d, j, p) ELSE RemoveStaged(d, j, p)

(* Each path by itself.  An error at one not in able leaves it and the      *)
(* journal.                                                                 *)
Reached(j, able) == {p \in j.files : p \in able \/ p \in j.retained}
Undone(d, j, able, p) == IF p \in Reached(j, able) THEN UndoPath(d, j, p) ELSE Kept(d, p, TRUE)

RollbackPaths(d, j, able) ==
    [d EXCEPT !.live = [p \in Paths |-> Undone(d, j, able, p).live], !.copies = [p \in Paths |-> Undone(d, j, able, p).copy]]
Complete(d, j, able) == \A p \in j.files : p \in Reached(j, able) /\ Undone(d, j, able, p).undone

Cleared(d) == [d EXCEPT !.journal = NoJournal, !.copies = NoFiles]

(* _attempt_rollback                                                        *)
AttemptRollback(d) ==
    LET undone == RollbackPaths([d EXCEPT !.journal = [d.mem EXCEPT !.state = "rollback"]], d.mem, Paths)
    IN  IF Published(d.manifest, d.mem) THEN d
        ELSE IF Complete(d, d.mem, Paths) THEN Cleared(undone) ELSE undone

(* recover_root; a dying one restores the first files only.                 *)
Recover(d, able, dies) ==
    LET undone == RollbackPaths(d, d.journal, able)
    IN  IF d.journal = NoJournal THEN d
        ELSE IF Published(d.manifest, d.journal) THEN IF dies THEN d ELSE Cleared(d)
        ELSE IF Complete(d, d.journal, able) /\ ~dies THEN Cleared(undone) ELSE undone

-----------------------------------------------------------------------------
Run(d, effects) == FoldLeft(Do, d, effects)

(* stop effects take place.  Then the process dies, or the next effect      *)
(* fails: a file that cannot be unlinked stays, anything else is an error,  *)
(* of which an uninstall has no way back.                                   *)
Stopped(d, effects, stop, how, undo) ==
    LET done == Run(d, SubSeq(effects, 1, stop))
        rest == SubSeq(effects, stop + 2, Len(effects))
    IN  IF how = "done" \/ stop = Len(effects) THEN Run(d, effects)
        ELSE IF how = "died" THEN done
        ELSE IF effects[stop + 1].do = "unlink" THEN Run(done, rest)
        ELSE IF undo THEN AttemptRollback([done EXCEPT !.mem = Remember(done.mem, effects[stop + 1])])
        ELSE done

Install(d, r) ==
    LET j == [NoJournal EXCEPT !.state = "staging", !.release = r.release, !.files = Files(r.claim, r.release),
                               !.next = NextManifest(d.manifest, r.claim, r.release)]
    IN  Stopped([d EXCEPT !.mem = j, !.copies = NoFiles], InstallEffects(d, r.claim, r.release), r.stop, r.how, TRUE)

Uninstall(d, r) ==
    Stopped([d EXCEPT !.mem = [NoJournal EXCEPT !.next = WithoutClaim(d.manifest, r.claim)]],
            UninstallEffects(d, r.claim), r.stop, r.how, FALSE)

(* _restore_checkpoint_files_windows: the manifest, then each file that was *)
(* there before the install or that the install wrote, in order, until one  *)
(* holds neither what it held before nor what the install gave it.          *)
RestoreCheckpoint(d, before, r) ==
    LET allowed(p) == {before.live[p], Absent} \cup (IF p \in Files(r.claim, r.release) THEN {Payload(p, r.release)} ELSE {})
        paths == Files(r.claim, r.release) \cup {p \in Paths : before.manifest.owners[p] # {}}
        refused == {p \in paths : before.live[p] # Absent /\ d.live[p] \notin allowed(p)}
        restored == {p \in paths : \A q \in refused : p < q}
    IN  [d EXCEPT !.manifest = before.manifest,
                  !.live = [p \in Paths |-> IF p \in restored THEN before.live[p] ELSE d.live[p]]]

(* One command, or edit, of the log; before and last are the last install's. *)
Command(s, r) ==
    CASE r.kind = "edit"      -> [s EXCEPT !.disk.live[r.path] = r.to]
      [] r.kind = "install"   -> [disk |-> Install(s.disk, r), before |-> s.disk, last |-> r]
      [] r.kind = "uninstall" -> [s EXCEPT !.disk = Uninstall(s.disk, r)]
      [] r.kind = "recover"   -> [s EXCEPT !.disk = Recover(s.disk, r.able, r.dies)]
      [] r.kind = "undo"      -> [s EXCEPT !.disk = RestoreCheckpoint(s.disk, s.before, s.last)]

After(log) == FoldLeft(Command, [disk |-> Start, before |-> Start, last |-> [kind |-> "none"]], log)

-----------------------------------------------------------------------------
(* _verify_root_locked, by an installer of a release.                       *)
Claimed(m, claim) == {p \in Paths : claim \in m.owners[p]}

Verify(d, release) ==
    /\ d.journal = NoJournal /\ d.manifest # NoManifest
    /\ \A c \in Claims : d.manifest.release[c] # 0 =>
           /\ d.manifest.release[c] = release
           /\ Claimed(d.manifest, c) = Files(c, release)
           /\ \A p \in Files(c, release) : Payload(p, release) = d.manifest.sha[p] /\ d.live[p] = d.manifest.sha[p]

-----------------------------------------------------------------------------
(* What may come next: one fault in a log and one edit; commands that are   *)
(* refused change nothing and are left out.                                 *)
Faulty(r) == r.kind \in {"install", "uninstall"} /\ r.how # "done"
Hows(log) == IF \E i \in DOMAIN log : Faulty(log[i]) THEN {"done"} ELSE {"done", "died", "failed"}
Fallible(effects, i) == effects[i + 1].do \notin {"complete", "sweep", "clear", "flush"}

Attempts(log, kind, claim, release, effects) ==
    {r \in [kind : {kind}, claim : {claim}, release : {release}, stop : 0 .. Len(effects) - 1, how : Hows(log)] :
        /\ r.how = "done" => r.stop = 0
        /\ r.how = "failed" => Fallible(effects, r.stop)}

UserEdits(d) == {e \in [kind : {"edit"}, path : Paths, to : {User, Absent}] : d.live[e.path] # e.to}
Recoveries ==
    [kind : {"recover"}, able : {Paths} \cup {Paths \ {p} : p \in Paths}, dies : {FALSE}]
        \cup [kind : {"recover"}, able : {1 .. k : k \in 0 .. 4}, dies : {TRUE}]
InstallAttempts(log, d) ==
    UNION {IF Conflicts(d, c, v) THEN {} ELSE Attempts(log, "install", c, v, InstallEffects(d, c, v)) : c \in Claims, v \in Releases}
UninstallAttempts(log, d) ==
    UNION {IF d.manifest.release[c] = 0 THEN {} ELSE Attempts(log, "uninstall", c, 0, UninstallEffects(d, c)) : c \in Claims}
JustInstalled(log) ==
    log # <<>> /\ LET i == SelectLastInSeq(log, LAMBDA r : r.kind # "edit")
                  IN  i # 0 /\ log[i].kind = "install" /\ log[i].how = "done"

NextRecords(log) ==
    LET d == After(log).disk
    IN  (IF \E i \in DOMAIN log : log[i].kind = "edit" THEN {} ELSE UserEdits(d))
        \cup (IF d.journal # NoJournal THEN Recoveries ELSE InstallAttempts(log, d) \cup UninstallAttempts(log, d))
        \cup (IF JustInstalled(log) THEN {[kind |-> "undo"]} ELSE {})

Staging(d, r) ==
    LET effects == InstallEffects(d, r.claim, r.release)
    IN  r.how = "failed" /\ \E i \in (r.stop + 1) .. Len(effects) : effects[i].do = "committing"

(* An install that dies at any effect, or fails at any after its journal is *)
(* first written, and one that the group undoes, leaves the root as it was  *)
(* or as it was to be, once recovery has run: however often that died or    *)
(* failed before, it can be run to its end.  Only files the new release     *)
(* drops, which are unlinked before the manifest is published and not       *)
(* copied, may be lost.                                                     *)
InstallIsAllOrNothing(log) ==
    LET i == SelectLastInSeq(log, LAMBDA r : r.kind = "install")
        s == After(log)
        r == log[i]
        next == NextManifest(s.before.manifest, r.claim, r.release)
        whole == Install(s.before, [r EXCEPT !.how = "done"])
        d == Recover(s.disk, Paths, FALSE)
    IN  i # 0 /\ (\A k \in (i + 1) .. Len(log) : log[k].kind \in {"recover", "undo"}) /\ ~Staging(s.before, r) =>
            /\ d.journal = NoJournal
            /\ \/ /\ d.manifest = s.before.manifest
                  /\ \A p \in Paths \ Orphans(s.before, next) : d.live[p] = s.before.live[p]
               \/ /\ d.manifest = whole.manifest
                  /\ \A p \in Paths : d.live[p] = whole.live[p] \/ (r.how = "failed" /\ p \in Orphans(s.before, next))

(* No command removes a file that the user has written; only the undoing of *)
(* a group's install does, if the file was not there before.                *)
UserFileIsNotRemoved(log) ==
    log # <<>> /\ Last(log).kind # "undo" =>
        \A p \in Paths : After(Front(log)).disk.live[p] = User => After(log).disk.live[p] # Absent \/ Last(log).kind = "edit"

(* A file of a release that no claim of the manifest owns is on its way in  *)
(* or out under a journal: uninstall, which has none, may be killed         *)
(* anywhere and be run again, for the manifest forgets last.  Not so where  *)
(* an unlink failed: uninstall swallows that after it took the file out of  *)
(* the manifest (3804-3813), and installs leave such an orphan likewise.    *)
(* Logs with a failed command are therefore exempt, and those in which a    *)
(* group's install was undone over an edit.                                 *)
NothingLeftOwnerless(log) ==
    LET d == After(log).disk
    IN  d.journal = NoJournal /\ (\A i \in DOMAIN log : Faulty(log[i]) => log[i].how # "failed")
        /\ {"edit", "undo"} \cap {log[i].kind : i \in DOMAIN log} # {"edit", "undo"} =>
            \A p \in Paths : d.live[p] \notin {Absent, User} => d.manifest.owners[p] # {}

(* Whatever was killed, failed or edited before, a completed install makes  *)
(* a root of which every claim has no file that this one has not a root     *)
(* that verify accepts.                                                     *)
InstallRepairs(log) ==
    LET d == After(log).disk r == Last(log) IN
    log # <<>> /\ r.kind = "install" /\ r.how = "done"
        /\ (\A c \in Claims : d.manifest.release[c] # 0 => Files(c, r.release) \subseteq Files(r.claim, r.release))
        => Verify(d, r.release)
=============================================================================
