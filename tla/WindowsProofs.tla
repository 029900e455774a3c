---------------------------- MODULE WindowsProofs ----------------------------
(* That the Windows installer keeps its promises, for a history of any      *)
(* length: every record of a log keeps WindowsInv, which implies them.      *)
(* In order: what the root is made of and what each effect does to it; an   *)
(* install before its first journal, on its way and after it; how it stops, *)
(* and the ways back from there; uninstall; the log.                        *)
EXTENDS WindowsInstall, SequenceTheorems, FiniteSetTheorems, TLAPS

RunFold == INSTANCE FoldLemmas WITH Op <- Do
CommandFold == INSTANCE FoldLemmas WITH Op <- Command

-----------------------------------------------------------------------------
(* The Windows installer: what its disk, its journals and its manifests may *)
(* be.  A claim of a release owns the files of that release, and the        *)
(* manifest knows what they hold.                                           *)
Sane(m) ==
    \A c \in Claims, p \in Paths :
        /\ c \in m.owners[p] <=> m.release[c] # 0 /\ p \in Files(c, m.release[c])
        /\ c \in m.owners[p] => m.sha[p] = Payload(p, m.release[c])

Contents == [Paths -> {Absent, 1, 2, User}]
Manifests == {m \in [gen : Nat, release : [Claims -> {0, 1, 2}], owners : [Paths -> SUBSET Claims],
                     sha : [Paths -> {0, 1, 2}]] : Sane(m)}
Journals == [state : {"none", "staging", "committing", "orphaning", "publishing_manifest", "complete", "rollback"},
             release : {0, 1, 2}, next : Manifests, files : SUBSET Paths, saved : SUBSET Paths,
             orig : Contents, committed : SUBSET Paths, retained : SUBSET Paths]
Disks == [live : Contents, manifest : Manifests, journal : Journals, copies : Contents, mem : Journals]

Effects == [do : {"stage", "copy", "committing", "retain", "replace", "committed", "orphaning", "unlink", "flush",
                  "publishing_manifest", "publish", "complete", "sweep", "clear"}, path : 0 .. 4]

Installs == [kind : {"install"}, claim : Claims, release : {1, 2}, stop : Nat, how : {"done", "died", "failed"}]

(* What a release ships is no user's content.                               *)
LEMMA PayloadIs == \A p, v : /\ v \in {1, 2} => Payload(p, v) \in {1, 2}
                             /\ v \in {0, 1, 2} => Payload(p, v) \in {0, 1, 2}
BY DEF Payload

(* A release ships files that the model names.                              *)
LEMMA FilesArePaths == \A c, v : Files(c, v) \in SUBSET Paths
BY DEF Files, Paths

(* The root before anything was done is a disk, with neither manifest nor   *)
(* journal.                                                                 *)
LEMMA StartIs == /\ NoManifest \in Manifests /\ NoJournal \in Journals /\ Start \in Disks
                 /\ Start.journal = NoJournal /\ Start.manifest = NoManifest
                 /\ \A p \in Paths : Start.live[p] = 0
<1>1. NoFiles \in Contents /\ \A p \in Paths : NoFiles[p] = 0
  BY DEF NoFiles, Absent, Contents
<1>2. NoFiles \in [Paths -> {0, 1, 2}]
  BY DEF NoFiles, Absent
<1>3. Sane(NoManifest)
  BY DEF Sane, NoManifest
<1>4. NoManifest \in Manifests
  BY <1>2, <1>3 DEF Manifests, NoManifest
<1>5. NoJournal \in Journals
  BY <1>1, <1>4 DEF Journals, NoJournal
<1> QED
  BY <1>1, <1>4, <1>5 DEF Disks, Start

-----------------------------------------------------------------------------
(* What each effect does to the disk and to the journal in memory.          *)

(* The same install, however far it has come.                               *)
SameJob(m, m1) ==
    m1.release = m.release /\ m1.next = m.next /\ m1.files = m.files /\ m1.saved = m.saved /\ m1.orig = m.orig

(* The parts of a disk are what they should be.                             *)
LEMMA JournalOf == \A d \in Disks : d.mem \in Journals /\ d.journal \in Journals /\ d.manifest \in Manifests
                                    /\ d.live \in Contents /\ d.copies \in Contents
BY DEF Disks

(* Staging changes nothing that a file or a journal holds.                  *)
LEMMA StageDoes ==
    ASSUME NEW d \in Disks, NEW e, e = Effect("stage", 0)
    PROVE  e \in Effects /\ Remember(d.mem, e) = d.mem /\ Do(d, e) = d
BY DEF Do, Remember, Effect, Effects

SavesCopy(d, d1, p) ==
    d1.copies = [d.copies EXCEPT ![p] = d.live[p]] /\ d1.mem = [d.mem EXCEPT !.saved = @ \cup {p}, !.orig[p] = d.live[p]]

(* A copy saves the file of its path, and notes it in memory only.          *)
LEMMA CopyDoes ==
    ASSUME NEW d \in Disks, NEW p \in Paths, NEW e, e = Effect("copy", p), NEW d1, d1 = Do(d, e)
    PROVE  /\ e \in Effects /\ Remember(d.mem, e) = d.mem /\ d1 \in Disks
           /\ d1.live = d.live /\ d1.manifest = d.manifest /\ d1.journal = d.journal
           /\ SavesCopy(d, d1, p)
<1>1. e \in Effects /\ e.do = "copy" /\ e.path = p /\ Remember(d.mem, e) = d.mem
  BY DEF Remember, Effect, Effects, Paths
<1>2. PICK copies, mem : copies = [d.copies EXCEPT ![p] = d.live[p]]
               /\ mem = [d.mem EXCEPT !.saved = @ \cup {p}, !.orig[p] = d.live[p]]
  OBVIOUS
<1>3. d1 = [d EXCEPT !.copies = copies, !.mem = mem]
  BY <1>1, <1>2 DEF Do, Disks
<1>4. copies \in Contents /\ mem \in Journals
  BY <1>2, JournalOf DEF Contents, Journals
<1> QED
  BY <1>1, <1>2, <1>3, <1>4 DEF Disks, SavesCopy

(* What is kept of the journal's progress.                                  *)
LEMMA RetainDoes ==
    ASSUME NEW d \in Disks, NEW p \in Paths, NEW do \in {"retain", "committed"}, NEW e,
           e = Effect(do, p), NEW d1, d1 = Do(d, e)
    PROVE  /\ e \in Effects /\ d1 \in Disks /\ d1.mem = Remember(d.mem, e) /\ d1.journal = d1.mem
           /\ d1.live = d.live /\ d1.manifest = d.manifest /\ d1.copies = d.copies
           /\ d1.mem \in Journals /\ SameJob(d.mem, d1.mem) /\ d1.mem.state = d.mem.state
           /\ d1.mem.retained = IF do = "retain" THEN d.mem.retained \cup {p} ELSE d.mem.retained
<1>1. e \in Effects /\ e.do = do /\ e.path = p
  BY DEF Effect, Effects, Paths
<1>2. PICK mem : mem = Remember(d.mem, e)
  OBVIOUS
<1>3. d1 = [d EXCEPT !.mem = mem, !.journal = mem]
  BY <1>1, <1>2 DEF Do
<1>4. CASE do = "retain"
  <2>1. mem = [d.mem EXCEPT !.retained = @ \cup {p}]
    BY <1>1, <1>2, <1>4 DEF Remember
  <2>2. mem \in Journals
    BY <2>1, JournalOf DEF Journals
  <2>3. SameJob(d.mem, mem) /\ mem.state = d.mem.state /\ mem.retained = d.mem.retained \cup {p}
    BY <2>1, JournalOf DEF SameJob, Journals
  <2> QED
    BY <1>1, <1>2, <1>3, <1>4, <2>2, <2>3 DEF Disks
<1>5. CASE do = "committed"
  <2>1. mem = [d.mem EXCEPT !.committed = @ \cup {p}]
    BY <1>1, <1>2, <1>5 DEF Remember
  <2>2. mem \in Journals
    BY <2>1, JournalOf DEF Journals
  <2>3. SameJob(d.mem, mem) /\ mem.state = d.mem.state /\ mem.retained = d.mem.retained
    BY <2>1, JournalOf DEF SameJob, Journals
  <2> QED
    BY <1>1, <1>2, <1>3, <1>5, <2>2, <2>3 DEF Disks
<1> QED
  BY <1>4, <1>5

(* A new state of the journal is written down, with all it was to do.       *)
LEMMA StateDoes ==
    ASSUME NEW d \in Disks, NEW do \in {"committing", "orphaning", "publishing_manifest", "complete"},
           NEW e, e = Effect(do, 0), NEW d1, d1 = Do(d, e)
    PROVE  /\ e \in Effects /\ d1 \in Disks /\ d1.mem = Remember(d.mem, e) /\ d1.journal = d1.mem
           /\ d1.live = d.live /\ d1.manifest = d.manifest /\ d1.copies = d.copies
           /\ d1.mem \in Journals /\ SameJob(d.mem, d1.mem) /\ d1.mem.retained = d.mem.retained
           /\ d1.mem.state = do
<1>1. e \in Effects /\ e.do = do /\ e.path = 0
  BY DEF Effect, Effects
<1>2. PICK mem : mem = Remember(d.mem, e)
  OBVIOUS
<1>3. d1 = [d EXCEPT !.mem = mem, !.journal = mem]
  BY <1>1, <1>2 DEF Do
<1>4. mem = [d.mem EXCEPT !.state = do]
  BY <1>1, <1>2 DEF Remember
<1>5. mem \in Journals
  BY <1>4, JournalOf DEF Journals
<1>6. SameJob(d.mem, mem) /\ mem.retained = d.mem.retained /\ mem.state = do
  BY <1>4, JournalOf DEF SameJob, Journals
<1> QED
  BY <1>1, <1>2, <1>3, <1>5, <1>6 DEF Disks

(* Only the file of a path is another one.                                  *)
Sets(d, d1, p, v) == \A q \in Paths : d1.live[q] = IF q = p THEN v ELSE d.live[q]

(* A replace or an unlink changes the file of its path, and nothing else.   *)
LEMMA FileDoes ==
    ASSUME NEW d \in Disks, NEW p \in Paths, NEW do \in {"replace", "unlink"}, NEW e,
           e = Effect(do, p), NEW d1, d1 = Do(d, e)
    PROVE  /\ e \in Effects /\ Remember(d.mem, e) = d.mem /\ d1 \in Disks
           /\ Sets(d, d1, p, IF do = "replace" THEN Payload(p, d.mem.release) ELSE 0)
           /\ d1.manifest = d.manifest /\ d1.journal = d.journal /\ d1.copies = d.copies /\ d1.mem = d.mem
<1>1. e \in Effects /\ e.do = do /\ e.path = p /\ Remember(d.mem, e) = d.mem
  BY DEF Remember, Effect, Effects, Paths
<1>2. PICK live : live = [d.live EXCEPT ![p] = IF do = "replace" THEN Payload(p, d.mem.release) ELSE 0]
  OBVIOUS
<1>3. d1 = [d EXCEPT !.live = live]
  BY <1>1, <1>2 DEF Do, Disks, Absent
<1>4. live \in Contents /\ \A q \in Paths : live[q] = IF q = p THEN live[p] ELSE d.live[q]
  BY <1>2, JournalOf, PayloadIs DEF Contents, Journals, Absent
<1>5. live[p] = IF do = "replace" THEN Payload(p, d.mem.release) ELSE 0
  BY <1>2, JournalOf DEF Contents
<1> QED
  BY <1>1, <1>3, <1>4, <1>5 DEF Disks, Sets

(* The manifest is published, the copies swept, the journal cleared: no     *)
(* file changes.                                                            *)
LEMMA OtherDoes ==
    ASSUME NEW d \in Disks, NEW do \in {"publish", "sweep", "clear"}, NEW e, e = Effect(do, 0), NEW d1,
           d1 = Do(d, e)
    PROVE  /\ e \in Effects /\ Remember(d.mem, e) = d.mem /\ d1 \in Disks
           /\ d1.live = d.live /\ d1.mem = d.mem
           /\ d1.manifest = IF do = "publish" THEN d.mem.next ELSE d.manifest
           /\ d1.journal = IF do = "clear" THEN NoJournal ELSE d.journal
<1>1. e \in Effects /\ e.do = do /\ e.path = 0 /\ Remember(d.mem, e) = d.mem
  BY DEF Remember, Effect, Effects, Paths
<1>2. d1 = CASE do = "publish" -> [d EXCEPT !.manifest = d.mem.next]
             [] do = "sweep"   -> [d EXCEPT !.copies = NoFiles]
             [] do = "clear"   -> [d EXCEPT !.journal = NoJournal]
  BY <1>1 DEF Do
<1>3. NoFiles \in Contents /\ d.mem.next \in Manifests
  BY JournalOf DEF NoFiles, Absent, Contents, Journals
<1> QED
  BY <1>1, <1>2, <1>3, StartIs DEF Disks

(* A flush writes the journal in memory down.                               *)
LEMMA FlushDoes ==
    ASSUME NEW d \in Disks, NEW p \in Paths, NEW e, e = Effect("flush", p), NEW d1, d1 = Do(d, e)
    PROVE  e \in Effects /\ Remember(d.mem, e) = d.mem /\ d1 = [d EXCEPT !.journal = d.mem] /\ d1 \in Disks
<1>1. e \in Effects /\ e.do = "flush" /\ e.path = p /\ Remember(d.mem, e) = d.mem
  BY DEF Remember, Effect, Effects, Paths
<1>2. d1 = [d EXCEPT !.mem = d.mem, !.journal = d.mem]
  BY <1>1 DEF Do
<1> QED
  BY <1>1, <1>2 DEF Disks

-----------------------------------------------------------------------------
(* An install that plan_install lets through, what it is to make, and the   *)
(* files that its release drops.                                            *)
Given(b, r) == b \in Disks /\ r \in Installs /\ b.journal = NoJournal /\ ~Conflicts(b, r.claim, r.release)
Of(r) == Files(r.claim, r.release)
Target(b, r) == NextManifest(b.manifest, r.claim, r.release)
Gone(b, r) == Orphans(b, Target(b, r))

(* What an install that conflicts with nothing writes is its own, and what  *)
(* it drops no user edited.                                                 *)
LEMMA GivenIs ==
    ASSUME NEW b, NEW r, Given(b, r)
    PROVE  /\ Target(b, r) \in Manifests /\ Target(b, r).gen = b.manifest.gen + 1 /\ b.manifest.gen \in Nat
           /\ \A p \in Paths : p \in Of(r) => Payload(p, r.release) \in {1, 2} /\ p \notin Gone(b, r)
           /\ \A p \in Gone(b, r) : b.live[p] \in {1, 2} /\ b.manifest.owners[p] # {}
           /\ Of(r) \subseteq Paths /\ Gone(b, r) \subseteq Paths
           /\ b.live \in Contents
<1>1. /\ b.manifest \in Manifests /\ Sane(b.manifest) /\ b.live \in Contents /\ r.claim \in Claims
             /\ r.release \in {1, 2}
      /\ b.manifest.gen \in Nat /\ b.manifest.release \in [Claims -> {0, 1, 2}]
      /\ b.manifest.owners \in [Paths -> SUBSET Claims] /\ b.manifest.sha \in [Paths -> {0, 1, 2}]
  BY DEF Given, Disks, Manifests, Installs
<1>2. Of(r) \subseteq Paths
  BY FilesArePaths DEF Of
<1>3. PICK owners, sha, release :
          /\ owners = [p \in Paths |-> (b.manifest.owners[p] \ {r.claim}) \cup (IF p \in Of(r) THEN {r.claim} ELSE {})]
          /\ sha = [p \in Paths |-> IF p \in Of(r) THEN Payload(p, r.release) ELSE b.manifest.sha[p]]
          /\ release = [b.manifest.release EXCEPT ![r.claim] = r.release]
  OBVIOUS
<1>4. Target(b, r) = [gen |-> b.manifest.gen + 1, release |-> release, owners |-> owners, sha |-> sha]
  BY <1>3 DEF Target, NextManifest, Of
<1>5. release \in [Claims -> {0, 1, 2}] /\ owners \in [Paths -> SUBSET Claims]
          /\ sha \in [Paths -> {0, 1, 2}]
  BY <1>1, <1>3, PayloadIs
<1>6. ASSUME NEW c \in Claims, NEW p \in Paths
      PROVE  /\ c \in owners[p] <=> release[c] # 0 /\ p \in Files(c, release[c])
             /\ c \in owners[p] => sha[p] = Payload(p, release[c])
  <2>1. CASE c = r.claim
    BY <1>1, <1>3, <2>1 DEF Of
  <2>2. CASE c # r.claim
    <3>1. release[c] = b.manifest.release[c] /\ (c \in owners[p] <=> c \in b.manifest.owners[p])
      BY <1>1, <1>3, <2>2
    <3>2. c \in b.manifest.owners[p] <=> b.manifest.release[c] # 0 /\ p \in Files(c, b.manifest.release[c])
      BY <1>1 DEF Sane
    <3>3. c \in b.manifest.owners[p] => b.manifest.sha[p] = Payload(p, b.manifest.release[c])
      BY <1>1 DEF Sane
    <3>4. c \in b.manifest.owners[p] /\ p \in Of(r) => b.manifest.sha[p] = Payload(p, r.release)
      BY <2>2 DEF Given, Conflicts, Of
    <3> QED
      BY <1>3, <3>1, <3>2, <3>3, <3>4
  <2> QED
    BY <2>1, <2>2
<1>7. Target(b, r) \in Manifests
  <2>1. Sane(Target(b, r))
    BY <1>4, <1>6 DEF Sane
  <2> QED
    BY <1>1, <1>4, <1>5, <2>1 DEF Manifests
<1>8. ASSUME NEW p \in Gone(b, r)
      PROVE  b.live[p] \in {1, 2} /\ b.manifest.owners[p] # {} /\ p \notin Of(r) /\ p \in Paths
  <2>1. p \in Paths /\ b.manifest.owners[p] # {} /\ owners[p] = {} /\ b.live[p] = b.manifest.sha[p]
    BY <1>4 DEF Gone, Orphans
  <2>2. PICK c \in Claims : c \in b.manifest.owners[p]
    BY <1>1, <2>1
  <2>3. b.manifest.release[c] \in {1, 2} /\ b.manifest.sha[p] = Payload(p, b.manifest.release[c])
    BY <1>1, <2>1, <2>2 DEF Sane
  <2> QED
    BY <1>3, <2>1, <2>3, PayloadIs
<1> QED
  BY <1>1, <1>2, <1>4, <1>7, <1>8, PayloadIs

-----------------------------------------------------------------------------
(* The journal of an install, and a disk that a rollback with that journal  *)
(* makes what it was, but for the files that were dropped.                  *)
Job(b, r, m) == m \in Journals /\ m.release = r.release /\ m.next = Target(b, r) /\ m.files = Of(r)

(* The file of a path is as it was, or dropped.                             *)
Was(b, r, d, p) == d.live[p] = b.live[p] \/ (p \in Gone(b, r) /\ d.live[p] = 0)

UndoableAt(b, r, j, d, p) ==
    IF p \notin Of(r) THEN Was(b, r, d, p)
    ELSE /\ p \in j.saved <=> b.live[p] # 0
         /\ p \in j.saved => j.orig[p] = b.live[p] /\ d.live[p] \in {b.live[p], Payload(p, r.release)}
         /\ p \in j.retained => b.live[p] = Payload(p, r.release) /\ d.live[p] = b.live[p]
         /\ p \in j.saved /\ p \notin j.retained => d.copies[p] = b.live[p] \/ (d.copies[p] = 0 /\ d.live[p] = b.live[p])
         /\ p \notin j.saved => d.live[p] \in {0, Payload(p, r.release)}

Undoable(b, r, j, d) == d.manifest = b.manifest /\ Job(b, r, j) /\ \A p \in Paths : UndoableAt(b, r, j, d, p)

(* What a rollback does to each path.                                       *)
LEMMA KeptIs == \A d, p, x : Kept(d, p, x).undone = x
BY DEF Kept

(* What a rollback leaves of one path: no user's file is removed.           *)
LEMMA UndonePath ==
    ASSUME NEW d \in Disks, NEW j \in Journals, NEW able, NEW p \in Paths, NEW u, u = Undone(d, j, able, p)
    PROVE  /\ u.live \in {0, 1, 2, 9} /\ u.copy \in {0, 1, 2, 9} /\ (d.live[p] = 9 => u.live # 0)
           /\ p \notin Reached(j, able) \/ p \in j.retained => u.live = d.live[p] /\ u.copy = d.copies[p] /\ u.undone
           /\ p \in Reached(j, able) /\ p \notin j.retained /\ p \in j.saved =>
                  IF d.copies[p] # 0 THEN u.live = d.copies[p] /\ u.copy = 0 /\ u.undone
                  ELSE u.live = d.live[p] /\ u.copy = d.copies[p] /\ (u.undone <=> d.live[p] = j.orig[p])
           /\ p \in Reached(j, able) /\ p \notin j.retained /\ p \notin j.saved =>
                  /\ u.copy = d.copies[p]
                  /\ IF d.live[p] \in {0, Payload(p, j.release)} THEN u.live = 0 /\ u.undone
                     ELSE u.live = d.live[p] /\ ~u.undone
<1>1. d.live[p] \in {0, 1, 2, 9} /\ d.copies[p] \in {0, 1, 2, 9} /\ j.release \in {0, 1, 2}
  BY DEF Disks, Contents, Journals, Absent, User
<1>2. Payload(p, j.release) \in {0, 1, 2}
  BY <1>1, PayloadIs
<1>4. ASSUME p \notin Reached(j, able) \/ p \in j.retained
      PROVE  u.live = d.live[p] /\ u.copy = d.copies[p] /\ u.undone
  <2>1. u = [live |-> d.live[p], copy |-> d.copies[p], undone |-> TRUE]
    BY <1>4 DEF Undone, UndoPath, Kept
  <2> QED
    BY <2>1
<1>5. ASSUME p \in Reached(j, able), p \notin j.retained, p \in j.saved, d.copies[p] # 0
      PROVE  u.live = d.copies[p] /\ u.copy = 0 /\ u.undone
  <2>1. u = [live |-> d.copies[p], copy |-> 0, undone |-> TRUE]
    BY <1>5 DEF Undone, UndoPath, PutBack, Absent
  <2> QED
    BY <2>1
<1>6. ASSUME p \in Reached(j, able), p \notin j.retained, p \in j.saved, d.copies[p] = 0
      PROVE  u.live = d.live[p] /\ u.copy = d.copies[p] /\ (u.undone <=> d.live[p] = j.orig[p])
  <2>1. u = Kept(d, p, d.live[p] = j.orig[p])
    BY <1>6 DEF Undone, UndoPath, PutBack, Absent
  <2>2. u.live = d.live[p] /\ u.copy = d.copies[p]
    BY <2>1 DEF Kept
  <2>3. u.undone = (d.live[p] = j.orig[p])
    BY <2>1, KeptIs
  <2> QED
    BY <2>2, <2>3
<1>7. ASSUME p \in Reached(j, able), p \notin j.retained, p \notin j.saved,
             d.live[p] \in {0, Payload(p, j.release)}
      PROVE  u.live = 0 /\ u.copy = d.copies[p] /\ u.undone
  <2>1. u = [live |-> 0, copy |-> d.copies[p], undone |-> TRUE]
    BY <1>7 DEF Undone, UndoPath, RemoveStaged, Absent
  <2> QED
    BY <2>1
<1>8. ASSUME p \in Reached(j, able), p \notin j.retained, p \notin j.saved,
             d.live[p] \notin {0, Payload(p, j.release)}
      PROVE  u.live = d.live[p] /\ u.copy = d.copies[p] /\ ~u.undone
  <2>1. u = [live |-> d.live[p], copy |-> d.copies[p], undone |-> FALSE]
    BY <1>8 DEF Undone, UndoPath, RemoveStaged, Absent, Kept
  <2> QED
    BY <2>1
<1>9. u.live \in {0, 1, 2, 9} /\ u.copy \in {0, 1, 2, 9} /\ (d.live[p] = 9 => u.live # 0)
  BY <1>1, <1>2, <1>4, <1>5, <1>6, <1>7, <1>8
<1> QED
  BY <1>4, <1>5, <1>6, <1>7, <1>8, <1>9

(* A rollback changes files and copies alone, each path by itself.          *)
LEMMA RollbackIs ==
    ASSUME NEW d \in Disks, NEW j \in Journals, NEW able, NEW u, u = RollbackPaths(d, j, able)
    PROVE  /\ u \in Disks /\ u.manifest = d.manifest /\ u.journal = d.journal /\ u.mem = d.mem
           /\ \A p \in Paths : u.live[p] = Undone(d, j, able, p).live
                  /\ u.copies[p] = Undone(d, j, able, p).copy
<1> DEFINE live == [p \in Paths |-> Undone(d, j, able, p).live]
           copies == [p \in Paths |-> Undone(d, j, able, p).copy]
<1>1. /\ live = [p \in Paths |-> Undone(d, j, able, p).live]
      /\ copies = [p \in Paths |-> Undone(d, j, able, p).copy]
  OBVIOUS
<1>2. u = [d EXCEPT !.live = live, !.copies = copies]
  BY Zenon DEF RollbackPaths
<1> HIDE DEF live, copies
<1>3. live \in Contents /\ copies \in Contents
  BY <1>1, UndonePath DEF Contents, Absent, User
<1>4. u \in Disks /\ u.manifest = d.manifest /\ u.journal = d.journal /\ u.mem = d.mem /\ u.live = live /\ u.copies = copies
  BY ONLY d \in Disks, <1>2, <1>3 DEF Disks
<1> QED
  BY <1>1, <1>4

(* It undoes an install: as far as it comes, and wholly if it is complete,  *)
(* which it is when no file resists.                                        *)
LEMMA RollbackUndoes ==
    ASSUME NEW b, NEW r, Given(b, r), NEW d \in Disks, NEW j \in Journals, Undoable(b, r, j, d), NEW able,
           NEW u, u = RollbackPaths(d, j, able)
    PROVE  /\ u \in Disks /\ u.manifest = b.manifest /\ u.journal = d.journal /\ u.mem = d.mem
           /\ Undoable(b, r, j, u)
           /\ Complete(d, j, able) => \A p \in Paths : Was(b, r, u, p)
           /\ able = Paths => Complete(d, j, able)
<1>1. /\ u \in Disks /\ u.manifest = d.manifest /\ u.journal = d.journal /\ u.mem = d.mem
      /\ \A p \in Paths : u.live[p] = Undone(d, j, able, p).live
             /\ u.copies[p] = Undone(d, j, able, p).copy
      /\ Complete(d, j, able) <=> \A p \in j.files : p \in Reached(j, able)
             /\ Undone(d, j, able, p).undone
  BY RollbackIs DEF Complete
<1>2. /\ d.manifest = b.manifest /\ Job(b, r, j) /\ j.files = Of(r) /\ j.release = r.release /\ Of(r) \subseteq Paths
      /\ \A p \in Paths : UndoableAt(b, r, j, d, p)
  BY GivenIs DEF Undoable, Job
<1>3. ASSUME NEW p \in Paths
      PROVE  /\ UndoableAt(b, r, j, u, p)
             /\ p \notin Of(r) => Was(b, r, u, p)
             /\ p \in Reached(j, able) /\ p \in Of(r) => Undone(d, j, able, p).undone /\ Was(b, r, u, p)
  <2>1. PICK w : w = Undone(d, j, able, p)
    OBVIOUS
  <2>2. u.live[p] = w.live /\ u.copies[p] = w.copy
    BY <1>1, <2>1
  <2>3. CASE p \notin Of(r)
    <3>1. w.live = d.live[p]
      BY <1>2, <2>1, <2>3, UndonePath DEF Reached
    <3> QED
      BY <1>2, <2>2, <2>3, <3>1 DEF UndoableAt, Was
  <2>4. CASE p \in Of(r) /\ (p \notin Reached(j, able) \/ p \in j.retained)
    <3>1. w.live = d.live[p] /\ w.copy = d.copies[p] /\ w.undone
      BY <2>1, <2>4, UndonePath
    <3> QED
      BY <1>2, <2>1, <2>2, <2>4, <3>1 DEF UndoableAt, Was
  <2>5. CASE p \in Of(r) /\ p \in Reached(j, able) /\ p \notin j.retained /\ p \in j.saved
    <3>1. IF d.copies[p] # 0 THEN w.live = d.copies[p] /\ w.copy = 0 /\ w.undone
          ELSE w.live = d.live[p] /\ w.copy = d.copies[p] /\ (w.undone <=> d.live[p] = j.orig[p])
      BY <2>1, <2>5, UndonePath
    <3> QED
      BY <1>2, <2>1, <2>2, <2>5, <3>1 DEF UndoableAt, Was
  <2>6. CASE p \in Of(r) /\ p \in Reached(j, able) /\ p \notin j.retained /\ p \notin j.saved
    <3>1. IF d.live[p] \in {0, Payload(p, j.release)} THEN w.live = 0 /\ w.undone
          ELSE w.live = d.live[p] /\ ~w.undone
      BY <2>1, <2>6, UndonePath
    <3> QED
      BY <1>2, <2>1, <2>2, <2>6, <3>1 DEF UndoableAt, Was
  <2> QED
    BY <2>3, <2>4, <2>5, <2>6
<1>4. Undoable(b, r, j, u)
  BY <1>1, <1>2, <1>3 DEF Undoable
<1>5. able = Paths => Of(r) \subseteq Reached(j, able)
  BY <1>2 DEF Reached
<1> QED
  BY <1>1, <1>2, <1>3, <1>4, <1>5

(* Where a stopped install may leave the disk: as it was, on its way with   *)
(* the journal, the new manifest published, or all done.  Files up to o     *)
(* that were to be dropped are.                                             *)
Back(b, r) ==
    {d \in Disks : d.manifest = b.manifest /\ d.journal = NoJournal /\ \A p \in Paths : Was(b, r, d, p)}
Halfway(b, r) == {d \in Disks : d.journal.state # "complete" /\ Undoable(b, r, d.journal, d)}

MadeAt(b, r, o, d, p) ==
    IF p \in Of(r) THEN d.live[p] = Payload(p, r.release)
    ELSE Was(b, r, d, p) /\ (p \in Gone(b, r) /\ p <= o => d.live[p] = 0)
Made(b, r, o, d) == d.manifest = Target(b, r) /\ \A p \in Paths : MadeAt(b, r, o, d, p)
Over(b, r, o) == {d \in Disks : Job(b, r, d.journal) /\ Made(b, r, o, d)}
Through(b, r, o) == {d \in Disks : d.journal = NoJournal /\ Made(b, r, o, d)}
Settled(b, r, o) == Back(b, r) \cup Halfway(b, r) \cup Over(b, r, o) \cup Through(b, r, o)

(* The journal of an install is one that is to be recovered.                *)
LEMMA JobIsPending == \A b, r, m : Given(b, r) /\ Job(b, r, m) => m # NoJournal
BY DEF Given, Installs, Job, NoJournal

(* Clearing takes the journal and the copies, and no file.                  *)
LEMMA ClearedIs ==
    ASSUME NEW d \in Disks, NEW u, u = Cleared(d)
    PROVE  u \in Disks /\ u.live = d.live /\ u.manifest = d.manifest /\ u.journal = NoJournal
<1>1. u = [d EXCEPT !.journal = NoJournal, !.copies = NoFiles]
  BY DEF Cleared
<1>2. NoFiles \in Contents
  BY DEF NoFiles, Absent, Contents
<1> QED
  BY <1>1, <1>2, StartIs DEF Disks

(* The install is not published before its manifest is.                     *)
LEMMA NotPublished ==
    ASSUME NEW b, NEW r, Given(b, r), NEW j, Undoable(b, r, j, b) \/ Job(b, r, j), j.state # "complete"
    PROVE  ~Published(b.manifest, j)
BY GivenIs DEF Published, Undoable, Job

(* Under the manifest an install was to make, its journal is done.          *)
LEMMA IsPublished ==
    ASSUME NEW b, NEW r, NEW j, Job(b, r, j)
    PROVE  Published(Target(b, r), j)
BY DEF Published, Job

(* However often recovery is tried, and fails, the root stays settled; one  *)
(* that nothing stops ends it.                                              *)
LEMMA RecoverSettles ==
    ASSUME NEW b, NEW r, Given(b, r), NEW o, NEW d \in Settled(b, r, o), NEW able, NEW dies \in BOOLEAN
    PROVE  /\ Recover(d, able, dies) \in Settled(b, r, o)
           /\ able = Paths /\ dies = FALSE => Recover(d, able, dies) \in Back(b, r) \cup Through(b, r, o)
<1>1. CASE d \in Back(b, r) \cup Through(b, r, o)
  <2>1. d.journal = NoJournal
    BY <1>1 DEF Back, Through
  <2>2. Recover(d, able, dies) = d
    BY <2>1 DEF Recover
  <2> QED
    BY <1>1, <2>2 DEF Settled
<1>2. CASE d \in Over(b, r, o)
  <2>1. d \in Disks /\ Job(b, r, d.journal) /\ Made(b, r, o, d) /\ d.manifest = Target(b, r)
    BY <1>2 DEF Over, Made
  <2>2. Recover(d, able, dies) = IF dies THEN d ELSE Cleared(d)
    BY <2>1, JobIsPending, IsPublished DEF Recover
  <2>3. Cleared(d) \in Through(b, r, o)
    BY <2>1, ClearedIs DEF Through, Made, MadeAt, Was
  <2> QED
    BY <1>2, <2>2, <2>3 DEF Settled
<1>3. CASE d \in Halfway(b, r)
  <2>1. d \in Disks /\ d.journal \in Journals /\ d.journal.state # "complete" /\ Undoable(b, r, d.journal, d)
    BY <1>3, JournalOf DEF Halfway
  <2>2. d.manifest = b.manifest /\ Job(b, r, d.journal)
    BY <2>1 DEF Undoable
  <2>3. PICK u : u = RollbackPaths(d, d.journal, able)
    OBVIOUS
  <2>4. Recover(d, able, dies) = IF Complete(d, d.journal, able) /\ ~dies THEN Cleared(u) ELSE u
    BY <2>1, <2>2, <2>3, JobIsPending, NotPublished DEF Recover
  <2>5. /\ u \in Disks /\ u.manifest = b.manifest /\ u.journal = d.journal /\ Undoable(b, r, d.journal, u)
        /\ Complete(d, d.journal, able) => \A p \in Paths : Was(b, r, u, p)
        /\ able = Paths => Complete(d, d.journal, able)
    BY <2>1, <2>3, RollbackUndoes
  <2>6. u \in Halfway(b, r)
    BY <2>1, <2>5 DEF Halfway
  <2>7. Complete(d, d.journal, able) => Cleared(u) \in Back(b, r)
    BY <2>5, ClearedIs DEF Back, Was
  <2> QED
    BY <2>4, <2>5, <2>6, <2>7 DEF Settled
<1> QED
  BY <1>1, <1>2, <1>3 DEF Settled

(* An install that fails before its manifest is published is undone.        *)
LEMMA AttemptUndoes ==
    ASSUME NEW b, NEW r, Given(b, r), NEW d \in Disks, Undoable(b, r, d.mem, d), d.mem.state # "complete"
    PROVE  AttemptRollback(d) \in Back(b, r)
<1>1. PICK d1 : d1 = [d EXCEPT !.journal = [d.mem EXCEPT !.state = "rollback"]]
  OBVIOUS
<1>2. d1 \in Disks /\ d1.live = d.live /\ d1.copies = d.copies /\ d1.manifest = d.manifest /\ d1.mem = d.mem
  <2>1. [d.mem EXCEPT !.state = "rollback"] \in Journals
    BY JournalOf DEF Journals
  <2> QED
    BY <1>1, <2>1 DEF Disks
<1>3. PICK u : u = RollbackPaths(d1, d.mem, Paths)
  OBVIOUS
<1>4. Job(b, r, d.mem) /\ d.manifest = b.manifest /\ d.mem \in Journals
  BY DEF Undoable, Job
<1>5. Undoable(b, r, d.mem, d1)
  BY <1>2 DEF Undoable, UndoableAt, Was
<1>6. u \in Disks /\ u.manifest = b.manifest
          /\ (Complete(d1, d.mem, Paths) => \A p \in Paths : Was(b, r, u, p))
      /\ Complete(d1, d.mem, Paths)
  BY <1>2, <1>3, <1>4, <1>5, RollbackUndoes
<1>7. Complete(d, d.mem, Paths)
  BY <1>4, RollbackUndoes
<1>8. AttemptRollback(d) = Cleared(u)
  BY <1>1, <1>3, <1>4, <1>7, NotPublished DEF AttemptRollback
<1> QED
  BY <1>6, <1>8, ClearedIs DEF Back, Was

-----------------------------------------------------------------------------
(* An install from its first journal to its manifest: the files up to k are *)
(* the new release's, the dropped ones up to o gone.                        *)
WrittenAt(b, r, k, o, d, p) ==
    IF p \in Of(r) THEN /\ d.live[p] = IF p <= k THEN Payload(p, r.release) ELSE b.live[p]
                        /\ b.live[p] # 0 => d.copies[p] = b.live[p]
    ELSE p \in Gone(b, r) /\ p <= o => d.live[p] = 0
Written(b, r, k, o) ==
    {d \in Disks : /\ d.journal = d.mem /\ d.mem.state \in {"committing", "orphaning", "publishing_manifest"}
                   /\ Undoable(b, r, d.mem, d) /\ \A p \in Paths : WrittenAt(b, r, k, o, d, p)}

(* Before an effect the disk is settled, and one that fails is undone.      *)
Unfailing == {"complete", "sweep", "clear", "flush", "unlink"}
Failed(d, e) == AttemptRollback([d EXCEPT !.mem = Remember(d.mem, e)])
Met(b, r, o) ==
    {x \in Disks \X Effects : /\ x[1] \in Settled(b, r, o)
                              /\ x[2].do \notin Unfailing => Failed(x[1], x[2]) \in Back(b, r)}

(* A disk on its way is one that can be undone, so it is settled.           *)
LEMMA WrittenIs ==
    ASSUME NEW b, NEW r, NEW k, NEW o, NEW d \in Written(b, r, k, o), NEW m
    PROVE  /\ d \in Disks /\ d.journal = d.mem /\ d.mem \in Journals
                  /\ d.mem.state \in {"committing", "orphaning", "publishing_manifest"}
           /\ d.manifest = b.manifest /\ Job(b, r, d.mem) /\ Undoable(b, r, d.mem, d)
           /\ \A p \in Paths : UndoableAt(b, r, d.mem, d, p) /\ WrittenAt(b, r, k, o, d, p)
           /\ d \in Settled(b, r, m)
<1>1. /\ d \in Disks /\ d.journal = d.mem /\ d.mem.state \in {"committing", "orphaning", "publishing_manifest"}
      /\ Undoable(b, r, d.mem, d) /\ \A p \in Paths : WrittenAt(b, r, k, o, d, p)
  BY DEF Written
<1>2. d.manifest = b.manifest /\ Job(b, r, d.mem) /\ \A p \in Paths : UndoableAt(b, r, d.mem, d, p)
  BY <1>1 DEF Undoable
<1>3. d \in Halfway(b, r)
  BY <1>1 DEF Halfway
<1> QED
  BY <1>1, <1>2, <1>3, JournalOf DEF Settled

(* An effect that fails on the way is undone, if the journal it leaves in   *)
(* memory is still that of the install.                                     *)
LEMMA MetFrom ==
    ASSUME NEW b, NEW r, Given(b, r), NEW k, NEW o, NEW d \in Written(b, r, k, o), NEW m, NEW e \in Effects,
           NEW mem \in Journals, mem = Remember(d.mem, e), SameJob(d.mem, mem), mem.state # "complete",
           d.mem.retained \subseteq mem.retained,
           \A p \in Paths : p \in mem.retained => p \in d.mem.retained
               \/ (b.live[p] = Payload(p, r.release) /\ d.live[p] = b.live[p])
    PROVE  <<d, e>> \in Met(b, r, m)
<1>1. PICK d1 : d1 = [d EXCEPT !.mem = mem]
  OBVIOUS
<1>2. d1 \in Disks /\ d1.mem = mem /\ d1.live = d.live /\ d1.copies = d.copies /\ d1.manifest = d.manifest
  BY <1>1, WrittenIs DEF Disks
<1>3. Job(b, r, mem)
  BY WrittenIs DEF SameJob, Job
<1>4. ASSUME NEW p \in Paths PROVE UndoableAt(b, r, mem, d1, p)
  <2>1. UndoableAt(b, r, d.mem, d, p)
    BY WrittenIs
  <2> QED
    BY <1>2, <2>1 DEF UndoableAt, Was, SameJob
<1>5. Undoable(b, r, d1.mem, d1)
  BY <1>2, <1>3, <1>4, WrittenIs DEF Undoable
<1>6. Failed(d, e) \in Back(b, r)
  BY <1>1, <1>2, <1>5, AttemptUndoes DEF Failed
<1>7. d \in Disks /\ d \in Settled(b, r, m)
  BY WrittenIs
<1> QED
  BY <1>6, <1>7 DEF Met

(* So is one that leaves the journal in memory as it was.                   *)
LEMMA MetPlain ==
    ASSUME NEW b, NEW r, Given(b, r), NEW k, NEW o, NEW d \in Written(b, r, k, o), NEW m, NEW e \in Effects,
           Remember(d.mem, e) = d.mem
    PROVE  <<d, e>> \in Met(b, r, m)
<1>1. PICK mem \in Journals : mem = d.mem /\ SameJob(d.mem, mem) /\ mem.state # "complete"
               /\ d.mem.retained \subseteq mem.retained
  BY WrittenIs DEF SameJob
<1> QED
  BY <1>1, MetFrom

(* One effect after the other.                                              *)
LEMMA RetainLeads ==
    ASSUME NEW b, NEW r, Given(b, r), NEW k \in Nat, NEW p \in Paths, p = k + 1, p \in Of(r),
           b.live[p] = Payload(p, r.release),
           NEW o, NEW d \in Written(b, r, k, o), NEW m, NEW e, e = Effect("retain", p)
    PROVE  Do(d, e) \in Written(b, r, p, o) /\ <<d, e>> \in Met(b, r, m) /\ e \in Effects
<1>1. PICK d1 : d1 = Do(d, e)
  OBVIOUS
<1>2. /\ e \in Effects /\ d1 \in Disks /\ d1.mem = Remember(d.mem, e) /\ d1.journal = d1.mem
      /\ d1.live = d.live /\ d1.manifest = d.manifest /\ d1.copies = d.copies
      /\ d1.mem \in Journals /\ SameJob(d.mem, d1.mem) /\ d1.mem.state = d.mem.state
      /\ d1.mem.retained = d.mem.retained \cup {p}
  BY <1>1, RetainDoes, WrittenIs
<1>3. ~(p <= k) /\ d.live[p] = b.live[p]
  <2>1. WrittenAt(b, r, k, o, d, p)
    BY WrittenIs
  <2> QED
    BY <2>1 DEF WrittenAt
<1>4. <<d, e>> \in Met(b, r, m)
  BY <1>2, <1>3, MetFrom, WrittenIs
<1>5. ASSUME NEW q \in Paths PROVE UndoableAt(b, r, d1.mem, d1, q) /\ WrittenAt(b, r, p, o, d1, q)
  <2>1. UndoableAt(b, r, d.mem, d, q) /\ WrittenAt(b, r, k, o, d, q)
    BY WrittenIs
  <2>2. UndoableAt(b, r, d1.mem, d1, q)
    BY <1>2, <1>3, <2>1 DEF UndoableAt, Was, SameJob
  <2>3. q <= p <=> q <= k \/ q = p
    BY DEF Paths
  <2> QED
    BY <1>2, <1>3, <2>1, <2>2, <2>3 DEF WrittenAt
<1>6. Job(b, r, d1.mem) /\ d1.manifest = b.manifest
  BY <1>2, WrittenIs DEF SameJob, Job
<1>7. Undoable(b, r, d1.mem, d1)
  BY <1>5, <1>6 DEF Undoable
<1>8. d1.mem.state \in {"committing", "orphaning", "publishing_manifest"}
  BY <1>2, WrittenIs
<1>9. d1 \in Written(b, r, p, o)
  BY <1>2, <1>5, <1>7, <1>8 DEF Written
<1> QED
  BY <1>1, <1>2, <1>4, <1>9

(* A replace makes the next file the new release's.                         *)
LEMMA ReplaceLeads ==
    ASSUME NEW b, NEW r, Given(b, r), NEW k \in Nat, NEW p \in Paths, p = k + 1, p \in Of(r),
           b.live[p] # Payload(p, r.release),
           NEW o, NEW d \in Written(b, r, k, o), NEW m, NEW e, e = Effect("replace", p)
    PROVE  Do(d, e) \in Written(b, r, p, o) /\ <<d, e>> \in Met(b, r, m) /\ e \in Effects
<1>0. d \in Disks /\ Job(b, r, d.mem) /\ d.mem.release = r.release /\ d.mem \in Journals
  BY WrittenIs DEF Job
<1>1. PICK d1 : d1 = Do(d, e)
  OBVIOUS
<1>2. /\ e \in Effects /\ d1 \in Disks /\ d.mem = Remember(d.mem, e) /\ d1.mem = d.mem /\ d1.journal = d.journal
      /\ Sets(d, d1, p, Payload(p, r.release)) /\ d1.manifest = d.manifest /\ d1.copies = d.copies
  BY <1>0, <1>1, FileDoes
<1>3. <<d, e>> \in Met(b, r, m)
  BY <1>2, MetPlain
<1>4. ASSUME NEW q \in Paths PROVE UndoableAt(b, r, d1.mem, d1, q) /\ WrittenAt(b, r, p, o, d1, q)
  <2>1. UndoableAt(b, r, d.mem, d, q) /\ WrittenAt(b, r, k, o, d, q)
    BY WrittenIs
  <2>2. q <= p <=> q <= k \/ q = p
    BY DEF Paths
  <2>3. d1.live[q] = IF q = p THEN Payload(p, r.release) ELSE d.live[q]
    BY <1>2 DEF Sets
  <2>4. UndoableAt(b, r, d1.mem, d1, p) /\ WrittenAt(b, r, p, o, d1, p)
    <3>1. UndoableAt(b, r, d.mem, d, p) /\ WrittenAt(b, r, k, o, d, p) /\ ~(p <= k) /\ p <= p
      BY WrittenIs DEF Paths
    <3>2. d1.live[p] = Payload(p, r.release)
      BY <1>2 DEF Sets
    <3>3. d.live[p] = b.live[p]
      BY <3>1 DEF WrittenAt
    <3> QED
      BY <1>2, <3>1, <3>2, <3>3 DEF UndoableAt, WrittenAt
  <2>5. CASE q # p
    BY <1>2, <2>1, <2>2, <2>3, <2>5 DEF UndoableAt, Was, WrittenAt
  <2> QED
    BY <2>4, <2>5
<1> QED
  BY <1>0, <1>1, <1>2, <1>3, <1>4, WrittenIs DEF Written, Undoable

(* A disk on its way stays so while its journal is that of the same install *)
(* and its files stand.                                                     *)
LEMMA SameWritten ==
    ASSUME NEW b, NEW r, NEW k, NEW o, NEW d \in Written(b, r, k, o), NEW d1 \in Disks, d1.journal = d1.mem,
           SameJob(d.mem, d1.mem),
           d1.mem.retained = d.mem.retained, d1.mem.state \in {"committing", "orphaning", "publishing_manifest"},
           d1.live = d.live, d1.manifest = d.manifest, d1.copies = d.copies
    PROVE  d1 \in Written(b, r, k, o)
<1>1. ASSUME NEW p \in Paths PROVE UndoableAt(b, r, d1.mem, d1, p) /\ WrittenAt(b, r, k, o, d1, p)
  <2>1. UndoableAt(b, r, d.mem, d, p) /\ WrittenAt(b, r, k, o, d, p)
    BY WrittenIs
  <2> QED
    BY <2>1 DEF UndoableAt, WrittenAt, Was, SameJob
<1>2. Job(b, r, d1.mem) /\ d1.manifest = b.manifest
  BY WrittenIs, JournalOf DEF SameJob, Job
<1> QED
  BY <1>1, <1>2 DEF Written, Undoable

(* To note a file as committed changes no file.                             *)
LEMMA CommittedLeads ==
    ASSUME NEW b, NEW r, Given(b, r), NEW k, NEW o, NEW d \in Written(b, r, k, o), NEW m, NEW p \in Paths,
           NEW e, e = Effect("committed", p)
    PROVE  Do(d, e) \in Written(b, r, k, o) /\ <<d, e>> \in Met(b, r, m) /\ e \in Effects
<1>1. PICK d1 : d1 = Do(d, e)
  OBVIOUS
<1>2. /\ e \in Effects /\ d1 \in Disks /\ d1.mem = Remember(d.mem, e) /\ d1.journal = d1.mem
      /\ d1.live = d.live /\ d1.manifest = d.manifest /\ d1.copies = d.copies
      /\ d1.mem \in Journals /\ SameJob(d.mem, d1.mem) /\ d1.mem.state = d.mem.state /\ d1.mem.retained = d.mem.retained
  BY <1>1, RetainDoes, WrittenIs
<1>3. d1 \in Written(b, r, k, o)
  BY <1>2, SameWritten, WrittenIs
<1>4. <<d, e>> \in Met(b, r, m)
  BY <1>2, MetFrom, WrittenIs
<1> QED
  BY <1>1, <1>2, <1>3, <1>4

(* Neither does a new state of the journal.                                 *)
LEMMA StateLeads ==
    ASSUME NEW b, NEW r, Given(b, r), NEW k, NEW o, NEW d \in Written(b, r, k, o), NEW m,
           NEW do \in {"orphaning", "publishing_manifest"}, NEW e, e = Effect(do, 0)
    PROVE  Do(d, e) \in Written(b, r, k, o) /\ <<d, e>> \in Met(b, r, m) /\ e \in Effects
<1>1. PICK d1 : d1 = Do(d, e)
  OBVIOUS
<1>2. /\ e \in Effects /\ d1 \in Disks /\ d1.mem = Remember(d.mem, e) /\ d1.journal = d1.mem
      /\ d1.live = d.live /\ d1.manifest = d.manifest /\ d1.copies = d.copies
      /\ d1.mem \in Journals /\ SameJob(d.mem, d1.mem) /\ d1.mem.retained = d.mem.retained /\ d1.mem.state = do
  BY <1>1, StateDoes, WrittenIs
<1>3. d1 \in Written(b, r, k, o)
  BY <1>2, SameWritten, WrittenIs
<1>4. <<d, e>> \in Met(b, r, m)
  BY <1>2, MetFrom, WrittenIs
<1> QED
  BY <1>1, <1>2, <1>3, <1>4

(* Nor a flush.                                                             *)
LEMMA FlushLeads ==
    ASSUME NEW b, NEW r, Given(b, r), NEW k, NEW o, NEW d \in Written(b, r, k, o), NEW m, NEW p \in Paths,
           NEW e, e = Effect("flush", p)
    PROVE  Do(d, e) \in Written(b, r, k, o) /\ <<d, e>> \in Met(b, r, m) /\ e \in Effects
<1>1. d \in Disks /\ d.journal = d.mem
  BY WrittenIs
<1>2. e \in Effects /\ Remember(d.mem, e) = d.mem /\ Do(d, e) = d
  <2>1. Do(d, e) = [d EXCEPT !.journal = d.mem] /\ e \in Effects /\ Remember(d.mem, e) = d.mem
    BY <1>1, FlushDoes
  <2> QED
    BY <1>1, <2>1 DEF Disks
<1> QED
  BY <1>2, MetPlain

(* A dropped file is unlinked; one that resists is left.                    *)
LEMMA UnlinkLeads ==
    ASSUME NEW b, NEW r, Given(b, r), NEW k, NEW o \in Nat, NEW p \in Gone(b, r), NEW d \in Written(b, r, k, o), NEW m,
           NEW e, e = Effect("unlink", p)
    PROVE  /\ Do(d, e) \in Written(b, r, k, o) /\ (p = o + 1 => Do(d, e) \in Written(b, r, k, p))
           /\ <<d, e>> \in Met(b, r, m) /\ e \in Effects
<1>0. d \in Disks /\ p \in Paths /\ p \notin Of(r)
  BY WrittenIs, GivenIs
<1>1. PICK d1 : d1 = Do(d, e)
  OBVIOUS
<1>2. /\ e \in Effects /\ d1 \in Disks /\ Remember(d.mem, e) = d.mem /\ d1.mem = d.mem /\ d1.journal = d.journal
      /\ Sets(d, d1, p, 0) /\ d1.manifest = d.manifest /\ d1.copies = d.copies
  BY <1>0, <1>1, FileDoes
<1>3. <<d, e>> \in Met(b, r, m)
  BY <1>2, MetPlain
<1>4. ASSUME NEW q \in Paths
      PROVE  UndoableAt(b, r, d1.mem, d1, q) /\ WrittenAt(b, r, k, o, d1, q) /\ (p = o + 1 => WrittenAt(b, r, k, p, d1, q))
  <2>1. UndoableAt(b, r, d.mem, d, q) /\ WrittenAt(b, r, k, o, d, q)
    BY WrittenIs
  <2>2. p = o + 1 => (q <= p <=> q <= o \/ q = p)
    BY <1>0 DEF Paths
  <2>3. d1.live[q] = IF q = p THEN 0 ELSE d.live[q]
    BY <1>2 DEF Sets
  <2> QED
    BY <1>0, <1>2, <2>1, <2>2, <2>3 DEF UndoableAt, WrittenAt, Was
<1> QED
  BY <1>0, <1>1, <1>2, <1>3, <1>4, WrittenIs DEF Written, Undoable

(* Of the dropped files, fewer may be demanded to be gone.                  *)
LEMMA WrittenLess ==
    ASSUME NEW b, NEW r, NEW k \in Nat, NEW o \in Nat, NEW o1 \in Nat, o1 <= o \/ (\A p \in Gone(b, r) : p <= o1 => p <= o)
    PROVE  Written(b, r, k, o) \subseteq Written(b, r, k, o1)
<1> SUFFICES ASSUME NEW d \in Written(b, r, k, o) PROVE d \in Written(b, r, k, o1)
  OBVIOUS
<1>1. ASSUME NEW p \in Paths PROVE WrittenAt(b, r, k, o1, d, p)
  <2>1. WrittenAt(b, r, k, o, d, p)
    BY WrittenIs
  <2>2. p <= o1 /\ p \in Gone(b, r) => p <= o
    BY DEF Paths
  <2> QED
    BY <2>1, <2>2 DEF WrittenAt
<1> QED
  BY <1>1 DEF Written

(* The manifest is published, and the journal brought to its end.           *)
Out(b, r, o) == {d \in Over(b, r, o) : Job(b, r, d.mem)}

(* Publishing takes the last file written to the new manifest.              *)
LEMMA PublishLeads ==
    ASSUME NEW b, NEW r, Given(b, r), NEW o, NEW d \in Written(b, r, 4, o), NEW m, NEW e, e = Effect("publish", 0)
    PROVE  Do(d, e) \in Out(b, r, o) /\ <<d, e>> \in Met(b, r, m) /\ e \in Effects
<1>1. PICK d1 : d1 = Do(d, e)
  OBVIOUS
<1>2. /\ e \in Effects /\ Remember(d.mem, e) = d.mem /\ d1 \in Disks
      /\ d1.live = d.live /\ d1.mem = d.mem /\ d1.manifest = d.mem.next /\ d1.journal = d.journal
  BY <1>1, OtherDoes, WrittenIs
<1>3. <<d, e>> \in Met(b, r, m)
  BY <1>2, MetPlain
<1>4. Job(b, r, d1.mem) /\ Job(b, r, d1.journal) /\ d1.manifest = Target(b, r)
  BY <1>2, WrittenIs DEF Job
<1>5. ASSUME NEW p \in Paths PROVE MadeAt(b, r, o, d1, p)
  <2>1. UndoableAt(b, r, d.mem, d, p) /\ WrittenAt(b, r, 4, o, d, p) /\ p <= 4
    BY WrittenIs DEF Paths
  <2> QED
    BY <1>2, <2>1 DEF UndoableAt, WrittenAt, MadeAt, Was
<1> QED
  BY <1>1, <1>2, <1>3, <1>4, <1>5 DEF Out, Over, Made

(* After it the journal is done with, and then gone.                        *)
LEMMA EndLeads ==
    ASSUME NEW b, NEW r, Given(b, r), NEW o, NEW d \in Out(b, r, o), NEW do \in {"complete", "sweep", "clear"},
           NEW e, e = Effect(do, 0)
    PROVE  /\ <<d, e>> \in Met(b, r, o) /\ e \in Effects
           /\ Do(d, e) \in IF do = "clear" THEN Through(b, r, o) ELSE Out(b, r, o)
<1>1. PICK d1 : d1 = Do(d, e)
  OBVIOUS
<1>2. d \in Disks /\ Job(b, r, d.journal) /\ Job(b, r, d.mem) /\ d.manifest = Target(b, r)
          /\ \A p \in Paths : MadeAt(b, r, o, d, p)
  BY DEF Out, Over, Made
<1>3. e \in Effects /\ e.do = do
  BY DEF Effect, Effects
<1>4. <<d, e>> \in Met(b, r, o)
  BY <1>2, <1>3 DEF Met, Unfailing, Settled, Out
<1>5. CASE do = "complete"
  <2>1. d1 \in Disks /\ d1.journal = d1.mem /\ d1.live = d.live /\ d1.manifest = d.manifest /\ d1.mem \in Journals
            /\ SameJob(d.mem, d1.mem)
    BY <1>1, <1>2, <1>5, StateDoes
  <2>2. Job(b, r, d1.mem) /\ \A p \in Paths : MadeAt(b, r, o, d1, p)
    BY <1>2, <2>1 DEF Job, SameJob, MadeAt, Was
  <2> QED
    BY <1>1, <1>2, <1>3, <1>4, <1>5, <2>1, <2>2 DEF Out, Over, Made
<1>6. CASE do \in {"sweep", "clear"}
  <2>1. d1 \in Disks /\ d1.live = d.live /\ d1.mem = d.mem /\ d1.manifest = d.manifest
        /\ d1.journal = IF do = "clear" THEN NoJournal ELSE d.journal
    BY <1>1, <1>2, <1>6, OtherDoes
  <2>2. Made(b, r, o, d1)
    BY <1>2, <2>1 DEF Made, MadeAt, Was
  <2>3. do = "clear" => d1 \in Through(b, r, o)
    BY <2>1, <2>2 DEF Through
  <2>4. do # "clear" => d1 \in Out(b, r, o)
    BY <1>2, <2>1, <2>2 DEF Out, Over
  <2> QED
    BY <1>1, <1>3, <1>4, <2>3, <2>4
<1> QED
  BY <1>5, <1>6

-----------------------------------------------------------------------------
(* An install before its first journal: what is there is copied, up to k.   *)
CopiedAt(b, r, k, d, p) ==
    /\ p \in d.mem.saved => p \in Of(r) /\ b.live[p] # 0 /\ d.mem.orig[p] = b.live[p] /\ d.copies[p] = b.live[p]
    /\ p \in Of(r) /\ b.live[p] # 0 /\ p <= k => p \in d.mem.saved
Copied(b, r, k) ==
    {d \in Disks : /\ d.journal = NoJournal /\ d.manifest = b.manifest /\ d.live = b.live /\ Job(b, r, d.mem)
                   /\ d.mem.retained = {} /\ \A p \in Paths : CopiedAt(b, r, k, d, p)}

Untouched(b) == {d \in Disks : d.journal = NoJournal /\ d.manifest = b.manifest /\ d.live = b.live}
Readied(b) == {x \in Disks \X Effects : x[1] \in Untouched(b) /\ Remember(x[1].mem, x[2]) \in Journals}

(* A copy saves the next file that is there.                                *)
LEMMA CopyLeads ==
    ASSUME NEW b, NEW r, Given(b, r), NEW k \in Nat, NEW p \in Paths, p = k + 1, p \in Of(r), b.live[p] # 0,
           NEW d \in Copied(b, r, k), NEW e, e = Effect("copy", p)
    PROVE  Do(d, e) \in Copied(b, r, p) /\ <<d, e>> \in Readied(b) /\ e \in Effects
<1>0. /\ d \in Disks /\ d.journal = NoJournal /\ d.manifest = b.manifest /\ d.live = b.live
             /\ Job(b, r, d.mem) /\ d.mem.retained = {}
      /\ d.mem \in Journals /\ d.copies \in Contents /\ d.mem.orig \in Contents
             /\ \A q \in Paths : CopiedAt(b, r, k, d, q)
  BY DEF Copied, Disks, Journals
<1>1. PICK d1 : d1 = Do(d, e)
  OBVIOUS
<1>2. /\ e \in Effects /\ Remember(d.mem, e) = d.mem /\ d1 \in Disks
      /\ d1.live = d.live /\ d1.manifest = d.manifest /\ d1.journal = d.journal
      /\ SavesCopy(d, d1, p)
  BY <1>0, <1>1, CopyDoes
<1>3. Job(b, r, d1.mem) /\ d1.mem.retained = {}
      /\ d1.mem.saved = d.mem.saved \cup {p} /\ d1.mem.orig = [d.mem.orig EXCEPT ![p] = b.live[p]]
  BY <1>0, <1>2, JournalOf DEF Job, Journals, SavesCopy
<1>4. ASSUME NEW q \in Paths PROVE CopiedAt(b, r, p, d1, q)
  <2>1. CopiedAt(b, r, k, d, q) /\ (q <= p <=> q <= k \/ q = p)
    BY <1>0 DEF Paths
  <2>2. d1.copies[q] = (IF q = p THEN b.live[p] ELSE d.copies[q])
            /\ d1.mem.orig[q] = (IF q = p THEN b.live[p] ELSE d.mem.orig[q])
    BY <1>0, <1>2, <1>3 DEF Contents, SavesCopy
  <2> QED
    BY <1>3, <2>1, <2>2 DEF CopiedAt
<1>5. <<d, e>> \in Readied(b)
  BY <1>0, <1>2 DEF Readied, Untouched
<1> QED
  BY <1>0, <1>1, <1>2, <1>3, <1>4, <1>5 DEF Copied

(* When all are copied, the first journal is written and the way begins.    *)
LEMMA CommittingLeads ==
    ASSUME NEW b, NEW r, Given(b, r), NEW d \in Copied(b, r, 4), NEW e, e = Effect("committing", 0)
    PROVE  Do(d, e) \in Written(b, r, 0, 0) /\ <<d, e>> \in Readied(b) /\ e \in Effects
<1>0. /\ d \in Disks /\ d.journal = NoJournal /\ d.manifest = b.manifest /\ d.live = b.live
             /\ Job(b, r, d.mem) /\ d.mem.retained = {}
      /\ \A q \in Paths : CopiedAt(b, r, 4, d, q)
  BY DEF Copied
<1>1. PICK d1 : d1 = Do(d, e)
  OBVIOUS
<1>2. /\ e \in Effects /\ d1 \in Disks /\ d1.mem = Remember(d.mem, e) /\ d1.journal = d1.mem
      /\ d1.live = d.live /\ d1.manifest = d.manifest /\ d1.copies = d.copies
      /\ d1.mem \in Journals /\ SameJob(d.mem, d1.mem) /\ d1.mem.retained = d.mem.retained /\ d1.mem.state = "committing"
  BY <1>0, <1>1, StateDoes
<1>3. Job(b, r, d1.mem)
  BY <1>0, <1>2 DEF Job, SameJob
<1>4. ASSUME NEW q \in Paths PROVE UndoableAt(b, r, d1.mem, d1, q) /\ WrittenAt(b, r, 0, 0, d1, q)
  <2>1. CopiedAt(b, r, 4, d, q) /\ q <= 4 /\ ~(q <= 0)
    BY <1>0 DEF Paths
  <2>2. q \in d1.mem.saved <=> q \in d.mem.saved
    BY <1>2 DEF SameJob
  <2>3. d1.mem.orig = d.mem.orig /\ d1.mem.retained = {} /\ d1.live = b.live
    BY <1>0, <1>2 DEF SameJob
  <2> QED
    BY <1>2, <2>1, <2>2, <2>3 DEF CopiedAt, UndoableAt, WrittenAt, Was
<1>5. <<d, e>> \in Readied(b)
  BY <1>0, <1>2 DEF Readied, Untouched
<1> QED
  BY <1>0, <1>1, <1>2, <1>3, <1>4, <1>5 DEF Written, Undoable

-----------------------------------------------------------------------------
(* The effects of an install, in two parts: before the first journal, and   *)
(* from then on.                                                            *)
CopyPart(b, r, p) == IF p \in Of(r) /\ b.live[p] # Absent THEN <<Effect("copy", p)>> ELSE <<>>
CommitPart(b, r, p) ==
    IF p \notin Of(r) THEN <<>>
    ELSE IF b.live[p] = Payload(p, r.release) THEN <<Effect("retain", p)>>
    ELSE <<Effect("replace", p), Effect("committed", p)>>
OrphanPart(b, r, p) == IF p \in Gone(b, r) THEN <<Effect("unlink", p), Effect("flush", p)>> ELSE <<>>

Copies(b, r) == CopyPart(b, r, 1) \o CopyPart(b, r, 2) \o CopyPart(b, r, 3) \o CopyPart(b, r, 4)
Commits(b, r) == CommitPart(b, r, 1) \o CommitPart(b, r, 2) \o CommitPart(b, r, 3) \o CommitPart(b, r, 4)
Drops(b, r) == OrphanPart(b, r, 1) \o OrphanPart(b, r, 2) \o OrphanPart(b, r, 3) \o OrphanPart(b, r, 4)
Orphaned(b, r) == IF Gone(b, r) = {} THEN <<>> ELSE <<Effect("orphaning", 0)>> \o Drops(b, r)

Opening(b, r) == <<Effect("stage", 0)>> \o Copies(b, r) \o <<Effect("committing", 0)>>
Rest(b, r) == Commits(b, r) \o Orphaned(b, r) \o Publishing

Unlinks == {e \in Effects : e.do = "unlink"}

(* Short sequences.                                                         *)
LEMMA PairIs == \A e, f : <<e, f>> = <<e>> \o <<f>>
<1> TAKE e, f
<1>1. <<e>> \in Seq({e, f}) /\ <<f>> \in Seq({e, f}) /\ <<e, f>> \in Seq({e, f}) /\ Len(<<e, f>>) = 2
      /\ Len(<<e>>) = 1 /\ Len(<<f>>) = 1 /\ <<e>>[1] = e /\ <<f>>[1] = f /\ <<e, f>>[1] = e /\ <<e, f>>[2] = f
  OBVIOUS
<1>2. PICK q : q = <<e>> \o <<f>>
  OBVIOUS
<1>3. q \in Seq({e, f}) /\ Len(q) = 2 /\ q[1] = e /\ q[2] = f
  BY <1>1, <1>2, ConcatProperties
<1>4. \A i \in 1 .. 2 : i = 1 \/ i = 2
  OBVIOUS
<1> QED
  BY <1>1, <1>2, <1>3, <1>4, SeqEqual

(* Short sequences of effects.                                              *)
LEMMA ShortLogs ==
    \A S : /\ <<>> \in Seq(S)
           /\ \A e \in S : <<e>> \in Seq(S) /\ \A f \in S : <<e>> \o <<f>> = <<e, f>> /\ <<e>> \o <<f>> \in Seq(S)
<1> TAKE S
<1>1. <<>> \in Seq(S)
  OBVIOUS
<1>2. ASSUME NEW e \in S PROVE <<e>> \in Seq(S)
  OBVIOUS
<1>3. ASSUME NEW e \in S, NEW f \in S PROVE <<e>> \o <<f>> = <<e, f>> /\ <<e>> \o <<f>> \in Seq(S)
  <2>1. <<e>> \o <<f>> = <<e, f>>
    BY PairIs
  <2>2. <<e, f>> \in Seq(S)
    OBVIOUS
  <2> QED
    BY <2>1, <2>2
<1> QED
  BY <1>1, <1>2, <1>3

(* The copying of one path, if there is something to copy.                  *)
LEMMA CopyPartLeads ==
    ASSUME NEW b, NEW r, Given(b, r), NEW k \in Nat, NEW p \in Paths, p = k + 1
    PROVE  CopyPart(b, r, p) \in Seq(Effects)
               /\ RunFold!Leads(Copied(b, r, k), CopyPart(b, r, p), Readied(b), Copied(b, r, p))
<1>1. CASE p \in Of(r) /\ b.live[p] # 0
  <2>1. PICK e : e = Effect("copy", p)
    OBVIOUS
  <2>2. CopyPart(b, r, p) = <<e>>
    BY <1>1, <2>1 DEF CopyPart, Absent
  <2>3. \A d \in Copied(b, r, k) : Do(d, e) \in Copied(b, r, p) /\ <<d, e>> \in Readied(b)
    BY <1>1, <2>1, CopyLeads
  <2>4. e \in Effects
    BY <2>1 DEF Effect, Effects, Paths
  <2>5. RunFold!Leads(Copied(b, r, k), <<e>>, Readied(b), Copied(b, r, p))
    BY <2>3, RunFold!LeadsOne
  <2> QED
    BY <2>2, <2>4, <2>5, ShortLogs
<1>2. CASE ~(p \in Of(r) /\ b.live[p] # 0)
  <2>1. CopyPart(b, r, p) = <<>>
    BY <1>2 DEF CopyPart, Absent
  <2>2. Copied(b, r, k) \subseteq Copied(b, r, p)
    <3> SUFFICES ASSUME NEW d \in Copied(b, r, k) PROVE d \in Copied(b, r, p)
      OBVIOUS
    <3>1. ASSUME NEW q \in Paths PROVE CopiedAt(b, r, p, d, q)
      <4>1. CopiedAt(b, r, k, d, q) /\ (q <= p <=> q <= k \/ q = p)
        BY DEF Copied, Paths
      <4> QED
        BY <1>2, <4>1 DEF CopiedAt
    <3> QED
      BY <3>1 DEF Copied
  <2>3. RunFold!Leads(Copied(b, r, k), <<>>, Readied(b), Copied(b, r, p))
    BY <2>2, RunFold!LeadsNone
  <2> QED
    BY <2>1, <2>3, ShortLogs
<1> QED
  BY <1>1, <1>2

(* The committing of one path: not the release's, retained, or replaced.    *)
LEMMA CommitPartLeads ==
    ASSUME NEW b, NEW r, Given(b, r), NEW k \in Nat, NEW p \in Paths, p = k + 1, NEW m
    PROVE  /\ CommitPart(b, r, p) \in Seq(Effects \ Unlinks)
           /\ RunFold!Leads(Written(b, r, k, 0), CommitPart(b, r, p), Met(b, r, m), Written(b, r, p, 0))
<1>1. CASE p \notin Of(r)
  <2>1. CommitPart(b, r, p) = <<>>
    BY <1>1 DEF CommitPart
  <2>2. Written(b, r, k, 0) \subseteq Written(b, r, p, 0)
    <3> SUFFICES ASSUME NEW d \in Written(b, r, k, 0) PROVE d \in Written(b, r, p, 0)
      OBVIOUS
    <3>1. ASSUME NEW q \in Paths PROVE WrittenAt(b, r, p, 0, d, q)
      <4>1. WrittenAt(b, r, k, 0, d, q) /\ (q <= p <=> q <= k \/ q = p)
        BY WrittenIs DEF Paths
      <4> QED
        BY <1>1, <4>1 DEF WrittenAt
    <3> QED
      BY <3>1 DEF Written
  <2>3. RunFold!Leads(Written(b, r, k, 0), <<>>, Met(b, r, m), Written(b, r, p, 0))
    BY <2>2, RunFold!LeadsNone
  <2> QED
    BY <2>1, <2>3, ShortLogs
<1>2. CASE p \in Of(r) /\ b.live[p] = Payload(p, r.release)
  <2>1. PICK e : e = Effect("retain", p)
    OBVIOUS
  <2>2. CommitPart(b, r, p) = <<e>>
    BY <1>2, <2>1 DEF CommitPart
  <2>3. \A d \in Written(b, r, k, 0) : Do(d, e) \in Written(b, r, p, 0) /\ <<d, e>> \in Met(b, r, m)
    BY <1>2, <2>1, RetainLeads
  <2>4. e \in Effects \ Unlinks
    BY <2>1 DEF Effect, Effects, Paths, Unlinks
  <2>5. RunFold!Leads(Written(b, r, k, 0), <<e>>, Met(b, r, m), Written(b, r, p, 0))
    BY <2>3, RunFold!LeadsOne
  <2> QED
    BY <2>2, <2>4, <2>5, ShortLogs
<1>3. CASE p \in Of(r) /\ b.live[p] # Payload(p, r.release)
  <2>1. PICK e, f : e = Effect("replace", p) /\ f = Effect("committed", p)
    OBVIOUS
  <2>2. CommitPart(b, r, p) = <<e, f>> /\ <<e, f>> = <<e>> \o <<f>>
    BY <1>3, <2>1 DEF CommitPart
  <2>3. \A d \in Written(b, r, k, 0) : Do(d, e) \in Written(b, r, p, 0) /\ <<d, e>> \in Met(b, r, m)
    BY <1>3, <2>1, ReplaceLeads
  <2>4. \A d \in Written(b, r, p, 0) : Do(d, f) \in Written(b, r, p, 0) /\ <<d, f>> \in Met(b, r, m)
    BY <2>1, CommittedLeads
  <2>5. e \in Effects \ Unlinks /\ f \in Effects \ Unlinks
    BY <2>1 DEF Effect, Effects, Paths, Unlinks
  <2>6. RunFold!Leads(Written(b, r, k, 0), <<e>>, Met(b, r, m), Written(b, r, p, 0))
    BY <2>3, RunFold!LeadsOne
  <2>7. RunFold!Leads(Written(b, r, p, 0), <<f>>, Met(b, r, m), Written(b, r, p, 0))
    BY <2>4, RunFold!LeadsOne
  <2>8. <<e>> \in Seq(Effects \ Unlinks) /\ <<f>> \in Seq(Effects \ Unlinks)
    BY <2>5
  <2>9. RunFold!Leads(Written(b, r, k, 0), <<e>> \o <<f>>, Met(b, r, m), Written(b, r, p, 0))
    BY <2>6, <2>7, <2>8, RunFold!LeadsOn
  <2>10. CommitPart(b, r, p) = <<e>> \o <<f>> /\ <<e>> \o <<f>> \in Seq(Effects \ Unlinks)
    BY <2>2, <2>5, ShortLogs
  <2> QED
    BY <2>9, <2>10
<1> QED
  BY <1>1, <1>2, <1>3

(* The dropping of one path, which may fail without harm: the file then     *)
(* stays.                                                                   *)
LEMMA OrphanPartLeads ==
    ASSUME NEW b, NEW r, Given(b, r), NEW o \in Nat, NEW p \in Paths, p = o + 1, NEW m
    PROVE  /\ OrphanPart(b, r, p) \in Seq(Effects)
           /\ RunFold!Leads(Written(b, r, 4, o), OrphanPart(b, r, p), Met(b, r, m), Written(b, r, 4, p))
           /\ RunFold!Leads(Written(b, r, 4, 0), OrphanPart(b, r, p), Met(b, r, m), Written(b, r, 4, 0))
           /\ RunFold!LeadsWithout(Written(b, r, 4, 0), OrphanPart(b, r, p), Unlinks, Written(b, r, 4, 0))
<1>1. CASE p \notin Gone(b, r)
  <2>1. OrphanPart(b, r, p) = <<>>
    BY <1>1 DEF OrphanPart
  <2>2. Written(b, r, 4, o) \subseteq Written(b, r, 4, p)
    <3>1. \A q \in Gone(b, r) : q <= p => q <= o
      BY <1>1, GivenIs DEF Paths
    <3> QED
      BY <3>1, WrittenLess DEF Paths
  <2>3. RunFold!Leads(Written(b, r, 4, o), <<>>, Met(b, r, m), Written(b, r, 4, p))
    BY <2>2, RunFold!LeadsNone
  <2>4. RunFold!Leads(Written(b, r, 4, 0), <<>>, Met(b, r, m), Written(b, r, 4, 0))
    BY RunFold!LeadsNone
  <2>5. <<>> \in Seq({}) /\ <<>> \in Seq(Effects)
    BY ShortLogs
  <2>6. RunFold!LeadsWithout(Written(b, r, 4, 0), <<>>, Unlinks, Written(b, r, 4, 0))
    BY <2>5, RunFold!WithoutAny
  <2> QED
    BY <2>1, <2>3, <2>4, <2>5, <2>6
<1>2. CASE p \in Gone(b, r)
  <2>1. PICK e, f : e = Effect("unlink", p) /\ f = Effect("flush", p)
    OBVIOUS
  <2>2. e \in Effects /\ f \in Effects /\ f \notin Unlinks
    BY <2>1 DEF Effect, Effects, Paths, Unlinks
  <2>3. OrphanPart(b, r, p) = <<e>> \o <<f>> /\ <<e>> \in Seq(Effects) /\ <<f>> \in Seq(Effects)
            /\ <<e>> \o <<f>> \in Seq(Effects)
    BY <1>2, <2>1, <2>2, ShortLogs DEF OrphanPart
  <2>4. \A d \in Written(b, r, 4, o) : Do(d, e) \in Written(b, r, 4, p) /\ <<d, e>> \in Met(b, r, m)
    BY <1>2, <2>1, UnlinkLeads
  <2>5. \A i : \A d \in Written(b, r, 4, i) : Do(d, f) \in Written(b, r, 4, i) /\ <<d, f>> \in Met(b, r, m)
    BY <2>1, FlushLeads
  <2>6. RunFold!Leads(Written(b, r, 4, o), <<e>>, Met(b, r, m), Written(b, r, 4, p))
    BY <2>4, RunFold!LeadsOne
  <2>7. RunFold!Leads(Written(b, r, 4, p), <<f>>, Met(b, r, m), Written(b, r, 4, p))
    BY <2>5, RunFold!LeadsOne
  <2>8. RunFold!Leads(Written(b, r, 4, o), <<e>> \o <<f>>, Met(b, r, m), Written(b, r, 4, p))
    BY <2>3, <2>6, <2>7, RunFold!LeadsOn
  <2>9. \A d \in Written(b, r, 4, 0) : Do(d, e) \in Written(b, r, 4, 0) /\ <<d, e>> \in Met(b, r, m)
    BY <1>2, <2>1, UnlinkLeads
  <2>10. RunFold!Leads(Written(b, r, 4, 0), <<e>>, Met(b, r, m), Written(b, r, 4, 0))
    BY <2>9, RunFold!LeadsOne
  <2>11. RunFold!Leads(Written(b, r, 4, 0), <<f>>, Met(b, r, m), Written(b, r, 4, 0))
    BY <2>5, RunFold!LeadsOne
  <2>12. RunFold!Leads(Written(b, r, 4, 0), <<e>> \o <<f>>, Met(b, r, m), Written(b, r, 4, 0))
    BY <2>3, <2>10, <2>11, RunFold!LeadsOn
  <2>13. RunFold!LeadsWithout(Written(b, r, 4, 0), <<e>>, Unlinks, Written(b, r, 4, 0))
    BY RunFold!WithoutOne
  <2>14. RunFold!LeadsWithout(Written(b, r, 4, 0), <<f>>, Unlinks, Written(b, r, 4, 0))
    BY RunFold!WithoutOne
  <2>15. RunFold!LeadsWithout(Written(b, r, 4, 0), <<e>> \o <<f>>, Unlinks, Written(b, r, 4, 0))
    BY <2>3, <2>10, <2>11, <2>13, <2>14, RunFold!LeadsOnWithout
  <2> QED
    BY <2>3, <2>8, <2>12, <2>15
<1> QED
  BY <1>1, <1>2

(* Before the first journal.                                                *)
LEMMA OpeningLeads ==
    ASSUME NEW b, NEW r, Given(b, r)
    PROVE  Opening(b, r) \in Seq(Effects) /\ RunFold!Leads(Copied(b, r, 0), Opening(b, r), Readied(b), Written(b, r, 0, 0))
<1>1. PICK e, f : e = Effect("stage", 0) /\ f = Effect("committing", 0)
  OBVIOUS
<1>2. e \in Effects /\ f \in Effects /\ <<e>> \in Seq(Effects) /\ <<f>> \in Seq(Effects)
  <2>1. e \in Effects /\ f \in Effects
    BY <1>1 DEF Effect, Effects
  <2> QED
    BY <2>1, ShortLogs
<1>3. RunFold!Leads(Copied(b, r, 0), <<e>>, Readied(b), Copied(b, r, 0))
  <2>1. ASSUME NEW d \in Copied(b, r, 0) PROVE Do(d, e) \in Copied(b, r, 0) /\ <<d, e>> \in Readied(b)
    <3>1. d \in Disks /\ d \in Untouched(b) /\ d.mem \in Journals
      BY JournalOf DEF Copied, Untouched
    <3>2. Remember(d.mem, e) = d.mem /\ Do(d, e) = d
      BY <1>1, <3>1, StageDoes
    <3> QED
      BY <1>2, <3>1, <3>2 DEF Readied
  <2> QED
    BY <2>1, RunFold!LeadsOne
<1>4. Copies(b, r) \in Seq(Effects) /\ RunFold!Leads(Copied(b, r, 0), Copies(b, r), Readied(b), Copied(b, r, 4))
  <2>1. 1 \in Paths /\ 2 \in Paths /\ 3 \in Paths /\ 4 \in Paths
        /\ 1 = 0 + 1 /\ 2 = 1 + 1 /\ 3 = 2 + 1 /\ 4 = 3 + 1
    BY DEF Paths
  <2>2. CopyPart(b, r, 1) \in Seq(Effects) /\ RunFold!Leads(Copied(b, r, 0), CopyPart(b, r, 1), Readied(b), Copied(b, r, 1))
    BY <2>1, CopyPartLeads
  <2>3. CopyPart(b, r, 2) \in Seq(Effects) /\ RunFold!Leads(Copied(b, r, 1), CopyPart(b, r, 2), Readied(b), Copied(b, r, 2))
    BY <2>1, CopyPartLeads
  <2>4. CopyPart(b, r, 3) \in Seq(Effects) /\ RunFold!Leads(Copied(b, r, 2), CopyPart(b, r, 3), Readied(b), Copied(b, r, 3))
    BY <2>1, CopyPartLeads
  <2>5. CopyPart(b, r, 4) \in Seq(Effects) /\ RunFold!Leads(Copied(b, r, 3), CopyPart(b, r, 4), Readied(b), Copied(b, r, 4))
    BY <2>1, CopyPartLeads
  <2> QED
    BY <2>2, <2>3, <2>4, <2>5, RunFold!LeadsFour DEF Copies
<1>5. RunFold!Leads(Copied(b, r, 4), <<f>>, Readied(b), Written(b, r, 0, 0))
  <2>1. \A d \in Copied(b, r, 4) : Do(d, f) \in Written(b, r, 0, 0) /\ <<d, f>> \in Readied(b)
    BY <1>1, CommittingLeads
  <2> QED
    BY <2>1, RunFold!LeadsOne
<1>6. PICK s : s = <<e>> \o Copies(b, r)
  OBVIOUS
<1>7. s \in Seq(Effects) /\ RunFold!Leads(Copied(b, r, 0), s, Readied(b), Copied(b, r, 4))
  BY <1>2, <1>3, <1>4, <1>6, ConcatProperties, RunFold!LeadsOn
<1>8. s \o <<f>> \in Seq(Effects) /\ RunFold!Leads(Copied(b, r, 0), s \o <<f>>, Readied(b), Written(b, r, 0, 0))
  BY <1>2, <1>5, <1>7, ConcatProperties, RunFold!LeadsOn
<1> QED
  BY <1>1, <1>6, <1>8 DEF Opening

IsFive(a, b, c, d, e) == <<a, b, c, d, e>> = <<a>> \o <<b>> \o <<c>> \o <<d>> \o <<e>>

(* Any five effects are that.                                               *)
LEMMA FiveAre == \A a, b, c, d, e : IsFive(a, b, c, d, e)
<1> TAKE a, b, c, d, e
<1>0. PICK S : a \in S /\ b \in S /\ c \in S /\ d \in S /\ e \in S
  <2>1. a \in {a, b, c, d, e} /\ b \in {a, b, c, d, e} /\ c \in {a, b, c, d, e} /\ d \in {a, b, c, d, e}
            /\ e \in {a, b, c, d, e}
    OBVIOUS
  <2> QED
    BY <2>1
<1>1. <<a, b>> \in Seq(S) /\ <<a, b, c>> \in Seq(S) /\ <<a, b, c, d>> \in Seq(S)
  BY <1>0
<1>2. <<a, b, c>> = Append(<<a, b>>, c) /\ <<a, b, c, d>> = Append(<<a, b, c>>, d)
          /\ <<a, b, c, d, e>> = Append(<<a, b, c, d>>, e)
  OBVIOUS
<1>3. <<a, b, c>> = <<a, b>> \o <<c>>
  BY <1>0, <1>1, <1>2, AppendIsConcat
<1>4. <<a, b, c, d>> = <<a, b, c>> \o <<d>>
  BY <1>0, <1>1, <1>2, AppendIsConcat
<1>5. <<a, b, c, d, e>> = <<a, b, c, d>> \o <<e>>
  BY <1>0, <1>1, <1>2, AppendIsConcat
<1> QED
  BY <1>3, <1>4, <1>5, PairIs DEF IsFive

(* From then on: o is 4, or 0 if one that is to be unlinked resists.        *)
LEMMA CommitsLead ==
    ASSUME NEW b, NEW r, Given(b, r), NEW m
    PROVE  Commits(b, r) \in Seq(Effects \ Unlinks)
               /\ RunFold!Leads(Written(b, r, 0, 0), Commits(b, r), Met(b, r, m), Written(b, r, 4, 0))
<1>1. 1 \in Paths /\ 2 \in Paths /\ 3 \in Paths /\ 4 \in Paths
      /\ 1 = 0 + 1 /\ 2 = 1 + 1 /\ 3 = 2 + 1 /\ 4 = 3 + 1
  BY DEF Paths
<1>2. CommitPart(b, r, 1) \in Seq(Effects \ Unlinks)
          /\ RunFold!Leads(Written(b, r, 0, 0), CommitPart(b, r, 1), Met(b, r, m), Written(b, r, 1, 0))
  BY <1>1, CommitPartLeads
<1>3. CommitPart(b, r, 2) \in Seq(Effects \ Unlinks)
          /\ RunFold!Leads(Written(b, r, 1, 0), CommitPart(b, r, 2), Met(b, r, m), Written(b, r, 2, 0))
  BY <1>1, CommitPartLeads
<1>4. CommitPart(b, r, 3) \in Seq(Effects \ Unlinks)
          /\ RunFold!Leads(Written(b, r, 2, 0), CommitPart(b, r, 3), Met(b, r, m), Written(b, r, 3, 0))
  BY <1>1, CommitPartLeads
<1>5. CommitPart(b, r, 4) \in Seq(Effects \ Unlinks)
          /\ RunFold!Leads(Written(b, r, 3, 0), CommitPart(b, r, 4), Met(b, r, m), Written(b, r, 4, 0))
  BY <1>1, CommitPartLeads
<1> QED
  BY <1>2, <1>3, <1>4, <1>5, RunFold!LeadsFour DEF Commits

(* The dropping of all four.                                                *)
LEMMA DropsLead ==
    ASSUME NEW b, NEW r, Given(b, r), NEW m
    PROVE  /\ Drops(b, r) \in Seq(Effects)
           /\ RunFold!Leads(Written(b, r, 4, 0), Drops(b, r), Met(b, r, m), Written(b, r, 4, 4))
           /\ RunFold!Leads(Written(b, r, 4, 0), Drops(b, r), Met(b, r, m), Written(b, r, 4, 0))
           /\ RunFold!LeadsWithout(Written(b, r, 4, 0), Drops(b, r), Unlinks, Written(b, r, 4, 0))
<1>1. 1 \in Paths /\ 2 \in Paths /\ 3 \in Paths /\ 4 \in Paths
      /\ 1 = 0 + 1 /\ 2 = 1 + 1 /\ 3 = 2 + 1 /\ 4 = 3 + 1
  BY DEF Paths
<1>2. PICK s1, s2, s3, s4 : s1 = OrphanPart(b, r, 1) /\ s2 = OrphanPart(b, r, 2) /\ s3 = OrphanPart(b, r, 3)
               /\ s4 = OrphanPart(b, r, 4)
  OBVIOUS
<1>3. s1 \in Seq(Effects) /\ RunFold!Leads(Written(b, r, 4, 0), s1, Met(b, r, m), Written(b, r, 4, 1))
  BY <1>1, <1>2, OrphanPartLeads
<1>4. s2 \in Seq(Effects) /\ RunFold!Leads(Written(b, r, 4, 1), s2, Met(b, r, m), Written(b, r, 4, 2))
  BY <1>1, <1>2, OrphanPartLeads
<1>5. s3 \in Seq(Effects) /\ RunFold!Leads(Written(b, r, 4, 2), s3, Met(b, r, m), Written(b, r, 4, 3))
  BY <1>1, <1>2, OrphanPartLeads
<1>6. s4 \in Seq(Effects) /\ RunFold!Leads(Written(b, r, 4, 3), s4, Met(b, r, m), Written(b, r, 4, 4))
  BY <1>1, <1>2, OrphanPartLeads
<1>7. s1 \o s2 \o s3 \o s4 \in Seq(Effects)
          /\ RunFold!Leads(Written(b, r, 4, 0), s1 \o s2 \o s3 \o s4, Met(b, r, m), Written(b, r, 4, 4))
  BY <1>3, <1>4, <1>5, <1>6, RunFold!LeadsFour
<1>8. \A s \in {s1, s2, s3, s4} : /\ RunFold!Leads(Written(b, r, 4, 0), s, Met(b, r, m), Written(b, r, 4, 0))
                                  /\ RunFold!LeadsWithout(Written(b, r, 4, 0), s, Unlinks, Written(b, r, 4, 0))
  BY <1>1, <1>2, OrphanPartLeads
<1>9. RunFold!Leads(Written(b, r, 4, 0), s1 \o s2 \o s3 \o s4, Met(b, r, m), Written(b, r, 4, 0))
  BY <1>3, <1>4, <1>5, <1>6, <1>8, RunFold!LeadsFour
<1>10. RunFold!LeadsWithout(Written(b, r, 4, 0), s1 \o s2 \o s3 \o s4, Unlinks, Written(b, r, 4, 0))
  BY <1>3, <1>4, <1>5, <1>6, <1>8, RunFold!LeadsFourWithout
<1> QED
  BY <1>2, <1>7, <1>9, <1>10 DEF Drops

(* The same with its journal, if anything is to be dropped.                 *)
LEMMA OrphanedLead ==
    ASSUME NEW b, NEW r, Given(b, r), NEW m
    PROVE  /\ Orphaned(b, r) \in Seq(Effects)
           /\ RunFold!Leads(Written(b, r, 4, 0), Orphaned(b, r), Met(b, r, m), Written(b, r, 4, 4))
           /\ RunFold!Leads(Written(b, r, 4, 0), Orphaned(b, r), Met(b, r, m), Written(b, r, 4, 0))
           /\ RunFold!LeadsWithout(Written(b, r, 4, 0), Orphaned(b, r), Unlinks, Written(b, r, 4, 0))
<1>1. CASE Gone(b, r) = {}
  <2>1. Orphaned(b, r) = <<>> /\ <<>> \in Seq(Effects) /\ <<>> \in Seq({})
    BY <1>1, ShortLogs DEF Orphaned
  <2>2. Written(b, r, 4, 0) \subseteq Written(b, r, 4, 4)
    BY <1>1, WrittenLess, 0 \in Nat, 4 \in Nat
  <2>3. RunFold!Leads(Written(b, r, 4, 0), <<>>, Met(b, r, m), Written(b, r, 4, 4))
    BY <2>2, RunFold!LeadsNone
  <2>4. RunFold!Leads(Written(b, r, 4, 0), <<>>, Met(b, r, m), Written(b, r, 4, 0))
    BY RunFold!LeadsNone
  <2>5. RunFold!LeadsWithout(Written(b, r, 4, 0), <<>>, Unlinks, Written(b, r, 4, 0))
    BY <2>1, RunFold!WithoutAny
  <2> QED
    BY <2>1, <2>3, <2>4, <2>5
<1>2. CASE Gone(b, r) # {}
  <2>1. PICK e : e = Effect("orphaning", 0)
    OBVIOUS
  <2>2. e \in Effects /\ e \notin Unlinks
    BY <2>1 DEF Effect, Effects, Unlinks
  <2>3. Orphaned(b, r) = <<e>> \o Drops(b, r) /\ <<e>> \in Seq(Effects) /\ Drops(b, r) \in Seq(Effects)
            /\ <<e>> \o Drops(b, r) \in Seq(Effects)
    BY <1>2, <2>1, <2>2, ShortLogs, DropsLead, ConcatProperties DEF Orphaned
  <2>4. \A d \in Written(b, r, 4, 0) : Do(d, e) \in Written(b, r, 4, 0) /\ <<d, e>> \in Met(b, r, m)
    BY <2>1, StateLeads
  <2>5. RunFold!Leads(Written(b, r, 4, 0), <<e>>, Met(b, r, m), Written(b, r, 4, 0))
    BY <2>4, RunFold!LeadsOne
  <2>6. RunFold!LeadsWithout(Written(b, r, 4, 0), <<e>>, Unlinks, Written(b, r, 4, 0))
    BY RunFold!WithoutOne
  <2>7. RunFold!Leads(Written(b, r, 4, 0), <<e>> \o Drops(b, r), Met(b, r, m), Written(b, r, 4, 4))
    BY <2>3, <2>5, DropsLead, RunFold!LeadsOn
  <2>8. RunFold!Leads(Written(b, r, 4, 0), <<e>> \o Drops(b, r), Met(b, r, m), Written(b, r, 4, 0))
    BY <2>3, <2>5, DropsLead, RunFold!LeadsOn
  <2>9. RunFold!LeadsWithout(Written(b, r, 4, 0), <<e>> \o Drops(b, r), Unlinks, Written(b, r, 4, 0))
    BY <2>3, <2>5, <2>6, DropsLead, RunFold!LeadsOnWithout
  <2> QED
    BY <2>3, <2>7, <2>8, <2>9
<1> QED
  BY <1>1, <1>2

(* The last five effects publish the manifest and clear the journal.        *)
LEMMA PublishingLeads ==
    ASSUME NEW b, NEW r, Given(b, r), NEW o
    PROVE  /\ Publishing \in Seq(Effects \ Unlinks)
           /\ RunFold!Leads(Written(b, r, 4, o), Publishing, Met(b, r, o), Through(b, r, o))
<1>1. PICK e1, e2, e3, e4, e5 : /\ e1 = Effect("publishing_manifest", 0) /\ e2 = Effect("publish", 0)
                                /\ e3 = Effect("complete", 0) /\ e4 = Effect("sweep", 0)
                                       /\ e5 = Effect("clear", 0)
  OBVIOUS
<1>2. PICK S : S = Effects \ Unlinks
  OBVIOUS
<1>3. e1 \in S /\ e2 \in S /\ e3 \in S /\ e4 \in S /\ e5 \in S
  BY <1>1, <1>2 DEF Effect, Effects, Unlinks
<1>4. Publishing = <<e1>> \o <<e2>> \o <<e3>> \o <<e4>> \o <<e5>>
  <2>1. <<e1, e2, e3, e4, e5>> = <<e1>> \o <<e2>> \o <<e3>> \o <<e4>> \o <<e5>>
    <3>1. IsFive(e1, e2, e3, e4, e5)
      BY FiveAre
    <3> QED
      BY <3>1 DEF IsFive
  <2> QED
    BY <1>1, <2>1 DEF Publishing
<1>5. <<e1>> \in Seq(S) /\ <<e2>> \in Seq(S) /\ <<e3>> \in Seq(S) /\ <<e4>> \in Seq(S) /\ <<e5>> \in Seq(S)
  BY <1>3, ShortLogs
<1>6. RunFold!Leads(Written(b, r, 4, o), <<e1>>, Met(b, r, o), Written(b, r, 4, o))
  <2>1. \A d \in Written(b, r, 4, o) : Do(d, e1) \in Written(b, r, 4, o) /\ <<d, e1>> \in Met(b, r, o)
    BY <1>1, StateLeads
  <2> QED
    BY <2>1, RunFold!LeadsOne
<1>7. RunFold!Leads(Written(b, r, 4, o), <<e2>>, Met(b, r, o), Out(b, r, o))
  <2>1. \A d \in Written(b, r, 4, o) : Do(d, e2) \in Out(b, r, o) /\ <<d, e2>> \in Met(b, r, o)
    BY <1>1, PublishLeads
  <2> QED
    BY <2>1, RunFold!LeadsOne
<1>8. RunFold!Leads(Out(b, r, o), <<e3>>, Met(b, r, o), Out(b, r, o))
  <2>1. \A d \in Out(b, r, o) : Do(d, e3) \in Out(b, r, o) /\ <<d, e3>> \in Met(b, r, o)
    BY <1>1, EndLeads
  <2> QED
    BY <2>1, RunFold!LeadsOne
<1>9. RunFold!Leads(Out(b, r, o), <<e4>>, Met(b, r, o), Out(b, r, o))
  <2>1. \A d \in Out(b, r, o) : Do(d, e4) \in Out(b, r, o) /\ <<d, e4>> \in Met(b, r, o)
    BY <1>1, EndLeads
  <2> QED
    BY <2>1, RunFold!LeadsOne
<1>10. RunFold!Leads(Out(b, r, o), <<e5>>, Met(b, r, o), Through(b, r, o))
  <2>1. \A d \in Out(b, r, o) : Do(d, e5) \in Through(b, r, o) /\ <<d, e5>> \in Met(b, r, o)
    BY <1>1, EndLeads
  <2> QED
    BY <2>1, RunFold!LeadsOne
<1>11. PICK s : s = <<e1>> \o <<e2>> \o <<e3>> \o <<e4>>
  OBVIOUS
<1>12. s \in Seq(S) /\ RunFold!Leads(Written(b, r, 4, o), s, Met(b, r, o), Out(b, r, o))
  BY <1>5, <1>6, <1>7, <1>8, <1>9, <1>11, RunFold!LeadsFour
<1>13. s \o <<e5>> \in Seq(S) /\ RunFold!Leads(Written(b, r, 4, o), s \o <<e5>>, Met(b, r, o), Through(b, r, o))
  BY <1>5, <1>10, <1>12, ConcatProperties, RunFold!LeadsOn
<1> QED
  BY <1>2, <1>4, <1>11, <1>13

(* From the first journal to the end.                                       *)
LEMMA RestLeads ==
    ASSUME NEW b, NEW r, Given(b, r)
    PROVE  /\ Rest(b, r) \in Seq(Effects)
           /\ RunFold!Leads(Written(b, r, 0, 0), Rest(b, r), Met(b, r, 4), Through(b, r, 4))
           /\ RunFold!LeadsWithout(Written(b, r, 0, 0), Rest(b, r), Unlinks, Through(b, r, 0))
<1>1. PICK s, t, u : s = Commits(b, r) /\ t = Orphaned(b, r) /\ u = Publishing
  OBVIOUS
<1>2. s \in Seq(Effects \ Unlinks) /\ t \in Seq(Effects) /\ u \in Seq(Effects \ Unlinks)
  BY <1>1, CommitsLead, OrphanedLead, PublishingLeads
<1>3. s \in Seq(Effects) /\ u \in Seq(Effects) /\ (Effects \ Unlinks) \cap Unlinks = {}
  BY <1>2
<1>4. s \o t \in Seq(Effects) /\ s \o t \o u \in Seq(Effects) /\ Rest(b, r) = s \o t \o u
  BY <1>1, <1>2, <1>3, ConcatProperties DEF Rest
<1>5. \A m : RunFold!Leads(Written(b, r, 0, 0), s, Met(b, r, m), Written(b, r, 4, 0))
  BY <1>1, CommitsLead
<1>6. \A m : /\ RunFold!Leads(Written(b, r, 4, 0), t, Met(b, r, m), Written(b, r, 4, 4))
             /\ RunFold!Leads(Written(b, r, 4, 0), t, Met(b, r, m), Written(b, r, 4, 0))
  BY <1>1, OrphanedLead
<1>7. \A o : RunFold!Leads(Written(b, r, 4, o), u, Met(b, r, o), Through(b, r, o))
  BY <1>1, PublishingLeads
<1>8. RunFold!Leads(Written(b, r, 0, 0), s \o t, Met(b, r, 4), Written(b, r, 4, 4))
  BY <1>2, <1>3, <1>5, <1>6, RunFold!LeadsOn
<1>9. RunFold!Leads(Written(b, r, 0, 0), s \o t \o u, Met(b, r, 4), Through(b, r, 4))
  BY <1>3, <1>4, <1>7, <1>8, RunFold!LeadsOn
<1>10. RunFold!LeadsWithout(Written(b, r, 0, 0), s, Unlinks, {})
  BY <1>2, <1>3, RunFold!WithoutAny
<1>11. RunFold!LeadsWithout(Written(b, r, 4, 0), t, Unlinks, Written(b, r, 4, 0))
  BY <1>1, OrphanedLead
<1>12. RunFold!Leads({}, t, Met(b, r, 0), Written(b, r, 4, 0))
  BY DEF RunFold!Leads
<1>13. RunFold!LeadsWithout(Written(b, r, 0, 0), s \o t, Unlinks, Written(b, r, 4, 0))
  BY <1>2, <1>3, <1>5, <1>10, <1>11, <1>12, RunFold!LeadsOnWithout
<1>14. RunFold!Leads(Written(b, r, 0, 0), s \o t, Met(b, r, 0), Written(b, r, 4, 0))
  BY <1>2, <1>3, <1>5, <1>6, RunFold!LeadsOn
<1>15. RunFold!LeadsWithout(Written(b, r, 4, 0), u, Unlinks, Through(b, r, 0))
  BY <1>2, <1>3, RunFold!WithoutAny
<1>16. RunFold!LeadsWithout(Written(b, r, 0, 0), s \o t \o u, Unlinks, Through(b, r, 0))
  BY <1>3, <1>4, <1>7, <1>13, <1>14, <1>15, RunFold!LeadsOnWithout
<1> QED
  BY <1>4, <1>9, <1>16

(* An install is what opens it and the rest.                                *)
LEMMA EffectsAre ==
    ASSUME NEW b, NEW r, Given(b, r)
    PROVE  InstallEffects(b, r.claim, r.release) = Opening(b, r) \o Rest(b, r)
<1>1. Copying(b, r.claim, r.release) = Copies(b, r)
  BY DEF Copying, InOrder, Copies, CopyPart, Of, Paths
<1>2. Committing(b, r.claim, r.release) = Commits(b, r)
  BY DEF Committing, InOrder, Commits, CommitPart, Of, Paths
<1>3. Orphaning(b, Target(b, r)) = Orphaned(b, r)
  BY DEF Orphaning, InOrder, Orphaned, Drops, OrphanPart, Gone, Paths
<1> QED
  BY <1>1, <1>2, <1>3 DEF InstallEffects, Opening, Rest, Target

(* A run of effects is a fold of Do over them.                              *)
LEMMA RunIsFold == \A d, s : Run(d, s) = RunFold!Fold(d, s)
BY DEF Run, RunFold!Fold, RunFold!Unfolds, FoldLeft, MapThenFoldSet, Max, RunFold!Max

(* An install begins with a journal that no disk holds.                     *)
LEMMA BegunIs ==
    ASSUME NEW b, NEW r, Given(b, r), NEW m,
           m = [NoJournal EXCEPT !.state = "staging", !.release = r.release, !.files = Of(r), !.next = Target(b, r)]
    PROVE  [b EXCEPT !.mem = m, !.copies = NoFiles] \in Copied(b, r, 0)
<1>1. b \in Disks /\ b.journal = NoJournal /\ r.release \in {0, 1, 2} /\ Of(r) \in SUBSET Paths
          /\ Target(b, r) \in Manifests
  BY GivenIs DEF Given, Installs
<1>2. m = [state |-> "staging", release |-> r.release, next |-> Target(b, r), files |-> Of(r), saved |-> {},
           orig |-> NoFiles, committed |-> {}, retained |-> {}]
  BY DEF NoJournal
<1>3. NoFiles \in Contents
  BY DEF NoFiles, Absent, Contents
<1>4. PICK x : x = [state |-> "staging", release |-> r.release, next |-> Target(b, r), files |-> Of(r), saved |-> {},
           orig |-> NoFiles, committed |-> {}, retained |-> {}]
  OBVIOUS
<1>5. x \in Journals /\ Job(b, r, x) /\ x.retained = {} /\ x.saved = {}
  <2>1. x \in Journals
    BY ONLY <1>1, <1>3, <1>4 DEF Journals
  <2> QED
    BY ONLY <2>1, <1>4 DEF Job
<1>6. m = x
  BY <1>2, <1>4
<1>7. PICK d : d = [b EXCEPT !.mem = x, !.copies = NoFiles]
  OBVIOUS
<1>8. d \in Disks /\ d.mem = x /\ d.live = b.live /\ d.manifest = b.manifest /\ d.journal = NoJournal
  BY ONLY <1>1, <1>3, <1>5, <1>7 DEF Disks
<1>9. \A p \in Paths : CopiedAt(b, r, 0, d, p)
  BY <1>5, <1>8 DEF CopiedAt, Paths
<1>10. d \in Copied(b, r, 0)
  BY ONLY <1>5, <1>8, <1>9 DEF Copied
<1> QED
  BY <1>7, <1>10, <1>6

(* What a rollback makes of any disk: a user's file is never removed.       *)
Keeps(d, u) == u \in Disks /\ \A p \in Paths : d.live[p] = 9 => u.live[p] # 0

(* The way back of a failed effect removes no user's file either.           *)
LEMMA AttemptKeeps ==
    ASSUME NEW d \in Disks
    PROVE  Keeps(d, AttemptRollback(d))
<1>1. PICK d1 : d1 = [d EXCEPT !.journal = [d.mem EXCEPT !.state = "rollback"]]
  OBVIOUS
<1>2. d1 \in Disks /\ d1.live = d.live
  <2>1. [d.mem EXCEPT !.state = "rollback"] \in Journals
    BY JournalOf DEF Journals
  <2> QED
    BY <1>1, <2>1 DEF Disks
<1>3. PICK u : u = RollbackPaths(d1, d.mem, Paths)
  OBVIOUS
<1>4. u \in Disks /\ \A p \in Paths : d.live[p] = 9 => u.live[p] # 0
  BY <1>2, <1>3, JournalOf, RollbackIs, UndonePath
<1>5. Keeps(d, u) /\ Keeps(d, d)
  BY <1>4 DEF Keeps
<1>6. Keeps(d, Cleared(u))
  BY <1>4, ClearedIs DEF Keeps
<1>7. AttemptRollback(d) \in {d, u, Cleared(u)}
  BY <1>1, <1>3 DEF AttemptRollback
<1> QED
  BY <1>5, <1>6, <1>7

(* A settled disk has every user's file that was there before the install.  *)
LEMMA SettledKeeps ==
    ASSUME NEW b, NEW r, Given(b, r), NEW o, NEW d \in Settled(b, r, o)
    PROVE  Keeps(b, d)
<1>1. b.live \in Contents /\ \A p \in Paths : b.live[p] = 9 => p \notin Gone(b, r)
  BY GivenIs
<1>2. \A p \in Paths : p \in Of(r) => Payload(p, r.release) # 0
  BY GivenIs
<1>3. d \in Disks
  BY DEF Settled, Back, Halfway, Over, Through
<1>4. CASE d \in Back(b, r)
  BY <1>1, <1>3, <1>4 DEF Back, Keeps, Was
<1>5. CASE d \in Over(b, r, o) \cup Through(b, r, o)
  BY <1>1, <1>2, <1>3, <1>5 DEF Over, Through, Made, MadeAt, Keeps, Was
<1>6. CASE d \in Halfway(b, r)
  BY <1>1, <1>2, <1>3, <1>6 DEF Halfway, Undoable, UndoableAt, Keeps, Was
<1> QED
  BY <1>4, <1>5, <1>6 DEF Settled

(* The last effect of the first part writes the first journal.              *)
LEMMA OpeningEnds ==
    ASSUME NEW b, NEW r, Given(b, r), NEW s, s = Opening(b, r)
    PROVE  s \in Seq(Effects \ Unlinks) /\ Len(s) \in Nat \ {0} /\ s[Len(s)].do = "committing"
<1>1. PICK x, e : x = <<Effect("stage", 0)>> \o Copies(b, r) /\ e = Effect("committing", 0)
  OBVIOUS
<1>2. e \in Effects \ Unlinks /\ e.do = "committing" /\ Effect("stage", 0) \in Effects \ Unlinks
  BY <1>1 DEF Effect, Effects, Unlinks
<1>3. ASSUME NEW p \in Paths PROVE CopyPart(b, r, p) \in Seq(Effects \ Unlinks)
  <2>1. Effect("copy", p) \in Effects \ Unlinks
    BY DEF Effect, Effects, Unlinks, Paths
  <2> QED
    BY <2>1, ShortLogs DEF CopyPart
<1>4. /\ CopyPart(b, r, 1) \in Seq(Effects \ Unlinks) /\ CopyPart(b, r, 2) \in Seq(Effects \ Unlinks)
      /\ CopyPart(b, r, 3) \in Seq(Effects \ Unlinks) /\ CopyPart(b, r, 4) \in Seq(Effects \ Unlinks)
  BY <1>3 DEF Paths
<1>5. Copies(b, r) \in Seq(Effects \ Unlinks)
  BY <1>4, ConcatProperties DEF Copies
<1>6. x \in Seq(Effects \ Unlinks)
  BY <1>1, <1>2, <1>5, ShortLogs, ConcatProperties
<1>7. s = x \o <<e>>
  BY <1>1 DEF Opening
<1>8. Len(s) = Len(x) + 1 /\ s[Len(x) + 1] = e /\ s \in Seq(Effects \ Unlinks) /\ Len(x) \in Nat
  BY <1>2, <1>6, <1>7
<1> QED
  BY <1>2, <1>8

(* How a sequence of effects stops: what the failing of the next one makes  *)
(* of it is f.                                                              *)
Stops(d, q, k, how, u, f) ==
    LET m == RunFold!Fold(d, SubSeq(q, 1, k)) IN
    /\ how = "done" => u = RunFold!Fold(d, q)
    /\ how = "died" => u = m
    /\ how = "failed" => u = IF q[k + 1].do = "unlink" THEN RunFold!Fold(m, SubSeq(q, k + 2, Len(q))) ELSE f

(* An install has a way back from a failure; an uninstall has none.         *)
LEMMA StoppedIs ==
    ASSUME NEW d, NEW q, NEW k, NEW how, k # Len(q), NEW m, m = RunFold!Fold(d, SubSeq(q, 1, k))
    PROVE  /\ Stops(d, q, k, how, Stopped(d, q, k, how, TRUE), Failed(m, q[k + 1]))
           /\ Stops(d, q, k, how, Stopped(d, q, k, how, FALSE), m)
<1>1. PICK x, y, f : /\ x = Run(d, q) /\ y = Run(m, SubSeq(q, k + 2, Len(q)))
                     /\ f = AttemptRollback([m EXCEPT !.mem = Remember(m.mem, q[k + 1])])
  OBVIOUS
<1>2. m = Run(d, SubSeq(q, 1, k))
  BY RunIsFold
<1>3. Stopped(d, q, k, how, TRUE) =
         IF how = "done" \/ k = Len(q) THEN x ELSE IF how = "died" THEN m ELSE IF q[k + 1].do = "unlink" THEN y
         ELSE IF TRUE THEN f ELSE m
  BY <1>1, <1>2, Zenon DEF Stopped
<1>4. Stopped(d, q, k, how, FALSE) =
         IF how = "done" \/ k = Len(q) THEN x ELSE IF how = "died" THEN m ELSE IF q[k + 1].do = "unlink" THEN y
         ELSE IF FALSE THEN f ELSE m
  BY <1>1, <1>2, Zenon DEF Stopped
<1>5. x = RunFold!Fold(d, q) /\ y = RunFold!Fold(m, SubSeq(q, k + 2, Len(q))) /\ f = Failed(m, q[k + 1])
  BY <1>1, RunIsFold DEF Failed
<1>6. PICK w : w = Stopped(d, q, k, how, TRUE)
  OBVIOUS
<1>7. PICK z : z = Stopped(d, q, k, how, FALSE)
  OBVIOUS
<1>8. Stops(d, q, k, how, w, f)
  BY <1>3, <1>5, <1>6 DEF Stops
<1>9. Stops(d, q, k, how, z, m)
  BY <1>4, <1>5, <1>7 DEF Stops
<1> QED
  BY <1>5, <1>6, <1>7, <1>8, <1>9

(* An install that goes to its end makes what it is to make; one that dies  *)
(* anywhere, or fails after its first journal, leaves the root settled.     *)
LEMMA InstallIs ==
    ASSUME NEW b, NEW r, Given(b, r), NEW q, q = InstallEffects(b, r.claim, r.release), r.stop \in 0 .. Len(q) - 1,
           r.how = "failed" => Fallible(q, r.stop), NEW u, u = Install(b, r)
    PROVE  /\ u \in Disks /\ Keeps(b, u)
           /\ r.how = "done" => u \in Through(b, r, 4)
           /\ r.how = "died" => u \in Settled(b, r, 4)
           /\ r.how = "failed" /\ ~Staging(b, r) => u \in Settled(b, r, 0)
<1>1. PICK b1 : b1 = [b EXCEPT !.mem = [NoJournal EXCEPT !.state = "staging", !.release = r.release,
               !.files = Of(r), !.next = Target(b, r)],
                               !.copies = NoFiles]
  OBVIOUS
<1>2. b1 \in Copied(b, r, 0)
  BY <1>1, BegunIs
<1>3. PICK s, t : s = Opening(b, r) /\ t = Rest(b, r)
  OBVIOUS
<1>4. /\ s \in Seq(Effects) /\ t \in Seq(Effects) /\ q = s \o t
      /\ RunFold!Leads(Copied(b, r, 0), s, Readied(b), Written(b, r, 0, 0))
      /\ RunFold!Leads(Written(b, r, 0, 0), t, Met(b, r, 4), Through(b, r, 4))
      /\ RunFold!LeadsWithout(Written(b, r, 0, 0), t, Unlinks, Through(b, r, 0))
  BY <1>3, OpeningLeads, RestLeads, EffectsAre
<1>5. PICK k, how, d, e : k = r.stop /\ how = r.how /\ d = RunFold!Fold(b1, SubSeq(q, 1, k)) /\ e = q[k + 1]
  OBVIOUS
<1>6. /\ q \in Seq(Effects) /\ Len(q) = Len(s) + Len(t) /\ RunFold!Fold(b1, q) \in Through(b, r, 4)
      /\ \A i \in 0 .. Len(q) - 1 :
            /\ i < Len(s) => <<RunFold!Fold(b1, SubSeq(q, 1, i)), q[i + 1]>> \in Readied(b) /\ q[i + 1] = s[i + 1]
            /\ i >= Len(s) => /\ <<RunFold!Fold(b1, SubSeq(q, 1, i)), q[i + 1]>> \in Met(b, r, 4)
                              /\ q[i + 1] \in Unlinks =>
                                    RunFold!Fold(RunFold!Fold(b1, SubSeq(q, 1, i)),
                                        SubSeq(q, i + 2, Len(q))) \in Through(b, r, 0)
  <2>1. PICK P, I, Q, J, R, W : /\ P = Copied(b, r, 0) /\ I = Readied(b) /\ Q = Written(b, r, 0, 0) /\ J = Met(b, r, 4)
                                /\ R = Through(b, r, 4) /\ W = Through(b, r, 0)
    OBVIOUS
  <2>2. /\ s \in Seq(Effects) /\ t \in Seq(Effects) /\ q = s \o t /\ b1 \in P
        /\ RunFold!Leads(P, s, I, Q) /\ RunFold!Leads(Q, t, J, R) /\ RunFold!LeadsWithout(Q, t, Unlinks, W)
    BY <1>2, <1>4, <2>1
  <2>3. /\ s \o t \in Seq(Effects) /\ Len(s \o t) = Len(s) + Len(t) /\ RunFold!Fold(b1, s \o t) \in R
        /\ RunFold!InHead(b1, s \o t, s, I) /\ RunFold!InTail(b1, s \o t, s, J, Unlinks, W)
    BY ONLY <2>2, RunFold!LeadsThrough
  <2> QED
    BY <2>1, <2>2, <2>3 DEF RunFold!InHead, RunFold!InTail
<1>7. k \in 0 .. Len(q) - 1 /\ Len(q) \in Nat /\ Len(s) \in Nat /\ e \in Effects /\ k # Len(q)
  BY <1>4, <1>5, <1>6
<1>8. how \in {"done", "died", "failed"} /\ Given(b, r) /\ b \in Disks /\ b.journal = NoJournal
  BY <1>5 DEF Given, Installs
<1>9. u = Stopped(b1, q, k, how, TRUE)
  BY <1>1, <1>5 DEF Install, Of, Target
<1>10. /\ how = "done" => u = RunFold!Fold(b1, q)
       /\ how = "died" => u = d
       /\ how = "failed" /\ e.do = "unlink" => u = RunFold!Fold(d, SubSeq(q, k + 2, Len(q)))
       /\ how = "failed" /\ e.do # "unlink" => u = Failed(d, e)
  <2>1. Stops(b1, q, k, how, u, Failed(d, e))
    BY <1>5, <1>7, <1>9, StoppedIs
  <2> QED
    BY <1>5, <2>1 DEF Stops
<1>11. CASE how = "done"
  <2>1. u = RunFold!Fold(b1, q)
    BY <1>11, <1>10
  <2>2. u \in Through(b, r, 4)
    BY <1>6, <2>1
  <2>3. u \in Disks /\ Keeps(b, u)
    BY <2>2, SettledKeeps DEF Settled, Keeps
  <2> QED
    BY <1>5, <1>11, <2>2, <2>3
<1>12. <<d, e>> \in Readied(b) => d \in Untouched(b) /\ d \in Disks /\ Remember(d.mem, e) \in Journals
  BY DEF Readied
<1>13. <<d, e>> \in Met(b, r, 4) => d \in Disks /\ d \in Settled(b, r, 4)
           /\ (e.do \notin Unfailing => Failed(d, e) \in Back(b, r))
  BY DEF Met
<1>14. k < Len(s) => d \in Untouched(b) /\ d \in Disks /\ Remember(d.mem, e) \in Journals /\ e = s[k + 1]
  BY <1>5, <1>6, <1>7, <1>12
<1>15. k >= Len(s) => /\ d \in Settled(b, r, 4) /\ (e.do \notin Unfailing => Failed(d, e) \in Back(b, r))
                      /\ e \in Unlinks => RunFold!Fold(d, SubSeq(q, k + 2, Len(q))) \in Through(b, r, 0)
  BY <1>5, <1>6, <1>7, <1>13
<1>16. d \in Untouched(b) => d \in Back(b, r)
  BY DEF Untouched, Back, Was
<1>17. CASE how = "died"
  <2>1. u = d
    BY <1>17, <1>10
  <2>2. u \in Settled(b, r, 4)
    BY <1>7, <1>14, <1>15, <1>16, <2>1 DEF Settled
  <2>3. Keeps(b, u)
    BY <1>8, <2>2, SettledKeeps
  <2>4. u \in Disks
    BY <2>3 DEF Keeps
  <2> QED
    BY <1>5, <1>17, <2>2, <2>3, <2>4
<1>18. CASE how = "failed" /\ k < Len(s)
  <2>1. Staging(b, r)
    <3>1. Len(s) \in Nat \ {0} /\ s[Len(s)].do = "committing"
      BY <1>3, OpeningEnds
    <3>2. PICK i \in Nat : i = Len(s)
      BY <3>1
    <3>3. i \in (k + 1) .. Len(q) /\ i - 1 \in 0 .. Len(q) - 1 /\ i - 1 < Len(s) /\ (i - 1) + 1 = i
      BY <1>6, <1>7, <1>18, <3>1, <3>2
    <3>4. q[i] = s[i]
      BY <1>6, <3>3
    <3> QED
      BY <1>5, <1>18, <3>1, <3>2, <3>3, <3>4 DEF Staging
  <2>2. e.do # "unlink"
    <3>1. s \in Seq(Effects \ Unlinks) /\ k + 1 \in 1 .. Len(s)
      BY <1>3, <1>7, <1>18, OpeningEnds
    <3> QED
      BY <1>14, <1>18, <3>1 DEF Unlinks
  <2>3. PICK d1 : d1 = [d EXCEPT !.mem = Remember(d.mem, e)]
    OBVIOUS
  <2>4. d1 \in Disks /\ d1.live = b.live
    BY <1>14, <1>18, <2>3 DEF Disks, Untouched
  <2>5. u = AttemptRollback(d1)
    BY <1>10, <1>18, <2>2, <2>3 DEF Failed
  <2> QED
    BY <1>5, <1>18, <2>1, <2>4, <2>5, AttemptKeeps DEF Keeps
<1>19. CASE how = "failed" /\ k >= Len(s)
  <2>1. ASSUME e \in Unlinks PROVE u \in Settled(b, r, 0)
    <3>1. e.do = "unlink"
      BY <2>1 DEF Unlinks
    <3> QED
      BY <1>15, <1>10, <1>19, <2>1, <3>1 DEF Settled
  <2>2. ASSUME e \notin Unlinks PROVE u \in Settled(b, r, 0)
    <3>1. e.do # "unlink" /\ e.do \notin Unfailing
      BY <1>5, <1>7, <1>19, <2>2 DEF Unlinks, Unfailing, Fallible
    <3> QED
      BY <1>15, <1>10, <1>19, <3>1 DEF Settled
  <2>3. u \in Settled(b, r, 0)
    BY <2>1, <2>2
  <2>4. u \in Disks /\ Keeps(b, u)
    BY <1>8, <2>3, SettledKeeps DEF Keeps
  <2> QED
    BY <1>5, <1>19, <2>3, <2>4
<1> QED
  BY <1>7, <1>8, <1>11, <1>17, <1>18, <1>19

-----------------------------------------------------------------------------
(* Recovery of any root, and the undoing of a group's install.              *)
LEMMA RecoverKeeps ==
    ASSUME NEW d \in Disks, NEW able, NEW dies \in BOOLEAN
    PROVE  Keeps(d, Recover(d, able, dies))
<1>1. PICK u : u = RollbackPaths(d, d.journal, able)
  OBVIOUS
<1>2. u \in Disks /\ \A p \in Paths : d.live[p] = 9 => u.live[p] # 0
  BY <1>1, JournalOf, RollbackIs, UndonePath
<1>3. Keeps(d, u) /\ Keeps(d, d)
  BY <1>2 DEF Keeps
<1>4. Keeps(d, Cleared(u)) /\ Keeps(d, Cleared(d))
  BY <1>2, ClearedIs DEF Keeps
<1>5. Recover(d, able, dies) \in {d, u, Cleared(u), Cleared(d)}
  BY <1>1 DEF Recover
<1> QED
  BY <1>3, <1>4, <1>5

(* What is put back, whatever it finds; after an install, everything.       *)
LEMMA RestoreIs ==
    ASSUME NEW b \in Disks, NEW d \in Disks, NEW r, NEW u, u = RestoreCheckpoint(d, b, r)
    PROVE  /\ u \in Disks /\ u.manifest = b.manifest /\ u.journal = d.journal
           /\ Given(b, r) /\ d \in Through(b, r, 4) => \A p \in Paths : u.live[p] = b.live[p]
<1> DEFINE allowed(p) == {b.live[p], Absent} \cup (IF p \in Of(r) THEN {Payload(p, r.release)} ELSE {})
           paths == Of(r) \cup {p \in Paths : b.manifest.owners[p] # {}}
           refused == {p \in paths : b.live[p] # Absent /\ d.live[p] \notin allowed(p)}
           restored == {p \in paths : \A q \in refused : p < q}
           live == [p \in Paths |-> IF p \in restored THEN b.live[p] ELSE d.live[p]]
<1>1. live = [p \in Paths |-> IF p \in restored THEN b.live[p] ELSE d.live[p]]
  OBVIOUS
<1>2. u = [d EXCEPT !.manifest = b.manifest, !.live = live]
  BY Zenon DEF RestoreCheckpoint, Of
<1>3. Given(b, r) /\ d \in Through(b, r, 4) => \A p \in Paths : p \in restored \/ d.live[p] = b.live[p]
  <2>1. SUFFICES ASSUME Given(b, r), d \in Through(b, r, 4) PROVE \A p \in Paths : p \in restored
                        \/ d.live[p] = b.live[p]
    OBVIOUS
  <2>2. \A p \in Paths : MadeAt(b, r, 4, d, p)
    BY <2>1 DEF Through, Made
  <2>3. Of(r) \subseteq Paths /\ \A p \in Gone(b, r) : b.manifest.owners[p] # {}
    BY <2>1, GivenIs
  <2>4. refused = {}
    BY <2>2, <2>3 DEF MadeAt, Was, Absent
  <2> QED
    BY <2>2, <2>3, <2>4 DEF MadeAt, Was
<1> HIDE DEF live, restored, refused, paths, allowed
<1>4. live \in Contents
  BY <1>1, JournalOf DEF Contents
<1>5. u \in Disks /\ u.manifest = b.manifest /\ u.journal = d.journal /\ u.live = live
  BY ONLY b \in Disks, d \in Disks, <1>2, <1>4 DEF Disks
<1> QED
  BY <1>1, <1>3, <1>5

-----------------------------------------------------------------------------
(* A root on which nobody's file is anybody's: what a file holds is what    *)
(* the manifest says, or what a user wrote.                                 *)
Fits(m, p, v) == v \in {0, 9} \/ (m.owners[p] # {} /\ v = m.sha[p])
Proper(d) == \A p \in Paths : Fits(d.manifest, p, d.live[p])

(* Under the journal of an install that is not published, what is to be put *)
(* back is.                                                                 *)
FitsAt(d, j, p) ==
    /\ p \notin j.files \/ p \in j.retained => Fits(d.manifest, p, d.live[p])
    /\ p \in j.files /\ p \notin j.retained /\ p \in j.saved => Fits(d.manifest, p, d.copies[p])
           /\ Fits(d.manifest, p, j.orig[p])
Right(d) ==
    IF d.journal = NoJournal \/ Published(d.manifest, d.journal) THEN Proper(d)
    ELSE \A p \in Paths : FitsAt(d, d.journal, p)

(* Recovery keeps it.                                                       *)
LEMMA RecoverRight ==
    ASSUME NEW d \in Disks, Right(d), NEW able, NEW dies \in BOOLEAN
    PROVE  Right(Recover(d, able, dies))
<1>1. PICK u : u = RollbackPaths(d, d.journal, able)
  OBVIOUS
<1>2. PICK j \in Journals : j = d.journal
  BY JournalOf
<1>3. /\ u \in Disks /\ u.manifest = d.manifest /\ u.journal = d.journal
      /\ \A p \in Paths : u.live[p] = Undone(d, j, able, p).live
             /\ u.copies[p] = Undone(d, j, able, p).copy
  BY <1>1, <1>2, RollbackIs
<1>4. PICK x : x = Cleared(u)
  OBVIOUS
<1>5. PICK y : y = Cleared(d)
  OBVIOUS
<1>6. x.live = u.live /\ x.manifest = u.manifest /\ x.journal = NoJournal
  BY <1>3, <1>4, ClearedIs
<1>7. y.live = d.live /\ y.manifest = d.manifest /\ y.journal = NoJournal
  BY <1>5, ClearedIs
<1>8. Recover(d, able, dies) = IF j = NoJournal THEN d
                                       ELSE IF Published(d.manifest, j) THEN IF dies THEN d ELSE y
                                       ELSE IF Complete(d, j, able) /\ ~dies THEN x ELSE u
  BY <1>1, <1>2, <1>4, <1>5 DEF Recover
<1>9. CASE j = NoJournal
  BY <1>8, <1>9
<1>10. CASE j # NoJournal /\ Published(d.manifest, j)
  <2>1. Proper(d)
    BY <1>2, <1>10 DEF Right
  <2>2. Right(y)
    BY <2>1, <1>7 DEF Right, Proper
  <2> QED
    BY <1>8, <1>10, <2>2
<1>11. CASE j # NoJournal /\ ~Published(d.manifest, j)
  <2>1. \A p \in Paths : FitsAt(d, j, p)
    BY <1>2, <1>11 DEF Right
  <2>2. ASSUME NEW p \in Paths
        PROVE  /\ FitsAt(u, j, p)
               /\ p \in j.files /\ p \in Reached(j, able) /\ Undone(d, j, able, p).undone
                      => Fits(d.manifest, p, u.live[p])
    <3>1. PICK w : w = Undone(d, j, able, p)
      OBVIOUS
    <3>2. u.live[p] = w.live /\ u.copies[p] = w.copy /\ u.manifest = d.manifest /\ FitsAt(d, j, p)
      BY <1>3, <2>1, <3>1
    <3>3. CASE p \notin Reached(j, able) \/ p \in j.retained
      <4>1. w.live = d.live[p] /\ w.copy = d.copies[p]
        BY <3>1, <3>3, UndonePath
      <4> QED
        BY <3>2, <3>3, <4>1 DEF FitsAt, Fits
    <3>4. CASE p \in Reached(j, able) /\ p \notin j.retained /\ p \in j.saved
      <4>1. IF d.copies[p] # 0 THEN w.live = d.copies[p] /\ w.copy = 0 /\ w.undone
            ELSE w.live = d.live[p] /\ w.copy = d.copies[p] /\ (w.undone <=> d.live[p] = j.orig[p])
        BY <3>1, <3>4, UndonePath
      <4>2. p \in j.files
        BY <3>4 DEF Reached
      <4> QED
        BY <3>1, <3>2, <3>4, <4>1, <4>2 DEF FitsAt, Fits
    <3>5. CASE p \in Reached(j, able) /\ p \notin j.retained /\ p \notin j.saved
      <4>1. IF d.live[p] \in {0, Payload(p, j.release)} THEN w.live = 0 /\ w.undone
            ELSE w.live = d.live[p] /\ ~w.undone
        BY <3>1, <3>5, UndonePath
      <4>2. p \in j.files
        BY <3>5 DEF Reached
      <4> QED
        BY <3>1, <3>2, <3>5, <4>1, <4>2 DEF FitsAt, Fits
    <3> QED
      BY <3>3, <3>4, <3>5
  <2>3. Right(u)
    BY <1>2, <1>3, <1>11, <2>2 DEF Right
  <2>4. Complete(d, j, able) => Right(x)
    <3>1. Complete(d, j, able) => \A p \in j.files : p \in Reached(j, able)
              /\ Undone(d, j, able, p).undone
      BY DEF Complete
    <3>2. Complete(d, j, able) => \A p \in Paths : Fits(d.manifest, p, u.live[p])
      BY <1>3, <2>2, <3>1 DEF FitsAt
    <3> QED
      BY <1>3, <1>6, <3>2 DEF Right, Proper
  <2> QED
    BY <1>8, <1>11, <2>3, <2>4
<1> QED
  BY <1>9, <1>10, <1>11

(* What the manifest of an install says of a file.                          *)
LEMMA TargetIs ==
    ASSUME NEW b, NEW r, Given(b, r), NEW p \in Paths, NEW t, t = Target(b, r)
    PROVE  /\ p \in Of(r) => t.owners[p] # {} /\ t.sha[p] = Payload(p, r.release)
           /\ p \notin Of(r) => t.owners[p] = b.manifest.owners[p] \ {r.claim} /\ t.sha[p] = b.manifest.sha[p]
           /\ p \in Gone(b, r) <=> b.manifest.owners[p] # {} /\ t.owners[p] = {} /\ b.live[p] = b.manifest.sha[p]
<1>1. PICK owners, sha, release :
          /\ owners = [q \in Paths |-> (b.manifest.owners[q] \ {r.claim}) \cup (IF q \in Of(r) THEN {r.claim} ELSE {})]
          /\ sha = [q \in Paths |-> IF q \in Of(r) THEN Payload(q, r.release) ELSE b.manifest.sha[q]]
          /\ release = [b.manifest.release EXCEPT ![r.claim] = r.release]
  OBVIOUS
<1>2. t = [gen |-> b.manifest.gen + 1, release |-> release, owners |-> owners, sha |-> sha]
  BY <1>1 DEF Target, NextManifest, Of
<1>3. t.owners = owners /\ t.sha = sha
  BY ONLY <1>2
<1>4. owners[p] = (b.manifest.owners[p] \ {r.claim}) \cup (IF p \in Of(r) THEN {r.claim} ELSE {})
  BY <1>1
<1>5. sha[p] = IF p \in Of(r) THEN Payload(p, r.release) ELSE b.manifest.sha[p]
  BY <1>1
<1>6. p \in Gone(b, r) <=> b.manifest.owners[p] # {} /\ t.owners[p] = {} /\ b.live[p] = b.manifest.sha[p]
  BY DEF Gone, Orphans
<1> QED
  BY <1>3, <1>4, <1>5, <1>6

(* An install that does not fail keeps it.                                  *)
LEMMA InstallRight ==
    ASSUME NEW b, NEW r, Given(b, r), Proper(b), NEW d \in Settled(b, r, 4)
    PROVE  Right(d)
<1>1. \A p \in Paths : Fits(b.manifest, p, b.live[p])
  BY DEF Proper
<1>2. CASE d \in Back(b, r)
  <2>1. d.manifest = b.manifest /\ d.journal = NoJournal /\ \A p \in Paths : Was(b, r, d, p)
    BY <1>2 DEF Back
  <2>2. Proper(d)
    BY <1>1, <2>1 DEF Proper, Was, Fits
  <2> QED
    BY <2>1, <2>2 DEF Right
<1>3. CASE d \in Halfway(b, r)
  <2>1. /\ d.manifest = b.manifest /\ Job(b, r, d.journal) /\ d.journal.state # "complete" /\ d.journal.files = Of(r)
        /\ \A p \in Paths : UndoableAt(b, r, d.journal, d, p)
    BY <1>3 DEF Halfway, Undoable, Job
  <2>2. d.journal # NoJournal /\ ~Published(d.manifest, d.journal)
    BY <2>1, JobIsPending, NotPublished
  <2>3. ASSUME NEW p \in Paths PROVE FitsAt(d, d.journal, p)
    <3>1. UndoableAt(b, r, d.journal, d, p) /\ Fits(b.manifest, p, b.live[p]) /\ Fits(b.manifest, p, 0)
      BY <1>1, <2>1 DEF Fits
    <3>2. p \notin Of(r) => Fits(b.manifest, p, d.live[p])
      BY <3>1 DEF UndoableAt, Was
    <3>3. p \in Of(r) /\ p \in d.journal.retained => d.live[p] = b.live[p]
      BY <3>1 DEF UndoableAt
    <3>4. p \in Of(r) /\ p \notin d.journal.retained /\ p \in d.journal.saved => d.journal.orig[p] = b.live[p]
              /\ d.copies[p] \in {b.live[p], 0}
      BY <3>1 DEF UndoableAt
    <3>5. p \notin Of(r) \/ p \in d.journal.retained => Fits(b.manifest, p, d.live[p])
      BY <3>1, <3>2, <3>3
    <3> QED
      BY <2>1, <3>1, <3>4, <3>5 DEF FitsAt
  <2> QED
    BY <2>2, <2>3 DEF Right
<1>4. CASE d \in Over(b, r, 4) \cup Through(b, r, 4)
  <2>1. d.manifest = Target(b, r) /\ \A p \in Paths : MadeAt(b, r, 4, d, p)
    BY <1>4 DEF Over, Through, Made
  <2>2. d.journal = NoJournal \/ Published(d.manifest, d.journal)
    BY <1>4, <2>1, IsPublished DEF Over, Through
  <2>3. ASSUME NEW p \in Paths PROVE Fits(d.manifest, p, d.live[p])
    <3>1. p <= 4
      BY DEF Paths
    <3>2. MadeAt(b, r, 4, d, p) /\ Fits(b.manifest, p, b.live[p])
      BY <1>1, <2>1
    <3>3. CASE p \in Of(r)
      BY <2>1, <3>2, <3>3, TargetIs DEF MadeAt, Fits
    <3>4. CASE p \notin Of(r)
      <4>1. d.live[p] \in {0, b.live[p]} /\ (p \in Gone(b, r) => d.live[p] = 0)
        BY <3>1, <3>2, <3>4 DEF MadeAt, Was
      <4>2. PICK t : t = d.manifest
        OBVIOUS
      <4>3. t.sha[p] = b.manifest.sha[p]
                /\ (p \notin Gone(b, r) /\ b.manifest.owners[p] # {} /\ b.live[p] = b.manifest.sha[p] => t.owners[p] # {})
        BY <2>1, <3>4, <4>2, TargetIs
      <4> QED
        BY <3>2, <4>1, <4>2, <4>3 DEF Fits
    <3> QED
      BY <3>3, <3>4
  <2> QED
    BY <2>2, <2>3 DEF Right, Proper
<1> QED
  BY <1>2, <1>3, <1>4 DEF Settled

(* After a completed install, verify accepts the root if every other claim  *)
(* has only files of this one.                                              *)
LEMMA InstallVerifies ==
    ASSUME NEW b, NEW r, Given(b, r), NEW d \in Through(b, r, 4),
           \A c \in Claims : d.manifest.release[c] # 0 => Files(c, r.release) \subseteq Of(r)
    PROVE  Verify(d, r.release)
<1>1. /\ d.journal = NoJournal /\ d.manifest = Target(b, r) /\ Target(b, r) \in Manifests /\ Sane(Target(b, r))
      /\ \A p \in Of(r) : d.live[p] = Payload(p, r.release)
      /\ r.claim \in Claims /\ r.release \in {1, 2} /\ Sane(b.manifest)
             /\ b.manifest.release \in [Claims -> {0, 1, 2}]
  BY GivenIs DEF Through, Made, MadeAt, Given, Disks, Manifests, Installs
<1>2. \A c \in Claims : d.manifest.release[c] = IF c = r.claim THEN r.release ELSE b.manifest.release[c]
  <2>1. PICK x : x = [b.manifest.release EXCEPT ![r.claim] = r.release]
    OBVIOUS
  <2>2. d.manifest.release = x
    BY <1>1, <2>1 DEF Target, NextManifest
  <2> QED
    BY <1>1, <2>1, <2>2
<1>3. d.manifest # NoManifest
  <2>1. NoManifest.release[r.claim] = 0
    BY <1>1 DEF NoManifest
  <2>2. d.manifest.release[r.claim] # 0
    BY <1>1, <1>2
  <2> QED
    BY <2>1, <2>2
<1>4. ASSUME NEW c \in Claims, d.manifest.release[c] # 0
      PROVE  d.manifest.release[c] = r.release
  <2>1. CASE c = r.claim
    BY <1>2, <2>1
  <2>2. CASE c # r.claim
    <3>1. Files(c, r.release) \subseteq Of(r) /\ c \in {"one", "two"} /\ r.claim \in {"one", "two"}
      BY <1>1, <1>4 DEF Claims
    <3>2. c = "two" /\ 2 \in Of(r)
      <4>1. r.claim = "two" => Of(r) = {2} /\ c = "one"
        BY <2>2, <3>1 DEF Of, Files
      <4>2. 4 \in Files("one", r.release) /\ 2 \in Files("two", r.release)
        BY DEF Files
      <4> QED
        BY <2>2, <3>1, <4>1, <4>2
    <3>3. b.manifest.release["two"] \in {1, 2} /\ 2 \in Paths
      BY <1>1, <1>2, <1>4, <2>2, <3>2 DEF Paths
    <3>4. 2 \in Files("two", b.manifest.release["two"])
      BY DEF Files
    <3>5. "two" \in b.manifest.owners[2] /\ b.manifest.sha[2] = Payload(2, b.manifest.release["two"])
      BY <1>1, <3>2, <3>3, <3>4 DEF Sane
    <3>6. b.manifest.sha[2] = Payload(2, r.release)
      BY <2>2, <3>2, <3>5 DEF Given, Conflicts, Of
    <3> QED
      BY <1>2, <2>2, <3>2, <3>5, <3>6 DEF Payload
  <2> QED
    BY <2>1, <2>2
<1>5. ASSUME NEW c \in Claims, d.manifest.release[c] # 0
      PROVE  /\ Claimed(d.manifest, c) = Files(c, r.release)
             /\ \A p \in Files(c, r.release) : Payload(p, r.release) = d.manifest.sha[p]
                    /\ d.live[p] = d.manifest.sha[p]
  <2>1. d.manifest.release[c] = r.release
    BY <1>4, <1>5
  <2>2. \A p \in Paths : /\ c \in d.manifest.owners[p] <=> p \in Files(c, r.release)
                         /\ c \in d.manifest.owners[p] => d.manifest.sha[p] = Payload(p, r.release)
    BY <1>1, <1>5, <2>1 DEF Sane
  <2>3. Files(c, r.release) \subseteq Paths /\ Files(c, r.release) \subseteq Of(r)
    BY <1>5, FilesArePaths
  <2>4. Claimed(d.manifest, c) = Files(c, r.release)
    BY <2>2, <2>3 DEF Claimed
  <2> QED
    BY <1>1, <2>2, <2>3, <2>4
<1> QED
  BY <1>1, <1>3, <1>4, <1>5 DEF Verify

-----------------------------------------------------------------------------
(* An uninstall: the files up to k that were the claim's alone are gone, in *)
(* the end also from the manifest.                                          *)
LessAt(b, c, k, d, p) ==
    /\ d.live[p] = b.live[p] \/ (p \in SoleOwned(b, c) /\ d.live[p] = 0)
    /\ p \in SoleOwned(b, c) /\ p <= k => d.live[p] = 0
Less(b, c, k, d) == d \in Disks /\ d.journal = NoJournal /\ \A p \in Paths : LessAt(b, c, k, d, p)
Lessened(b, c, k) == {d \in Disks : Less(b, c, k, d) /\ d.manifest = b.manifest
    /\ d.mem.next = WithoutClaim(b.manifest, c)}
Left(b, c, k) == {d \in Disks : Less(b, c, k, d) /\ d.manifest = WithoutClaim(b.manifest, c)}
InLessened(b, c) == {x \in Disks \X Effects : x[1] \in Lessened(b, c, 0)}

UninstallPart(b, c, p) == IF p \in SoleOwned(b, c) THEN <<Effect("unlink", p)>> ELSE <<>>
Removals(b, c) == UninstallPart(b, c, 1) \o UninstallPart(b, c, 2) \o UninstallPart(b, c, 3) \o UninstallPart(b, c, 4)

(* The manifest without a claim.                                            *)
LEMMA WithoutIs ==
    ASSUME NEW m \in Manifests, NEW c \in Claims, NEW w, w = WithoutClaim(m, c)
    PROVE  /\ w \in Manifests
           /\ \A p \in Paths : (m.owners[p] \ {c} # {} => w.owners[p] # {} /\ w.sha[p] = m.sha[p])
<1>1. /\ m.gen \in Nat /\ m.release \in [Claims -> {0, 1, 2}]
             /\ m.owners \in [Paths -> SUBSET Claims]
      /\ m.sha \in [Paths -> {0, 1, 2}] /\ Sane(m)
      /\ m = [gen |-> m.gen, release |-> m.release, owners |-> m.owners, sha |-> m.sha]
  BY DEF Manifests
<1>2. PICK owners, release : /\ owners = [p \in Paths |-> m.owners[p] \ {c}]
                             /\ release = [m.release EXCEPT ![c] = 0]
  OBVIOUS
<1>3. PICK x : x = [gen |-> m.gen + 1, release |-> release, owners |-> owners, sha |-> m.sha]
  OBVIOUS
<1>4. w = IF \A p \in Paths : x.owners[p] = {} THEN NoManifest ELSE x
  <2>1. x = [m EXCEPT !.gen = @ + 1, !.release = [@ EXCEPT ![c] = 0], !.owners = [p \in Paths |-> m.owners[p] \ {c}]]
    <3>1. x = [m EXCEPT !.gen = @ + 1, !.release = release, !.owners = owners]
      <4>1. PICK g, o, y, z : m = [gen |-> g, release |-> y, owners |-> o, sha |-> z]
        BY ONLY <1>1
      <4>2. PICK m1 : m1 = [m EXCEPT !.gen = @ + 1]
        OBVIOUS
      <4>3. PICK m2 : m2 = [m1 EXCEPT !.release = release]
        OBVIOUS
      <4>4. PICK m3 : m3 = [m2 EXCEPT !.owners = owners]
        OBVIOUS
      <4>5. m1 = [gen |-> g + 1, release |-> y, owners |-> o, sha |-> z]
        BY ONLY <4>1, <4>2
      <4>6. m2 = [gen |-> g + 1, release |-> release, owners |-> o, sha |-> z]
        BY ONLY <4>3, <4>5
      <4>7. m3 = [gen |-> g + 1, release |-> release, owners |-> owners, sha |-> z]
        BY ONLY <4>4, <4>6
      <4>8. m.gen = g /\ m.sha = z
        BY ONLY <4>1
      <4>9. x = m3
        BY ONLY <1>3, <4>7, <4>8
      <4> QED
        BY ONLY <4>2, <4>3, <4>4, <4>9, Zenon
    <3>2. [m EXCEPT !.gen = @ + 1, !.release = release, !.owners = owners]
              = [m EXCEPT !.gen = @ + 1, !.release = [@ EXCEPT ![c] = 0],
                  !.owners = [p \in Paths |-> m.owners[p] \ {c}]]
      BY <1>2, Zenon
    <3> QED
      BY <3>1, <3>2, Zenon
  <2> QED
    BY <2>1, Zenon DEF WithoutClaim
<1>5. release \in [Claims -> {0, 1, 2}] /\ owners \in [Paths -> SUBSET Claims]
  BY <1>1, <1>2
<1>6. x.owners = owners /\ x.release = release /\ x.sha = m.sha
  BY ONLY <1>3
<1>7. Sane(x)
  <2>1. ASSUME NEW e \in Claims, NEW p \in Paths
        PROVE  /\ e \in owners[p] <=> release[e] # 0 /\ p \in Files(e, release[e])
               /\ e \in owners[p] => m.sha[p] = Payload(p, release[e])
    <3>1. /\ e \in m.owners[p] <=> m.release[e] # 0 /\ p \in Files(e, m.release[e])
          /\ e \in m.owners[p] => m.sha[p] = Payload(p, m.release[e])
      BY <1>1 DEF Sane
    <3>2. owners[p] = m.owners[p] \ {c} /\ release[e] = IF e = c THEN 0 ELSE m.release[e]
      BY <1>1, <1>2
    <3> QED
      BY <3>1, <3>2
  <2> QED
    BY <1>6, <2>1 DEF Sane
<1>8. x \in Manifests
  BY <1>1, <1>3, <1>5, <1>7 DEF Manifests
<1>9. w \in Manifests
  BY <1>4, <1>8, StartIs
<1>10. ASSUME NEW p \in Paths, m.owners[p] \ {c} # {} PROVE w.owners[p] # {} /\ w.sha[p] = m.sha[p]
  <2>1. x.owners[p] # {}
    BY <1>2, <1>6, <1>10
  <2> QED
    BY <1>4, <1>6, <2>1
<1> QED
  BY <1>9, <1>10

(* An unlink takes the next of the files that only the claim owns.          *)
LEMMA RemovalLeads ==
    ASSUME NEW b \in Disks, NEW c, NEW k \in Nat, NEW p \in SoleOwned(b, c), NEW d \in Lessened(b, c, k),
           NEW e, e = Effect("unlink", p)
    PROVE  /\ Do(d, e) \in Lessened(b, c, k) /\ (p = k + 1 => Do(d, e) \in Lessened(b, c, p))
           /\ e \in Unlinks
<1>1. p \in Paths
  BY DEF SoleOwned
<1>2. PICK d1 : d1 = Do(d, e)
  OBVIOUS
<1>3. d \in Disks /\ Less(b, c, k, d) /\ d.manifest = b.manifest /\ d.mem.next = WithoutClaim(b.manifest, c)
  BY DEF Lessened
<1>4. /\ e \in Effects /\ d1 \in Disks /\ Sets(d, d1, p, 0)
      /\ d1.manifest = d.manifest /\ d1.journal = d.journal /\ d1.mem = d.mem
  BY <1>1, <1>2, <1>3, FileDoes
<1>5. \A q \in Paths : d1.live[q] = IF q = p THEN 0 ELSE d.live[q]
  BY <1>4 DEF Sets
<1>6. \A q \in Paths : p = k + 1 => (q <= p <=> q <= k \/ q = p)
  BY <1>1 DEF Paths
<1>7. Less(b, c, k, d1) /\ (p = k + 1 => Less(b, c, p, d1))
  BY <1>3, <1>4, <1>5, <1>6 DEF Less, LessAt
<1>8. e.do = "unlink"
  BY DEF Effect
<1> QED
  BY <1>2, <1>3, <1>4, <1>7, <1>8 DEF Lessened, Unlinks

(* Fewer of them may be demanded to be gone.                                *)
LEMMA LessMore == \A b, c : \A k \in Nat : Lessened(b, c, k) \subseteq Lessened(b, c, 0)
    /\ Left(b, c, k) \subseteq Left(b, c, 0)
<1> SUFFICES ASSUME NEW b, NEW c, NEW k \in Nat PROVE Lessened(b, c, k) \subseteq Lessened(b, c, 0)
                    /\ Left(b, c, k) \subseteq Left(b, c, 0)
  OBVIOUS
<1>1. \A p \in Paths : ~(p <= 0)
  BY DEF Paths
<1>2. \A d : Less(b, c, k, d) => Less(b, c, 0, d)
  BY <1>1 DEF Less, LessAt
<1> QED
  BY <1>2 DEF Lessened, Left

(* The unlinking of one path.                                               *)
LEMMA UninstallPartLeads ==
    ASSUME NEW b \in Disks, NEW c, NEW k \in Nat, NEW p \in Paths, p = k + 1
    PROVE  /\ UninstallPart(b, c, p) \in Seq(Unlinks)
           /\ RunFold!Leads(Lessened(b, c, k), UninstallPart(b, c, p), InLessened(b, c), Lessened(b, c, p))
           /\ RunFold!Leads(Lessened(b, c, 0), UninstallPart(b, c, p), InLessened(b, c), Lessened(b, c, 0))
           /\ RunFold!LeadsWithout(Lessened(b, c, 0), UninstallPart(b, c, p), Unlinks, Lessened(b, c, 0))
<1>1. PICK e : e = Effect("unlink", p)
  OBVIOUS
<1>2. CASE p \in SoleOwned(b, c)
  <2>1. UninstallPart(b, c, p) = <<e>>
    BY <1>1, <1>2 DEF UninstallPart
  <2>2. e \in Unlinks
    BY <1>1 DEF Effect, Unlinks, Effects, Paths
  <2>3. \A d \in Lessened(b, c, k) : Do(d, e) \in Lessened(b, c, p) /\ <<d, e>> \in InLessened(b, c)
    <3>1. ASSUME NEW d \in Lessened(b, c, k) PROVE Do(d, e) \in Lessened(b, c, p) /\ d \in Lessened(b, c, 0)
      BY <1>1, <1>2, RemovalLeads, LessMore
    <3> QED
      BY <2>2, <3>1 DEF InLessened, Lessened, Unlinks
  <2>4. \A d \in Lessened(b, c, 0) : Do(d, e) \in Lessened(b, c, 0) /\ <<d, e>> \in InLessened(b, c)
    <3>1. ASSUME NEW d \in Lessened(b, c, 0) PROVE Do(d, e) \in Lessened(b, c, 0)
      BY <1>1, <1>2, RemovalLeads
    <3> QED
      BY <2>2, <3>1 DEF InLessened, Lessened, Unlinks
  <2>5. <<e>> \in Seq(Unlinks)
    BY <2>2, ShortLogs
  <2>6. RunFold!Leads(Lessened(b, c, k), <<e>>, InLessened(b, c), Lessened(b, c, p))
    BY <2>3, RunFold!LeadsOne
  <2>7. RunFold!Leads(Lessened(b, c, 0), <<e>>, InLessened(b, c), Lessened(b, c, 0))
    BY <2>4, RunFold!LeadsOne
  <2>8. RunFold!LeadsWithout(Lessened(b, c, 0), <<e>>, Unlinks, Lessened(b, c, 0))
    BY RunFold!WithoutOne
  <2> QED
    BY <2>1, <2>5, <2>6, <2>7, <2>8
<1>3. CASE p \notin SoleOwned(b, c)
  <2>1. UninstallPart(b, c, p) = <<>> /\ <<>> \in Seq(Unlinks)
    BY <1>3, ShortLogs DEF UninstallPart
  <2>2. \A q \in Paths : q <= p <=> q <= k \/ q = p
    BY DEF Paths
  <2>3. Lessened(b, c, k) \subseteq Lessened(b, c, p)
    BY <1>3, <2>2 DEF Lessened, Less, LessAt
  <2>4. RunFold!Leads(Lessened(b, c, k), <<>>, InLessened(b, c), Lessened(b, c, p))
    BY <2>3, RunFold!LeadsNone
  <2>5. RunFold!Leads(Lessened(b, c, 0), <<>>, InLessened(b, c), Lessened(b, c, 0))
    BY RunFold!LeadsNone
  <2>6. RunFold!LeadsWithout(Lessened(b, c, 0), <<>>, Unlinks, Lessened(b, c, 0))
    BY DEF RunFold!LeadsWithout
  <2> QED
    BY <2>1, <2>4, <2>5, <2>6
<1> QED
  BY <1>2, <1>3

(* After the files the manifest forgets the claim.                          *)
LEMMA PublishLess ==
    ASSUME NEW b \in Disks, NEW c, NEW k, NEW d \in Lessened(b, c, k), NEW e, e = Effect("publish", 0)
    PROVE  Do(d, e) \in Left(b, c, k) /\ e \in Effects \ Unlinks
<1>1. PICK d1 : d1 = Do(d, e)
  OBVIOUS
<1>2. d \in Disks /\ Less(b, c, k, d) /\ d.manifest = b.manifest /\ d.mem.next = WithoutClaim(b.manifest, c)
  BY DEF Lessened
<1>3. PICK do \in {"publish", "sweep", "clear"} : do = "publish"
  OBVIOUS
<1>4. e = Effect(do, 0)
  BY <1>3
<1>5. /\ e \in Effects /\ d1 \in Disks /\ d1.live = d.live
      /\ d1.manifest = IF do = "publish" THEN d.mem.next ELSE d.manifest
      /\ d1.journal = IF do = "clear" THEN NoJournal ELSE d.journal
  BY <1>1, <1>2, <1>4, OtherDoes
<1>6. Less(b, c, k, d1)
  BY <1>2, <1>3, <1>5 DEF Less, LessAt
<1>7. e.do = "publish"
  BY DEF Effect
<1> QED
  BY <1>1, <1>2, <1>3, <1>5, <1>6, <1>7 DEF Left, Unlinks

(* A whole uninstall.                                                       *)
LEMMA UninstallLeads ==
    ASSUME NEW b \in Disks, NEW c, NEW q, q = UninstallEffects(b, c)
    PROVE  /\ q \in Seq(Effects)
           /\ RunFold!Leads(Lessened(b, c, 0), q, InLessened(b, c), Left(b, c, 4))
           /\ RunFold!LeadsWithout(Lessened(b, c, 0), q, Unlinks, Left(b, c, 0))
<1>1. PICK e : e = Effect("publish", 0)
  OBVIOUS
<1>2. q = Removals(b, c) \o <<e>>
  BY <1>1 DEF UninstallEffects, InOrder, Removals, UninstallPart, Paths
<1>3. \A k \in Nat, p \in Paths : p = k + 1 =>
        /\ UninstallPart(b, c, p) \in Seq(Unlinks)
        /\ RunFold!Leads(Lessened(b, c, k), UninstallPart(b, c, p), InLessened(b, c), Lessened(b, c, p))
        /\ RunFold!Leads(Lessened(b, c, 0), UninstallPart(b, c, p), InLessened(b, c), Lessened(b, c, 0))
        /\ RunFold!LeadsWithout(Lessened(b, c, 0), UninstallPart(b, c, p), Unlinks, Lessened(b, c, 0))
  BY UninstallPartLeads
<1>4. PICK p1, p2, p3, p4 : p1 = UninstallPart(b, c, 1) /\ p2 = UninstallPart(b, c, 2)
               /\ p3 = UninstallPart(b, c, 3) /\ p4 = UninstallPart(b, c, 4)
  OBVIOUS
<1>5. /\ p1 \in Seq(Unlinks) /\ p2 \in Seq(Unlinks) /\ p3 \in Seq(Unlinks) /\ p4 \in Seq(Unlinks)
      /\ RunFold!Leads(Lessened(b, c, 0), p1, InLessened(b, c), Lessened(b, c, 1))
      /\ RunFold!Leads(Lessened(b, c, 1), p2, InLessened(b, c), Lessened(b, c, 2))
      /\ RunFold!Leads(Lessened(b, c, 2), p3, InLessened(b, c), Lessened(b, c, 3))
      /\ RunFold!Leads(Lessened(b, c, 3), p4, InLessened(b, c), Lessened(b, c, 4))
      /\ \A s \in {p1, p2, p3, p4} : /\ RunFold!Leads(Lessened(b, c, 0), s, InLessened(b, c), Lessened(b, c, 0))
                                     /\ RunFold!LeadsWithout(Lessened(b, c, 0), s, Unlinks, Lessened(b, c, 0))
  BY <1>3, <1>4 DEF Paths
<1>6. PICK s : s = Removals(b, c)
  OBVIOUS
<1>7. s \in Seq(Unlinks) /\ RunFold!Leads(Lessened(b, c, 0), s, InLessened(b, c), Lessened(b, c, 4))
  BY <1>4, <1>5, <1>6, RunFold!LeadsFour DEF Removals
<1>8. RunFold!Leads(Lessened(b, c, 0), s, InLessened(b, c), Lessened(b, c, 0))
  BY <1>4, <1>5, <1>6, RunFold!LeadsFour DEF Removals
<1>9. RunFold!LeadsWithout(Lessened(b, c, 0), s, Unlinks, Lessened(b, c, 0))
  BY <1>4, <1>5, <1>6, RunFold!LeadsFourWithout DEF Removals
<1>10. ASSUME NEW k \in {0, 4} PROVE RunFold!Leads(Lessened(b, c, k), <<e>>, InLessened(b, c), Left(b, c, k))
  <2>1. \A d \in Lessened(b, c, k) : Do(d, e) \in Left(b, c, k) /\ e \in Effects \ Unlinks
    BY <1>1, PublishLess
  <2>2. Lessened(b, c, k) \subseteq Lessened(b, c, 0)
    BY LessMore
  <2>3. \A d \in Lessened(b, c, k) : <<d, e>> \in InLessened(b, c)
    BY <2>1, <2>2 DEF InLessened, Lessened
  <2> QED
    BY <2>1, <2>3, RunFold!LeadsOne
<1>11. e \in Effects \ Unlinks
  BY <1>1 DEF Effect, Effects, Unlinks
<1>12. RunFold!LeadsWithout(Lessened(b, c, 4), <<e>>, Unlinks, Left(b, c, 0))
           /\ RunFold!LeadsWithout(Lessened(b, c, 0), <<e>>, Unlinks, Left(b, c, 0))
  BY <1>11, RunFold!WithoutOne
<1>13. s \in Seq(Effects) /\ <<e>> \in Seq(Effects)
  BY <1>7, <1>11, ShortLogs DEF Unlinks
<1>14. RunFold!Leads(Lessened(b, c, 0), s \o <<e>>, InLessened(b, c), Left(b, c, 4))
  BY <1>7, <1>10, <1>13, RunFold!LeadsOn
<1>15. RunFold!LeadsWithout(Lessened(b, c, 0), s \o <<e>>, Unlinks, Left(b, c, 0))
  BY <1>8, <1>9, <1>10, <1>12, <1>13, RunFold!LeadsOnWithout
<1>16. s \o <<e>> \in Seq(Effects)
  BY <1>13, ConcatProperties
<1> QED
  BY <1>2, <1>6, <1>14, <1>15, <1>16

(* An uninstall never leaves a file that the manifest does not know, and    *)
(* takes away no user's file.                                               *)
LEMMA UninstallIs ==
    ASSUME NEW b \in Disks, b.journal = NoJournal, NEW r, r.claim \in Claims,
           r.how \in {"done", "died", "failed"},
           NEW q, q = UninstallEffects(b, r.claim), r.stop \in 0 .. Len(q) - 1, NEW u, u = Uninstall(b, r)
    PROVE  /\ Keeps(b, u) /\ u.journal = NoJournal
           /\ r.how # "failed" /\ Proper(b) => Proper(u)
<1>1. PICK c, k, how : c = r.claim /\ k = r.stop /\ how = r.how
  OBVIOUS
<1>2. PICK w : w = WithoutClaim(b.manifest, c)
  OBVIOUS
<1>3. w \in Manifests /\ \A p \in Paths : (b.manifest.owners[p] \ {c} # {} => w.owners[p] # {}
          /\ w.sha[p] = b.manifest.sha[p])
  BY <1>1, <1>2, JournalOf, WithoutIs
<1>4. PICK m : m = [NoJournal EXCEPT !.next = w]
  OBVIOUS
<1>5. m \in Journals /\ m.next = w
  BY <1>3, <1>4, StartIs DEF Journals
<1>6. PICK b1 : b1 = [b EXCEPT !.mem = m]
  OBVIOUS
<1>7. b1 \in Disks /\ b1.mem = m /\ b1.live = b.live /\ b1.manifest = b.manifest /\ b1.journal = NoJournal
  BY <1>5, <1>6 DEF Disks
<1>8. b1 \in Lessened(b, c, 0)
  <2>1. \A p \in Paths : ~(p <= 0)
    BY DEF Paths
  <2> QED
    BY <1>2, <1>5, <1>7, <2>1 DEF Lessened, Less, LessAt
<1>9. /\ q \in Seq(Effects)
      /\ RunFold!Leads(Lessened(b, c, 0), q, InLessened(b, c), Left(b, c, 4))
      /\ RunFold!LeadsWithout(Lessened(b, c, 0), q, Unlinks, Left(b, c, 0))
  BY <1>1, UninstallLeads
<1>10. k \in 0 .. Len(q) - 1 /\ k # Len(q)
  BY <1>1, <1>9
<1>11. PICK d, e : d = RunFold!Fold(b1, SubSeq(q, 1, k)) /\ e = q[k + 1]
  OBVIOUS
<1>12. RunFold!Fold(b1, q) \in Left(b, c, 4) /\ <<d, e>> \in InLessened(b, c)
  BY <1>8, <1>9, <1>10, <1>11 DEF RunFold!Leads
<1>13. e \in Unlinks => RunFold!Fold(d, SubSeq(q, k + 2, Len(q))) \in Left(b, c, 0)
  BY <1>8, <1>9, <1>10, <1>11 DEF RunFold!LeadsWithout
<1>14. d \in Lessened(b, c, 0) /\ e \in Effects
  BY <1>12 DEF InLessened
<1>15. u = Stopped(b1, q, k, how, FALSE)
  BY <1>1, <1>2, <1>4, <1>6 DEF Uninstall
<1>16. Stops(b1, q, k, how, u, d)
  BY <1>10, <1>11, <1>15, StoppedIs
<1>17. /\ how = "done" => u \in Left(b, c, 4)
       /\ how = "died" => u \in Lessened(b, c, 0)
       /\ u \in Lessened(b, c, 0) \cup Left(b, c, 0)
  <2>1. Left(b, c, 4) \subseteq Left(b, c, 0)
    BY LessMore
  <2>2. how \in {"done", "died", "failed"}
    BY <1>1
  <2>3. e.do = "unlink" => e \in Unlinks
    BY <1>14 DEF Unlinks
  <2> QED
    BY <1>11, <1>12, <1>13, <1>14, <1>16, <2>1, <2>2, <2>3 DEF Stops
<1>18. u \in Disks /\ Less(b, c, 0, u)
  BY <1>17 DEF Lessened, Left
<1>19. \A p \in SoleOwned(b, c) : b.live[p] # 9 /\ b.live[p] = b.manifest.sha[p]
  <2>1. b.manifest.sha \in [Paths -> {0, 1, 2}]
    BY JournalOf DEF Manifests
  <2> QED
    BY <2>1 DEF SoleOwned
<1>20. Keeps(b, u) /\ u.journal = NoJournal
  BY <1>18, <1>19 DEF Keeps, Less, LessAt
<1>21. ASSUME how # "failed", Proper(b) PROVE Proper(u)
  <2>1. \A p \in Paths : Fits(b.manifest, p, b.live[p])
    BY <1>21 DEF Proper
  <2>2. CASE how = "died"
    <3>1. u.manifest = b.manifest /\ \A p \in Paths : u.live[p] \in {0, b.live[p]}
      BY <1>17, <2>2 DEF Lessened, Less, LessAt
    <3> QED
      BY <2>1, <3>1 DEF Proper, Fits
  <2>3. CASE how = "done"
    <3>1. u.manifest = w /\ \A p \in Paths : LessAt(b, c, 4, u, p)
      BY <1>2, <1>17, <2>3 DEF Left, Less
    <3>2. ASSUME NEW p \in Paths PROVE Fits(w, p, u.live[p])
      <4>1. p <= 4
        BY DEF Paths
      <4>2. u.live[p] \in {0, b.live[p]} /\ (p \in SoleOwned(b, c) => u.live[p] = 0)
        BY <3>1, <4>1 DEF LessAt
      <4>3. b.manifest.owners[p] # {} /\ b.live[p] = b.manifest.sha[p] => p \in SoleOwned(b, c)
                \/ b.manifest.owners[p] \ {c} # {}
        BY DEF SoleOwned
      <4> QED
        BY <1>3, <2>1, <4>2, <4>3 DEF Fits
    <3> QED
      BY <3>1, <3>2 DEF Proper
  <2> QED
    BY <1>1, <1>21, <2>2, <2>3
<1> QED
  BY <1>1, <1>20, <1>21

-----------------------------------------------------------------------------
(* The commands of a log, and what may come next.                           *)
Edits == [kind : {"edit"}, path : Paths, to : {9, 0}]
Uninstalls == [kind : {"uninstall"}, claim : Claims, release : {0}, stop : Nat, how : {"done", "died", "failed"}]
Recovers == [kind : {"recover"}, able : SUBSET Int, dies : BOOLEAN]
Undo == [kind |-> "undo"]
RootRecords == Edits \cup Installs \cup Uninstalls \cup Recovers \cup {Undo}

LastInstall(l, i) ==
    i \in 1 .. Len(l) /\ l[i].kind = "install" /\ \A k \in (i + 1) .. Len(l) : l[k].kind # "install"

MayInstall(d, r) ==
    LET q == InstallEffects(d, r.claim, r.release)
    IN  Given(d, r) /\ r.stop \in 0 .. Len(q) - 1 /\ (r.how = "failed" => Fallible(q, r.stop))
MayUninstall(d, r) ==
    /\ d.journal = NoJournal /\ r \in Uninstalls
    /\ r.stop \in 0 .. Len(UninstallEffects(d, r.claim)) - 1
MayUndo(l) ==
    \E i \in 1 .. Len(l) : l[i].kind = "install" /\ l[i].how = "done" /\ \A k \in (i + 1) .. Len(l) : l[k].kind = "edit"

(* The greatest place of those a test holds of.                             *)
LEMMA GreatestOfPlaces ==
    ASSUME NEW n \in Nat, NEW t \in SUBSET (1 .. n), t # {}
    PROVE  Max(t) \in t /\ \A y \in t : y <= Max(t)
<1>1. \A u : Max(u) = RunFold!Max(u)
  BY DEF Max, RunFold!Max
<1> QED
  BY <1>1, RunFold!GreatestOf

(* The place that the model finds the last install at.                      *)
LEMMA LastInstallIs ==
    ASSUME NEW l \in Seq(RootRecords), NEW i, i = SelectLastInSeq(l, LAMBDA r : r.kind = "install")
    PROVE  i # 0 => LastInstall(l, i)
<1> DEFINE I == {k \in 1 .. Len(l) : l[k].kind = "install"}
<1>1. i = IF I # {} THEN Max(I) ELSE 0
  BY DEF SelectLastInSeq
<1>2. I \in SUBSET (1 .. Len(l)) /\ Len(l) \in Nat
  OBVIOUS
<1>3. I # {} => Max(I) \in I /\ \A y \in I : y <= Max(I)
  BY <1>2, GreatestOfPlaces
<1>4. \A k \in 1 .. Len(l) : k \in I <=> l[k].kind = "install"
  OBVIOUS
<1> HIDE DEF I
<1>5. SUFFICES ASSUME i # 0 PROVE LastInstall(l, i)
  OBVIOUS
<1>6. i \in I /\ i \in 1 .. Len(l) /\ \A y \in I : y <= i
  BY <1>1, <1>2, <1>3, <1>5
<1>7. \A k \in (i + 1) .. Len(l) : k \in 1 .. Len(l) /\ ~(k <= i)
  BY <1>2, <1>6
<1> QED
  BY <1>4, <1>6, <1>7 DEF LastInstall

(* An install that only edits have followed may be undone.                  *)
LEMMA LastCommandIs ==
    ASSUME NEW l \in Seq(RootRecords), NEW i, i = SelectLastInSeq(l, LAMBDA r : r.kind # "edit"),
           i # 0, l[i].kind = "install", l[i].how = "done"
    PROVE  MayUndo(l)
<1> DEFINE I == {k \in 1 .. Len(l) : l[k].kind # "edit"}
<1>1. i = IF I # {} THEN Max(I) ELSE 0
  BY DEF SelectLastInSeq
<1>2. I \in SUBSET (1 .. Len(l)) /\ Len(l) \in Nat
  OBVIOUS
<1>3. I # {} => Max(I) \in I /\ \A y \in I : y <= Max(I)
  BY <1>2, GreatestOfPlaces
<1>4. \A k \in 1 .. Len(l) : k \in I <=> l[k].kind # "edit"
  OBVIOUS
<1> HIDE DEF I
<1>5. i \in I /\ i \in 1 .. Len(l) /\ \A y \in I : y <= i
  BY <1>1, <1>2, <1>3
<1>6. \A k \in (i + 1) .. Len(l) : k \in 1 .. Len(l) /\ ~(k <= i)
  BY <1>2, <1>5
<1> QED
  BY <1>4, <1>5, <1>6 DEF MayUndo

(* An attempt stops at one of its effects, and fails only at one that may.  *)
LEMMA AttemptIs ==
    ASSUME NEW l, NEW kind, NEW claim, NEW release, NEW q, NEW r \in Attempts(l, kind, claim, release, q)
    PROVE  /\ r \in [kind : {kind}, claim : {claim}, release : {release}, stop : 0 .. Len(q) - 1,
                  how : {"done", "died", "failed"}]
           /\ r.how = "failed" => Fallible(q, r.stop)
<1>1. /\ r \in [kind : {kind}, claim : {claim}, release : {release}, stop : 0 .. Len(q) - 1, how : Hows(l)]
      /\ r.how = "failed" => Fallible(q, r.stop)
  BY DEF Attempts
<1>2. Hows(l) \subseteq {"done", "died", "failed"}
  BY DEF Hows
<1> QED
  BY <1>1, <1>2

(* Every next record is one of these, given what it demands of the root.    *)
LEMMA NextIs ==
    ASSUME NEW l \in Seq(RootRecords), After(l).disk \in Disks, NEW r \in NextRecords(l)
    PROVE  \/ r \in Edits
           \/ r \in Recovers
           \/ r \in Installs /\ MayInstall(After(l).disk, r)
           \/ r \in Uninstalls /\ MayUninstall(After(l).disk, r)
           \/ r = Undo /\ MayUndo(l)
<1>1. PICK d : d = After(l).disk
  OBVIOUS
<1>2. \/ r \in UserEdits(d)
      \/ r \in Recoveries
      \/ d.journal = NoJournal /\ (r \in InstallAttempts(l, d) \/ r \in UninstallAttempts(l, d))
      \/ r = Undo /\ JustInstalled(l)
  BY <1>1 DEF NextRecords, Undo
<1>3. r \in UserEdits(d) => r \in Edits
  BY DEF UserEdits, Edits, User, Absent
<1>4. r \in Recoveries => r \in Recovers
  <2>1. {Paths} \cup {Paths \ {p} : p \in Paths} \subseteq SUBSET Int
    BY DEF Paths
  <2>2. {1 .. k : k \in 0 .. 4} \subseteq SUBSET Int
    OBVIOUS
  <2> QED
    BY <2>1, <2>2 DEF Recoveries, Recovers
<1>5. ASSUME d.journal = NoJournal, r \in InstallAttempts(l, d) PROVE r \in Installs /\ MayInstall(d, r)
  <2>1. PICK c \in Claims, v \in Releases :
            ~Conflicts(d, c, v) /\ r \in Attempts(l, "install", c, v, InstallEffects(d, c, v))
    BY <1>5 DEF InstallAttempts
  <2>2. PICK q : q = InstallEffects(d, c, v)
    OBVIOUS
  <2>3. /\ r \in [kind : {"install"}, claim : {c}, release : {v}, stop : 0 .. Len(q) - 1, how : {"done", "died", "failed"}]
        /\ r.how = "failed" => Fallible(q, r.stop)
    BY <2>1, <2>2, AttemptIs
  <2>4. PICK x \in Installs : x.claim = c /\ x.release = v
    <3>1. [kind |-> "install", claim |-> c, release |-> v, stop |-> 0, how |-> "done"] \in Installs
      BY DEF Installs, Releases
    <3> QED
      BY <3>1
  <2>5. Given(d, x)
    BY <1>5, <1>1, <2>1, <2>4 DEF Given
  <2>6. Opening(d, x) \in Seq(Effects) /\ Rest(d, x) \in Seq(Effects) /\ q = Opening(d, x) \o Rest(d, x)
    BY <2>2, <2>4, <2>5, OpeningLeads, RestLeads, EffectsAre
  <2>7. Len(q) \in Nat
    BY <2>6, ConcatProperties
  <2>8. r \in Installs /\ r.claim = c /\ r.release = v /\ r.stop \in 0 .. Len(q) - 1
    BY <2>3, <2>7 DEF Installs, Releases
  <2> QED
    BY <1>5, <1>1, <2>1, <2>2, <2>3, <2>8 DEF MayInstall, Given
<1>6. ASSUME d.journal = NoJournal, r \in UninstallAttempts(l, d) PROVE r \in Uninstalls
             /\ MayUninstall(d, r)
  <2>1. PICK c \in Claims : r \in Attempts(l, "uninstall", c, 0, UninstallEffects(d, c))
    BY <1>6 DEF UninstallAttempts
  <2>2. PICK q : q = UninstallEffects(d, c)
    OBVIOUS
  <2>3. r \in [kind : {"uninstall"}, claim : {c}, release : {0}, stop : 0 .. Len(q) - 1, how : {"done", "died", "failed"}]
    BY <2>1, <2>2, AttemptIs
  <2>4. q \in Seq(Effects)
    BY <1>1, <2>2, UninstallLeads
  <2>5. r \in Uninstalls /\ r.claim = c /\ r.stop \in 0 .. Len(q) - 1
    BY <2>3, <2>4 DEF Uninstalls
  <2> QED
    BY <1>6, <2>2, <2>5 DEF MayUninstall
<1>7. JustInstalled(l) => MayUndo(l)
  BY LastCommandIs DEF JustInstalled
<1> QED
  BY <1>2, <1>3, <1>4, <1>5, <1>6, <1>7, <1>1

-----------------------------------------------------------------------------
(* One command after the other.                                             *)
LEMMA CommandsAreFold == \A l : After(l) = CommandFold!Fold([disk |-> Start,
    before |-> Start, last |-> [kind |-> "none"]], l)
BY DEF After, CommandFold!Fold, CommandFold!Unfolds, FoldLeft, MapThenFoldSet, Max, CommandFold!Max

(* After one more record the state is what its command makes of it.         *)
LEMMA AfterCommand ==
    ASSUME NEW l \in Seq(RootRecords), NEW r \in RootRecords
    PROVE  After(Append(l, r)) = Command(After(l), r)
BY CommandsAreFold, CommandFold!FoldAppend

(* Before any, it is the start.                                             *)
LEMMA AfterNone == After(<<>>) = [disk |-> Start, before |-> Start, last |-> [kind |-> "none"]]
BY CommandsAreFold, CommandFold!FoldEmpty

(* A log of which the root is nobody's if the manifest says so: nothing     *)
(* failed, and no install was undone after an edit.                         *)
Failing(l) == \E k \in 1 .. Len(l) : l[k].kind \in {"install", "uninstall"} /\ l[k].how = "failed"
Edited(l) == \E k \in 1 .. Len(l) : l[k].kind = "edit"
Undid(l) == \E k \in 1 .. Len(l) : l[k].kind = "undo"
Clean(l) == ~Failing(l) /\ ~(Edited(l) /\ Undid(l))

(* What the last install has come to: done, and nothing after it; or        *)
(* settled, if only recovery and undoing came after it and it failed, if it *)
(* did, with its journal written.                                           *)
DroppedTo(r) == IF r.how = "failed" THEN 0 ELSE 4
Unchanged(l, i) == \A k \in (i + 1) .. Len(l) : l[k].kind \in {"recover", "undo"}
InstallAt(l, i, s) ==
    /\ s.last = l[i] /\ MayInstall(s.before, l[i])
    /\ l[i].how = "done" /\ i = Len(l) => s.disk \in Through(s.before, l[i], 4)
    /\ Unchanged(l, i) /\ ~Staging(s.before, l[i]) => s.disk \in Settled(s.before, l[i], DroppedTo(l[i]))
    /\ Clean(l) => Proper(s.before)
IsState(s) == s = [disk |-> s.disk, before |-> s.before, last |-> s.last]
WindowsInv(l) ==
    /\ l \in Seq(RootRecords) /\ IsState(After(l)) /\ After(l).disk \in Disks
    /\ \A i : LastInstall(l, i) => InstallAt(l, i, After(l))
    /\ Clean(l) => Right(After(l).disk)
    /\ UserFileIsNotRemoved(l) /\ InstallRepairs(l)

(* A log with one more record.                                              *)
LEMMA OneMore ==
    ASSUME NEW l \in Seq(RootRecords), NEW r \in RootRecords, NEW t, t = Append(l, r), NEW n \in Nat, n = Len(l)
    PROVE  /\ t \in Seq(RootRecords) /\ Len(t) = n + 1 /\ t[n + 1] = r /\ \A k \in 1 .. n : t[k] = l[k]
           /\ t # <<>> /\ Last(t) = r /\ Front(t) = l
<1>1. t \in Seq(RootRecords) /\ Len(t) = n + 1 /\ t[n + 1] = r /\ \A k \in 1 .. n : t[k] = l[k]
  OBVIOUS
<1>2. t # <<>> /\ Last(t) = r
  BY <1>1 DEF Last
<1>3. Front(t) = l
  BY <1>1 DEF Front
<1> QED
  BY <1>1, <1>2, <1>3

(* A log that is clean was clean before its last record.                    *)
LEMMA CleanBefore ==
    ASSUME NEW l \in Seq(RootRecords), NEW r \in RootRecords, NEW t, t = Append(l, r), Clean(t)
    PROVE  /\ Clean(l) /\ (r.kind \in {"install", "uninstall"} => r.how # "failed")
           /\ r.kind = "undo" => ~Edited(l)
<1>1. PICK n \in Nat : n = Len(l)
  OBVIOUS
<1>2. Len(t) = n + 1 /\ t[n + 1] = r /\ \A k \in 1 .. n : t[k] = l[k]
  BY <1>1, OneMore
<1>3. \A k \in 1 .. n : k \in 1 .. Len(t)
  BY <1>2
<1>4. n + 1 \in 1 .. Len(t)
  BY <1>2
<1>5. (Failing(l) => Failing(t)) /\ (Edited(l) => Edited(t)) /\ (Undid(l) => Undid(t))
  BY <1>1, <1>2, <1>3 DEF Failing, Edited, Undid
<1>6. (r.kind \in {"install", "uninstall"} /\ r.how = "failed" => Failing(t)) /\ (r.kind = "undo" => Undid(t))
  BY <1>2, <1>4 DEF Failing, Undid
<1> QED
  BY <1>5, <1>6 DEF Clean

(* The last install of a log with one more record.                          *)
LEMMA LastBefore ==
    ASSUME NEW l \in Seq(RootRecords), NEW r \in RootRecords, NEW i, LastInstall(Append(l, r), i)
    PROVE  /\ r.kind = "install" => i = Len(l) + 1
           /\ r.kind # "install" => LastInstall(l, i)
<1>1. PICK n \in Nat : n = Len(l)
  OBVIOUS
<1>2. PICK t : t = Append(l, r)
  OBVIOUS
<1>3. n = Len(l) /\ t = Append(l, r)
  BY <1>1, <1>2
<1>4. Len(t) = n + 1 /\ t[n + 1] = r /\ \A k \in 1 .. n : t[k] = l[k]
  BY <1>3, OneMore
<1>5. i \in 1 .. n + 1 /\ t[i].kind = "install" /\ \A k \in (i + 1) .. n + 1 : t[k].kind # "install"
  BY <1>3, <1>4 DEF LastInstall
<1>6. CASE r.kind = "install"
  <2>1. i # n + 1 => n + 1 \in (i + 1) .. n + 1
    BY <1>5
  <2> QED
    BY <1>3, <1>4, <1>5, <1>6, <2>1
<1>7. CASE r.kind # "install"
  <2>1. i \in 1 .. n
    BY <1>4, <1>5, <1>7
  <2>2. \A k \in (i + 1) .. n : k \in (i + 1) .. n + 1 /\ k \in 1 .. n
    BY <2>1
  <2> QED
    BY <1>3, <1>4, <1>5, <1>7, <2>1, <2>2 DEF LastInstall
<1> QED
  BY <1>6, <1>7

(* What one more record must not break.                                     *)
LEMMA PromisesKept ==
    ASSUME NEW l \in Seq(RootRecords), NEW r \in RootRecords, NEW t, t = Append(l, r), NEW s, s = After(l),
           NEW s1, s1 = After(t),
           r.kind \in {"undo", "edit"} \/ Keeps(s.disk, s1.disk)
    PROVE  /\ UserFileIsNotRemoved(t)
           /\ r.kind # "install" => InstallRepairs(t)
<1>1. PICK n \in Nat : n = Len(l)
  OBVIOUS
<1>2. t # <<>> /\ Last(t) = r /\ Front(t) = l
  BY <1>1, OneMore
<1> QED
  BY <1>2 DEF UserFileIsNotRemoved, InstallRepairs, Keeps, User, Absent

(* A record that is no install keeps the invariant if its disk is right and *)
(* the last install stays settled.                                          *)
LEMMA OtherStep ==
    ASSUME NEW l, WindowsInv(l), NEW r \in RootRecords, r.kind # "install", NEW t, t = Append(l, r),
           NEW s, s = After(l), NEW s1, s1 = After(t), s1.before = s.before, s1.last = s.last,
               s1.disk \in Disks, IsState(s1),
           Clean(t) => Right(s1.disk), r.kind \in {"undo", "edit"} \/ Keeps(s.disk, s1.disk),
           r.kind \in {"recover", "undo"} =>
               \A i : LastInstall(l, i) /\ Unchanged(l, i) /\ ~Staging(s.before, l[i])
                   => s1.disk \in Settled(s.before, l[i], DroppedTo(l[i]))
    PROVE  WindowsInv(t)
<1>1. l \in Seq(RootRecords) /\ (\A i : LastInstall(l, i) => InstallAt(l, i, s))
  BY DEF WindowsInv
<1>2. PICK n \in Nat : n = Len(l)
  BY <1>1
<1>3. t \in Seq(RootRecords) /\ Len(t) = n + 1 /\ t[n + 1] = r /\ \A k \in 1 .. n : t[k] = l[k]
  BY <1>1, <1>2, OneMore
<1>4. ASSUME NEW i, LastInstall(t, i) PROVE InstallAt(t, i, s1)
  <2>1. LastInstall(l, i) /\ i \in 1 .. n /\ t[i] = l[i] /\ i # Len(t)
    <3>1. LastInstall(l, i)
      BY <1>1, <1>4, LastBefore
    <3> QED
      BY <1>2, <1>3, <3>1 DEF LastInstall
  <2>2. InstallAt(l, i, s)
    BY <1>1, <2>1
  <2>3. Unchanged(t, i) => Unchanged(l, i) /\ r.kind \in {"recover", "undo"}
    <3>1. n + 1 \in (i + 1) .. n + 1 /\ \A k \in (i + 1) .. n : k \in (i + 1) .. n + 1 /\ k \in 1 .. n
      BY <2>1
    <3>2. Unchanged(t, i) <=> \A k \in (i + 1) .. n + 1 : t[k].kind \in {"recover", "undo"}
      BY <1>3 DEF Unchanged
    <3>3. Unchanged(l, i) <=> \A k \in (i + 1) .. n : l[k].kind \in {"recover", "undo"}
      BY <1>2 DEF Unchanged
    <3> QED
      BY ONLY <1>3, <3>1, <3>2, <3>3
  <2>4. Clean(t) => Clean(l)
    BY <1>1, CleanBefore
  <2> QED
    BY <2>1, <2>2, <2>3, <2>4 DEF InstallAt
<1>5. UserFileIsNotRemoved(t) /\ InstallRepairs(t)
  BY <1>1, PromisesKept
<1> QED
  BY <1>3, <1>4, <1>5 DEF WindowsInv

(* A user's edit: what holds a user's file, or none, fits any manifest.     *)
LEMMA EditStep ==
    ASSUME NEW l, WindowsInv(l), NEW r \in Edits, NEW t, t = Append(l, r)
    PROVE  WindowsInv(t)
<1>1. PICK s, s1 : s = After(l) /\ s1 = After(t)
  OBVIOUS
<1>2. l \in Seq(RootRecords) /\ r \in RootRecords /\ r.kind = "edit" /\ r.path \in Paths /\ r.to \in {0, 9}
  BY DEF WindowsInv, RootRecords, Edits
<1>3. s1 = [s EXCEPT !.disk.live[r.path] = r.to]
  BY <1>1, <1>2, AfterCommand DEF Command
<1>4. s.disk \in Disks /\ (Clean(l) => Right(s.disk)) /\ IsState(s)
  BY <1>1 DEF WindowsInv
<1>5. PICK d, p : d = s.disk /\ p = r.path
  OBVIOUS
<1>6. PICK d1 : d1 = [d EXCEPT !.live[p] = r.to]
  OBVIOUS
<1>7. s1 = [disk |-> d1, before |-> s.before, last |-> s.last]
  BY <1>3, <1>4, <1>5, <1>6 DEF IsState
<1>8. d1 \in Disks /\ d1.manifest = d.manifest /\ d1.journal = d.journal /\ d1.copies = d.copies
      /\ \A q \in Paths : d1.live[q] \in {0, 9, d.live[q]}
  <2>1. PICK live : live = [d.live EXCEPT ![p] = r.to]
    OBVIOUS
  <2>2. live \in Contents /\ \A q \in Paths : live[q] \in {0, 9, d.live[q]}
    BY <1>2, <1>4, <1>5, <2>1, JournalOf DEF Contents, User, Absent
  <2>3. d1 = [d EXCEPT !.live = live]
    BY <1>4, <1>5, <1>6, <2>1 DEF Disks
  <2> QED
    BY <1>4, <1>5, <2>2, <2>3 DEF Disks
<1>9. Right(d) => Right(d1)
  <2>1. \A q \in Paths : Fits(d.manifest, q, d.live[q]) => Fits(d1.manifest, q, d1.live[q])
    BY <1>8 DEF Fits
  <2>2. \A q \in Paths : FitsAt(d, d.journal, q) => FitsAt(d1, d.journal, q)
    BY <1>8, <2>1 DEF FitsAt
  <2> QED
    BY <1>8, <2>1, <2>2 DEF Right, Proper
<1>10. Clean(t) => Right(d1)
  BY <1>2, <1>4, <1>5, <1>9, CleanBefore
<1>11. s1.disk = d1 /\ s1.before = s.before /\ s1.last = s.last /\ IsState(s1)
  BY <1>7 DEF IsState
<1>12. s1.disk \in Disks /\ (Clean(t) => Right(s1.disk)) /\ r.kind # "install" /\ r.kind \in {"undo", "edit"}
           /\ r.kind \notin {"recover", "undo"}
  BY <1>2, <1>8, <1>10, <1>11
<1> QED
  BY <1>1, <1>2, <1>11, <1>12, OtherStep

(* Recovery, tried as often as may be, keeps a settled install settled.     *)
LEMMA RecoverStep ==
    ASSUME NEW l, WindowsInv(l), NEW r \in Recovers, NEW t, t = Append(l, r)
    PROVE  WindowsInv(t)
<1>1. PICK s, s1 : s = After(l) /\ s1 = After(t)
  OBVIOUS
<1>2. l \in Seq(RootRecords) /\ r \in RootRecords /\ r.kind = "recover" /\ r.dies \in BOOLEAN
  BY DEF WindowsInv, RootRecords, Recovers
<1>3. PICK u : u = Recover(s.disk, r.able, r.dies)
  OBVIOUS
<1>4. s1 = [s EXCEPT !.disk = u]
  BY <1>1, <1>2, <1>3, AfterCommand DEF Command
<1>5. s.disk \in Disks /\ (Clean(l) => Right(s.disk)) /\ IsState(s) /\ \A i : LastInstall(l, i) => InstallAt(l, i, s)
  BY <1>1 DEF WindowsInv
<1>6. s1.disk = u /\ s1.before = s.before /\ s1.last = s.last /\ IsState(s1)
  BY <1>4, <1>5 DEF IsState
<1>7. Keeps(s.disk, u) /\ u \in Disks
  BY <1>2, <1>3, <1>5, RecoverKeeps DEF Keeps
<1>8. Clean(t) => Right(u)
  BY <1>2, <1>3, <1>5, RecoverRight, CleanBefore
<1>9. ASSUME NEW i, LastInstall(l, i), Unchanged(l, i),
             ~Staging(s.before, l[i]) PROVE u \in Settled(s.before, l[i], DroppedTo(l[i]))
  <2>1. s.disk \in Settled(s.before, l[i], DroppedTo(l[i])) /\ Given(s.before, l[i])
    BY <1>5, <1>9 DEF InstallAt, MayInstall
  <2> QED
    BY <1>2, <1>3, <2>1, RecoverSettles
<1> QED
  BY <1>1, <1>2, <1>6, <1>7, <1>8, <1>9, OtherStep

(* An uninstall that did not fail leaves no file without an owner.          *)
LEMMA UninstallStep ==
    ASSUME NEW l, WindowsInv(l), NEW r \in Uninstalls, MayUninstall(After(l).disk, r), NEW t, t = Append(l, r)
    PROVE  WindowsInv(t)
<1>1. PICK s, s1 : s = After(l) /\ s1 = After(t)
  OBVIOUS
<1>2. l \in Seq(RootRecords) /\ r \in RootRecords /\ r.kind = "uninstall" /\ r.claim \in Claims
          /\ r.how \in {"done", "died", "failed"}
  BY DEF WindowsInv, RootRecords, Uninstalls
<1>3. PICK u : u = Uninstall(s.disk, r)
  OBVIOUS
<1>4. s1 = [s EXCEPT !.disk = u]
  BY <1>1, <1>2, <1>3, AfterCommand DEF Command
<1>5. s.disk \in Disks /\ (Clean(l) => Right(s.disk)) /\ IsState(s)
  BY <1>1 DEF WindowsInv
<1>6. s1.disk = u /\ s1.before = s.before /\ s1.last = s.last /\ IsState(s1)
  BY <1>4, <1>5 DEF IsState
<1>7. s.disk.journal = NoJournal /\ r.stop \in 0 .. Len(UninstallEffects(s.disk, r.claim)) - 1
  BY <1>1 DEF MayUninstall
<1>8. Keeps(s.disk, u) /\ u.journal = NoJournal /\ (r.how # "failed" /\ Proper(s.disk) => Proper(u))
  BY <1>2, <1>3, <1>5, <1>7, UninstallIs
<1>9. Clean(t) => Right(u)
  BY <1>2, <1>5, <1>7, <1>8, CleanBefore DEF Right
<1>10. u \in Disks
  BY <1>8 DEF Keeps
<1> QED
  BY <1>1, <1>2, <1>6, <1>8, <1>9, <1>10, OtherStep

(* The undoing of a group's install puts every file back, if nothing came   *)
(* after.                                                                   *)
LEMMA UndoStep ==
    ASSUME NEW l, WindowsInv(l), MayUndo(l), NEW t, t = Append(l, Undo)
    PROVE  WindowsInv(t)
<1>1. PICK s, s1, r : s = After(l) /\ s1 = After(t) /\ r = Undo
  OBVIOUS
<1>2. l \in Seq(RootRecords) /\ r \in RootRecords /\ r.kind = "undo"
  BY <1>1 DEF WindowsInv, RootRecords, Undo
<1>3. PICK u : u = RestoreCheckpoint(s.disk, s.before, s.last)
  OBVIOUS
<1>4. s1 = [s EXCEPT !.disk = u]
  BY <1>1, <1>2, <1>3, AfterCommand DEF Command
<1>5. s.disk \in Disks /\ IsState(s) /\ \A i : LastInstall(l, i) => InstallAt(l, i, s)
  BY <1>1 DEF WindowsInv
<1>6. s1.disk = u /\ s1.before = s.before /\ s1.last = s.last /\ IsState(s1)
  BY <1>4, <1>5 DEF IsState
<1>7. PICK n \in Nat : n = Len(l)
  BY <1>2
<1>8. PICK j \in 1 .. n : l[j].kind = "install" /\ l[j].how = "done" /\ \A k \in (j + 1) .. n : l[k].kind = "edit"
  BY <1>7 DEF MayUndo
<1>9. LastInstall(l, j)
  BY <1>7, <1>8 DEF LastInstall
<1>10. /\ s.last = l[j] /\ Given(s.before, l[j]) /\ s.before \in Disks /\ s.before.journal = NoJournal
       /\ (j = n => s.disk \in Through(s.before, l[j], 4)) /\ (Clean(l) => Proper(s.before))
  BY <1>5, <1>7, <1>8, <1>9 DEF InstallAt, MayInstall, Given
<1>11. /\ u \in Disks /\ u.manifest = s.before.manifest /\ u.journal = s.disk.journal
       /\ s.disk \in Through(s.before, l[j], 4) => \A p \in Paths : u.live[p] = s.before.live[p]
  BY <1>3, <1>5, <1>10, RestoreIs
<1>12. ASSUME j = n PROVE u \in Back(s.before, l[j]) /\ (Clean(l) => Right(u))
  <2>1. s.disk \in Through(s.before, l[j], 4)
    BY <1>10, <1>12
  <2>2. u.journal = NoJournal /\ \A p \in Paths : u.live[p] = s.before.live[p]
    BY <1>11, <2>1 DEF Through
  <2>3. u \in Back(s.before, l[j])
    BY <1>11, <2>2 DEF Back, Was
  <2>4. Proper(s.before) => Proper(u)
    BY <1>11, <2>2 DEF Proper
  <2> QED
    BY <1>10, <2>2, <2>3, <2>4 DEF Right
<1>13. j # n => n \in (j + 1) .. n /\ n \in 1 .. Len(l) /\ l[n].kind = "edit"
  BY <1>7, <1>8
<1>14. Clean(t) => Clean(l) /\ j = n
  <2>1. Clean(t) => Clean(l) /\ ~Edited(l)
    BY <1>1, <1>2, CleanBefore
  <2> QED
    BY <1>13, <2>1 DEF Edited
<1>15. ASSUME NEW i, LastInstall(l, i), Unchanged(l, i) PROVE u \in Settled(s.before, l[i], DroppedTo(l[i]))
  <2>1. i \in 1 .. n /\ l[i].kind = "install" /\ \A k \in (i + 1) .. n : l[k].kind \in {"recover", "undo"}
            /\ l[k].kind # "install"
    BY <1>7, <1>15 DEF LastInstall, Unchanged
  <2>2. ~(j > i) /\ ~(i > j)
    <3>1. j > i => j \in (i + 1) .. n
      BY <1>8, <2>1
    <3>2. i > j => i \in (j + 1) .. n
      BY <1>8, <2>1
    <3> QED
      BY <1>8, <2>1, <3>1, <3>2
  <2>3. i = j /\ j = n
    <3>1. i = j
      BY <1>8, <2>1, <2>2
    <3>2. j # n => n \in (i + 1) .. n
      BY <1>13, <3>1
    <3> QED
      BY <1>13, <2>1, <3>1, <3>2
  <2> QED
    BY <1>12, <2>3 DEF Settled
<1>16. s1.disk \in Disks /\ (Clean(t) => Right(s1.disk)) /\ r.kind # "install" /\ r.kind \in {"undo", "edit"}
  BY <1>2, <1>6, <1>11, <1>12, <1>14
<1>17. \A i : LastInstall(l, i) /\ Unchanged(l, i) /\ ~Staging(s.before, l[i])
           => s1.disk \in Settled(s.before, l[i], DroppedTo(l[i]))
  BY <1>6, <1>15
<1> QED
  BY <1>1, <1>2, <1>6, <1>16, <1>17, OtherStep

(* An install is settled wherever it stopped, and one that was done is      *)
(* verified.                                                                *)
LEMMA InstallStep ==
    ASSUME NEW l, WindowsInv(l), NEW r \in RootRecords, r \in Installs, MayInstall(After(l).disk, r), NEW t,
           t = Append(l, r)
    PROVE  WindowsInv(t)
<1>1. PICK s, s1 : s = After(l) /\ s1 = After(t)
  OBVIOUS
<1>2. l \in Seq(RootRecords) /\ r \in RootRecords /\ r.kind = "install" /\ r.how \in {"done", "died", "failed"}
  BY DEF WindowsInv, RootRecords, Installs
<1>3. PICK b, u : b = s.disk /\ u = Install(b, r)
  OBVIOUS
<1>4. s1 = [disk |-> u, before |-> b, last |-> r]
  BY <1>1, <1>2, <1>3, AfterCommand DEF Command
<1>5. b \in Disks /\ (Clean(l) => Right(b)) /\ MayInstall(b, r)
  BY <1>1, <1>3 DEF WindowsInv
<1>6. s1.disk = u /\ s1.before = b /\ s1.last = r /\ IsState(s1)
  BY <1>4 DEF IsState
<1>7. /\ u \in Disks /\ Keeps(b, u)
      /\ r.how = "done" => u \in Through(b, r, 4)
      /\ r.how = "died" => u \in Settled(b, r, 4)
      /\ r.how = "failed" /\ ~Staging(b, r) => u \in Settled(b, r, 0)
  BY <1>3, <1>5, InstallIs DEF MayInstall
<1>8. Given(b, r) /\ b.journal = NoJournal
  BY <1>5 DEF MayInstall, Given
<1>9. ~Staging(b, r) => u \in Settled(b, r, DroppedTo(r))
  BY <1>2, <1>7 DEF Settled, DroppedTo
<1>10. Clean(t) => Clean(l) /\ r.how # "failed"
  BY <1>2, CleanBefore
<1>11. Clean(l) => Proper(b)
  BY <1>5, <1>8 DEF Right
<1>12. Clean(t) => Right(u)
  <2>1. r.how # "failed" => u \in Settled(b, r, 4)
    BY <1>2, <1>7 DEF Settled
  <2> QED
    BY <1>8, <1>10, <1>11, <2>1, InstallRight
<1>13. PICK n : n = Len(l) /\ n \in Nat
  BY <1>2
<1>14. /\ t \in Seq(RootRecords) /\ Len(t) = n + 1 /\ t[n + 1] = r
       /\ t # <<>> /\ Last(t) = r
  <2>1. l \in Seq(RootRecords) /\ r \in RootRecords /\ t = Append(l, r) /\ n \in Nat /\ n = Len(l)
    BY <1>2, <1>13
  <2>2. t \in Seq(RootRecords) /\ Len(t) = n + 1 /\ t[n + 1] = r
    BY <2>1, OneMore
  <2>3. t # <<>>
    BY <2>2
  <2>4. Last(t) = r
    BY <2>2 DEF Last
  <2> QED
    BY <2>2, <2>3, <2>4
<1>15. ASSUME NEW i, LastInstall(t, i) PROVE InstallAt(t, i, s1)
  <2>1. i = n + 1 /\ t[i] = r
    BY <1>2, <1>13, <1>14, <1>15, LastBefore
  <2> QED
    BY <1>5, <1>6, <1>7, <1>9, <1>10, <1>11, <2>1 DEF InstallAt
<1>16. UserFileIsNotRemoved(t)
  BY <1>1, <1>2, <1>3, <1>6, <1>7, PromisesKept
<1>17. InstallRepairs(t)
  <2>1. SUFFICES ASSUME r.how = "done", \A c \in Claims : u.manifest.release[c] # 0
                        => Files(c, r.release) \subseteq Files(r.claim, r.release)
                 PROVE  Verify(u, r.release)
    BY <1>1, <1>6, <1>14 DEF InstallRepairs
  <2> QED
    BY <1>7, <1>8, <2>1, InstallVerifies DEF Of
<1> QED
  BY <1>1, <1>6, <1>7, <1>12, <1>14, <1>15, <1>16, <1>17 DEF WindowsInv

(* What the log is at first, and what each record leaves of it.             *)
LEMMA WindowsInit == WindowsInv(<<>>)
<1>1. PICK s, l : s = After(l) /\ l = <<>>
  OBVIOUS
<1>2. s = [disk |-> Start, before |-> Start, last |-> [kind |-> "none"]]
  BY <1>1, AfterNone
<1>3. s.disk = Start /\ IsState(s)
  BY <1>2 DEF IsState
<1>4. s.disk \in Disks /\ Right(s.disk)
  BY <1>3, StartIs DEF Right, Proper, Fits
<1>5. l \in Seq(RootRecords) /\ Len(l) = 0
  BY <1>1
<1>6. \A i : ~LastInstall(l, i)
  BY <1>5 DEF LastInstall
<1>7. UserFileIsNotRemoved(l) /\ InstallRepairs(l)
  BY <1>1 DEF UserFileIsNotRemoved, InstallRepairs
<1> QED
  BY <1>1, <1>3, <1>4, <1>5, <1>6, <1>7 DEF WindowsInv

(* Each record keeps the invariant.                                         *)
LEMMA WindowsStep ==
    ASSUME NEW l, WindowsInv(l), NEW r \in NextRecords(l), NEW t, t = Append(l, r)
    PROVE  WindowsInv(t)
<1>1. l \in Seq(RootRecords) /\ After(l).disk \in Disks
  BY DEF WindowsInv
<1>2. \/ r \in Edits
      \/ r \in Recovers
      \/ r \in Installs /\ MayInstall(After(l).disk, r)
      \/ r \in Uninstalls /\ MayUninstall(After(l).disk, r)
      \/ r = Undo /\ MayUndo(l)
  BY <1>1, NextIs
<1>3. CASE r \in Edits
  BY <1>3, EditStep
<1>4. CASE r \in Recovers
  BY <1>4, RecoverStep
<1>5. CASE r \in Installs /\ MayInstall(After(l).disk, r)
  BY <1>5, InstallStep DEF RootRecords
<1>6. CASE r \in Uninstalls /\ MayUninstall(After(l).disk, r)
  BY <1>6, UninstallStep
<1>7. CASE r = Undo /\ MayUndo(l)
  BY <1>7, UndoStep
<1> QED
  BY <1>2, <1>3, <1>4, <1>5, <1>6, <1>7

(* Recovery brings a settled install back or through, and through is what   *)
(* an install that nothing stops makes.                                     *)
BackOrWhole(b, r, w, d) ==
    /\ d.journal = NoJournal
    /\ \/ d.manifest = b.manifest /\ \A p \in Paths \ Gone(b, r) : d.live[p] = b.live[p]
       \/ d.manifest = w.manifest /\ \A p \in Paths : d.live[p] = w.live[p] \/ (r.how = "failed" /\ p \in Gone(b, r))

(* An install with recovery after it is as if it never was, or whole.       *)
LEMMA RecoveredIs ==
    ASSUME NEW b, NEW r, MayInstall(b, r), NEW u \in Settled(b, r, DroppedTo(r)), NEW d,
           d = Recover(u, Paths, FALSE),
           NEW w, w = Install(b, [r EXCEPT !.how = "done"])
    PROVE  BackOrWhole(b, r, w, d)
<1>1. Given(b, r) /\ r \in Installs
  BY DEF MayInstall, Given
<1>2. d \in Back(b, r) \cup Through(b, r, DroppedTo(r))
  BY <1>1, RecoverSettles
<1>3. PICK r1 : r1 = [r EXCEPT !.how = "done"]
  OBVIOUS
<1>4. r1 \in Installs /\ r1.claim = r.claim /\ r1.release = r.release /\ r1.stop = r.stop /\ r1.how = "done"
  BY <1>1, <1>3 DEF Installs
<1>5. PICK q : q = InstallEffects(b, r1.claim, r1.release)
  OBVIOUS
<1>6. Given(b, r1) /\ r1.stop \in 0 .. Len(q) - 1
  BY <1>1, <1>4, <1>5 DEF MayInstall, Given
<1>7. w = Install(b, r1)
  BY <1>3
<1>8. w \in Through(b, r1, 4)
  BY <1>4, <1>5, <1>6, <1>7, InstallIs
<1>9. Of(r1) = Of(r) /\ Target(b, r1) = Target(b, r) /\ Gone(b, r1) = Gone(b, r)
  BY <1>4 DEF Of, Target, Gone
<1>10. CASE d \in Back(b, r)
  BY <1>10 DEF Back, Was, BackOrWhole
<1>11. CASE d \in Through(b, r, DroppedTo(r))
  <2>1. d.journal = NoJournal /\ d.manifest = Target(b, r)
            /\ \A p \in Paths : MadeAt(b, r, DroppedTo(r), d, p)
    BY <1>11 DEF Through, Made
  <2>2. w.manifest = Target(b, r) /\ \A p \in Paths : MadeAt(b, r1, 4, w, p)
    BY <1>8, <1>9 DEF Through, Made
  <2>3. ASSUME NEW p \in Paths PROVE d.live[p] = w.live[p] \/ (r.how = "failed" /\ p \in Gone(b, r))
    <3>1. MadeAt(b, r, DroppedTo(r), d, p) /\ MadeAt(b, r1, 4, w, p)
      BY <2>1, <2>2, <2>3
    <3>2. p <= 4
      BY DEF Paths
    <3>3. CASE p \in Of(r)
      BY <1>4, <1>9, <3>1, <3>3 DEF MadeAt
    <3>4. CASE p \notin Of(r)
      BY <1>9, <3>1, <3>4, <3>2 DEF MadeAt, Was, DroppedTo
    <3> QED
      BY <3>3, <3>4
  <2> QED
    BY <2>1, <2>2, <2>3 DEF BackOrWhole
<1> QED
  BY <1>2, <1>10, <1>11

(* The invariant implies what the Windows installer promises.               *)
LEMMA WindowsPromise ==
    ASSUME NEW l, WindowsInv(l)
    PROVE  /\ InstallIsAllOrNothing(l) /\ UserFileIsNotRemoved(l)
           /\ NothingLeftOwnerless(l) /\ InstallRepairs(l)
<1>1. PICK s : s = After(l)
  OBVIOUS
<1>2. l \in Seq(RootRecords) /\ (\A i : LastInstall(l, i) => InstallAt(l, i, s)) /\ (Clean(l) => Right(s.disk))
  BY <1>1 DEF WindowsInv
<1>3. UserFileIsNotRemoved(l) /\ InstallRepairs(l)
  BY DEF WindowsInv
<1>4. InstallIsAllOrNothing(l)
  <2>1. PICK i : i = SelectLastInSeq(l, LAMBDA r : r.kind = "install")
    OBVIOUS
  <2>2. ASSUME i # 0, \A k \in (i + 1) .. Len(l) : l[k].kind \in {"recover", "undo"}, ~Staging(s.before, l[i])
        PROVE  BackOrWhole(s.before, l[i], Install(s.before, [l[i] EXCEPT !.how = "done"]),
                   Recover(s.disk, Paths, FALSE))
    <3>1. LastInstall(l, i)
      BY <1>2, <2>1, <2>2, LastInstallIs
    <3>2. InstallAt(l, i, s) /\ Unchanged(l, i)
      BY <1>2, <2>2, <3>1 DEF Unchanged
    <3>3. MayInstall(s.before, l[i]) /\ s.disk \in Settled(s.before, l[i], DroppedTo(l[i]))
      BY <2>2, <3>2 DEF InstallAt
    <3> QED
      BY <3>3, RecoveredIs
  <2>3. i # 0 /\ (\A k \in (i + 1) .. Len(l) : l[k].kind \in {"recover", "undo"}) /\ ~Staging(s.before, l[i])
           => BackOrWhole(s.before, l[i], Install(s.before, [l[i] EXCEPT !.how = "done"]),
               Recover(s.disk, Paths, FALSE))
    BY <2>2
  <2> QED
    BY <1>1, <2>1, <2>3 DEF InstallIsAllOrNothing, BackOrWhole, Gone, Target
<1>5. NothingLeftOwnerless(l)
  <2>1. ASSUME s.disk.journal = NoJournal, \A i \in DOMAIN l : Faulty(l[i]) => l[i].how # "failed",
               {"edit", "undo"} \cap {l[i].kind : i \in DOMAIN l} # {"edit", "undo"}
        PROVE  \A p \in Paths : s.disk.live[p] \notin {Absent, User}
                   => s.disk.manifest.owners[p] # {}
    <3>1. DOMAIN l = 1 .. Len(l)
      BY <1>2
    <3>2. ~Failing(l)
      BY <2>1, <3>1 DEF Failing, Faulty
    <3>3. ~(Edited(l) /\ Undid(l))
      BY <2>1, <3>1 DEF Edited, Undid
    <3>4. Proper(s.disk)
      BY <1>2, <2>1, <3>2, <3>3 DEF Clean, Right
    <3> QED
      BY <3>4 DEF Proper, Fits, Absent, User
  <2> QED
    BY <1>1, <2>1 DEF NothingLeftOwnerless
<1> QED
  BY <1>3, <1>4, <1>5
=============================================================================
