----------------------------- MODULE MultiTarget -----------------------------
(***************************************************************************)
(* install_multi_targets: one process installs a bundle for several hosts  *)
(* into several roots.  It locks the roots in canonical order, installs    *)
(* one root after the other while it holds all the locks, and, when one    *)
(* install fails, restores the roots already done from checkpoints that    *)
(* live only in its own memory.                                            *)
(*                                                                         *)
(* The install of one root is the atomic step that InstallTxn implements,  *)
(* or fails: with its payload rolled back, or with a journal left behind   *)
(* (left[r]), because the rollback failed too or the process died.         *)
(***************************************************************************)
EXTENDS Ownership, Sequences, FiniteSetsExt

CONSTANTS
    Roots,              \* number of skill roots
    Proc, Nobody,
    Request,            \* requests [bundle, targets]: targets are <<claim, root>>
    FaultPhase, CrashPhase,     \* where errors and crashes strike
    MaxGen, MaxEdits, MaxFaults, MaxCrashes      \* bounds of a run

(* In the order of sorted(physical keys). *)
Root == 1 .. Roots

ASSUME RequestAssumption ==
    /\ Roots \in Nat
    /\ Request \subseteq [bundle : Bundle, targets : (SUBSET (Claim \X Root)) \ {{}}]
    /\ Nobody \notin Proc

VARIABLES
    live, manifest,     \* payload and manifest of each root
    left,               \* journal an install left in each root, or NoJournal
    lock,               \* holder of each root's flock
    pc,
    mem,                \* each process's request, what is left of it, checkpoints
    edited,             \* history: <<root, file>> users edited since somebody locked it
    spent

vars == <<live, manifest, left, lock, pc, mem, edited, spent>>
roots == <<live, manifest, left>>

NoJournal == [paths |-> {}, saved |-> {}, orig |-> [f \in Path |-> Absent],
              new |-> [f \in Path |-> Absent]]

(* start is history: the roots as the process found them, all locked.     *)
NoMem == [bundle |-> CHOOSE b \in Bundle : TRUE, targets |-> {}, todo |-> {},
          cps |-> <<>>, files |-> {}, gone |-> {}, failed |-> FALSE, outcome |-> "ok",
          start |-> <<>>]

RootsOf(ts) == {t[2] : t \in ts}

Held(p) == {r \in Root : lock[r] = p}

Goto(p, ph) == pc' = [pc EXCEPT ![p] = ph]

(* n errors strike p where it is. *)
Fault(p, n) == /\ pc[p] \in FaultPhase
               /\ spent.faults + n <= MaxFaults
               /\ spent' = [spent EXCEPT !.faults = @ + n]

Init ==
    /\ live \in [Root -> [Path -> UserData \cup {Absent}]]
    /\ manifest = [r \in Root |-> NoManifest]
    /\ left = [r \in Root |-> NoJournal]
    /\ lock = [r \in Root |-> Nobody]
    /\ pc = [p \in Proc |-> "idle"]
    /\ mem = [p \in Proc |-> NoMem]
    /\ edited = {}
    /\ spent = [edits |-> 0, faults |-> 0, crashes |-> 0]

-----------------------------------------------------------------------------
(* Plans. *)

(* _requires_coordinated_upgrade: somebody owns the root with another      *)
(* release or another package than the one requested.                      *)
Coordinated(m, b) ==
    \E d \in m.claims : \/ m.release # b.release
                        \/ \E f \in Path : b.files[f] #
                               IF d \in m.owner[f] THEN m.sha[f] ELSE Absent

(* _plan_coordinated_group: every claim on the root moves at once.         *)
WithGroup(m, cs, b) ==
    [gen |-> m.gen + 1, release |-> b.release, claims |-> cs,
     owner |-> [f \in Path |-> IF f \in Files(b) THEN cs ELSE {}],
     sha |-> b.files]

Unconflicted(r, b) ==
    \A f \in Files(b) : Classify(manifest[r], f, live[r][f], b.files[f], FALSE) # "conflict"

(* The manifests that can be published next in root r for the claims cs    *)
(* that still want b there, with the claims each one serves: all of them   *)
(* together, or one by one, owners first.                                  *)
Plans(r, cs, b) ==
    LET m == manifest[r]
        owners == cs \cap m.claims
    IN  IF ~Unconflicted(r, b) THEN {}
        ELSE IF Coordinated(m, b)
             THEN IF m.claims \subseteq cs
                  THEN {[claims |-> cs, manifest |-> WithGroup(m, cs, b)]}
                  ELSE {}
             ELSE {[claims |-> {c}, manifest |-> WithClaim(m, c, b)] :
                      c \in {d \in IF owners # {} THEN owners ELSE cs : Plannable(m, d, b)}}

Wanting(ts, r) == {t[1] : t \in {u \in ts : u[2] = r}}

(* The advisory preflight runs without locks. *)
Ask(p, q) ==
    /\ pc[p] = "idle"
    /\ \A r \in RootsOf(q.targets) : /\ manifest[r].gen < MaxGen
                                     /\ Plans(r, Wanting(q.targets, r), q.bundle) # {}
    /\ mem' = [mem EXCEPT ![p] = [NoMem EXCEPT !.bundle = q.bundle,
                                              !.targets = q.targets, !.todo = q.targets]]
    /\ Goto(p, "locking")
    /\ UNCHANGED <<roots, lock, edited, spent>>

-----------------------------------------------------------------------------
(* Locks. *)

Unlocked(p) == RootsOf(mem[p].targets) \ Held(p)

(* Mutant: the roots are locked in the order the caller gave them. *)
WantsAny(p) == Unlocked(p)

Wants(p) == IF Unlocked(p) = {} THEN {} ELSE {Min(Unlocked(p))}

LockRoot(p, r) ==
    /\ pc[p] = "locking"
    /\ r \in Wants(p)
    /\ lock[r] = Nobody
    /\ lock' = [lock EXCEPT ![r] = p]
    /\ edited' = {e \in edited : e[1] # r}
    /\ UNCHANGED <<roots, pc, mem, spent>>

(* E_INSTALL_BUSY at the deadline. *)
LockTimeout(p) ==
    /\ pc[p] = "locking"
    /\ \E r \in Wants(p) : lock[r] # Nobody
    /\ mem' = [mem EXCEPT ![p].outcome = "error"]
    /\ Goto(p, "release")
    /\ UNCHANGED <<roots, lock, edited, spent>>

(* With every lock held, a journal in any of the roots stops the command. *)
LocksHeld(p) ==
    /\ pc[p] = "locking"
    /\ Unlocked(p) = {}
    /\ IF \A r \in Held(p) : left[r] = NoJournal
       THEN /\ Goto(p, "install")
            /\ mem' = [mem EXCEPT ![p].start = [live |-> live, manifest |-> manifest]]
       ELSE /\ Goto(p, "release")
            /\ mem' = [mem EXCEPT ![p].outcome = "error"]
    /\ UNCHANGED <<roots, lock, edited, spent>>

-----------------------------------------------------------------------------
(* Installing one root after the other. *)

NextRoot(p) == Min(RootsOf(mem[p].todo))

PlansNow(p) == Plans(NextRoot(p), Wanting(mem[p].todo, NextRoot(p)), mem[p].bundle)

(* Mutant: files the root owns and the plan does not write are forgotten. *)
CheckpointPlanned(r, b, new) ==
    [root |-> r, files |-> Files(b), live |-> live[r],
     manifest |-> manifest[r], new |-> new, bundle |-> b]

(* capture_install_checkpoint: what the plan may touch in root r. *)
Checkpoint(r, b, new) ==
    [root |-> r, files |-> Files(b) \cup Owned(manifest[r]), live |-> live[r],
     manifest |-> manifest[r], new |-> new, bundle |-> b]

InstallRoot(p) ==
    /\ pc[p] = "install"
    /\ mem[p].todo # {}
    /\ \E plan \in PlansNow(p) :
         LET r == NextRoot(p)
             b == mem[p].bundle
         IN  /\ left[r] = NoJournal
             /\ live' = [live EXCEPT ![r] = PayloadAfter(manifest[r], plan.manifest, @, b)]
             /\ manifest' = [manifest EXCEPT ![r] = plan.manifest]
             /\ mem' = [mem EXCEPT
                    ![p].todo = {t \in @ : ~(t[2] = r /\ t[1] \in plan.claims)},
                    ![p].cps  = Append(@, Checkpoint(r, b, plan.manifest))]
    /\ UNCHANGED <<left, lock, pc, edited, spent>>

AllInstalled(p) ==
    /\ pc[p] = "install"
    /\ mem[p].todo = {}
    /\ Goto(p, "release")
    /\ UNCHANGED <<roots, lock, mem, edited, spent>>

(* The install of root r stopped half way and is not undone: the files     *)
(* changed hold new bytes; the journal lists every file that was not       *)
(* merely retained, and has snapshots of those not yet put back.           *)
Interrupted(r, b) ==
    LET different == {f \in Files(b) : live[r][f] # b.files[f]}
        existing  == {f \in Files(b) : live[r][f] # Absent}
    IN  \E listed \in SUBSET Files(b), changed \in SUBSET different :
          /\ different \subseteq listed
          /\ listed # {}
          /\ \E saved \in SUBSET (listed \cap existing) :
               /\ changed \cap existing \subseteq saved
               /\ left' = [left EXCEPT ![r] = [paths |-> listed, saved |-> saved,
                                               orig |-> live[r], new |-> b.files]]
          /\ live' = [live EXCEPT ![r] = [f \in Path |->
                 IF f \in changed THEN b.files[f] ELSE @[f]]]

StartUndo(p) ==
    /\ mem' = [mem EXCEPT ![p].outcome = "error"]
    /\ Goto(p, "undo")

(* The replanning under the lock refuses, or the install fails and its own *)
(* rollback succeeds.                                                      *)
InstallFails(p) ==
    /\ pc[p] = "install"
    /\ mem[p].todo # {}
    /\ \/ PlansNow(p) = {} /\ UNCHANGED spent
       \/ PlansNow(p) # {} /\ Fault(p, 1)
    /\ StartUndo(p)
    /\ UNCHANGED <<roots, lock, edited>>

InstallBreaks(p) ==
    /\ pc[p] = "install"
    /\ mem[p].todo # {}
    /\ PlansNow(p) # {}
    /\ Fault(p, 2)
    /\ Interrupted(NextRoot(p), mem[p].bundle)
    /\ StartUndo(p)
    /\ UNCHANGED <<manifest, lock, edited>>

-----------------------------------------------------------------------------
(* Compensation: newest checkpoint first, under the locks. *)

Top(p) == mem[p].cps[Len(mem[p].cps)]

Popped(p) == [mem[p] EXCEPT !.cps = SubSeq(@, 1, Len(@) - 1), !.files = {}, !.gone = {}]

(* The newest checkpoint is given up, older ones are still tried. *)
GiveUp(p) ==
    /\ mem' = [mem EXCEPT ![p] = [Popped(p) EXCEPT !.failed = TRUE]]
    /\ Goto(p, "undo")

(* Mutant: the manifest is not among the files of a checkpoint. *)
RestorePayloadOnly(p) ==
    /\ pc[p] = "undo"
    /\ mem[p].cps # <<>>
    /\ mem' = [mem EXCEPT ![p].files = Top(p).files, ![p].gone = {}]
    /\ Goto(p, "restore")
    /\ UNCHANGED <<roots, lock, edited, spent>>

ManifestAllowed(p) ==
    /\ pc[p] = "undo"
    /\ mem[p].cps # <<>>
    /\ manifest[Top(p).root] \in {Top(p).manifest, Top(p).new}

(* The manifest's path sorts before the payload's. *)
RestoreManifest(p) ==
    /\ ManifestAllowed(p)
    /\ manifest' = [manifest EXCEPT ![Top(p).root] = Top(p).manifest]
    /\ mem' = [mem EXCEPT ![p].files = Top(p).files, ![p].gone = {}]
    /\ Goto(p, "restore")
    /\ UNCHANGED <<live, left, lock, edited, spent>>

(* The old manifest is unlinked, and the one to be restored not written.   *)
ManifestLost(p) ==
    /\ ManifestAllowed(p)
    /\ Fault(p, 1)
    /\ manifest' = [manifest EXCEPT ![Top(p).root] = NoManifest]
    /\ GiveUp(p)
    /\ UNCHANGED <<live, left, lock, edited>>

(* Mutant: unknown bytes are replaced by the checkpoint's all the same. *)
AllowedAnything(cp, f) == Leaf

(* Bytes the transaction may meet at file f of checkpoint cp. *)
Allowed(cp, f) == {cp.live[f], cp.bundle.files[f], Absent}

(* Checked by digest and unlinked, whatever it is that will be written.    *)
RestoreFile(p, f) ==
    /\ pc[p] = "restore"
    /\ f \in mem[p].files
    /\ mem[p].gone = {}
    /\ live[Top(p).root][f] \in Allowed(Top(p), f)
    /\ live' = [live EXCEPT ![Top(p).root][f] = Absent]
    /\ mem' = IF Top(p).live[f] = Absent
              THEN [mem EXCEPT ![p].files = @ \ {f}]
              ELSE [mem EXCEPT ![p].gone = {f}]
    /\ UNCHANGED <<manifest, left, lock, pc, edited, spent>>

(* Written anew, where nothing is (O_EXCL). *)
WriteBack(p, f) ==
    /\ pc[p] = "restore"
    /\ f \in mem[p].gone
    /\ live[Top(p).root][f] = Absent
    /\ live' = [live EXCEPT ![Top(p).root][f] = Top(p).live[f]]
    /\ mem' = [mem EXCEPT ![p].files = @ \ {f}, ![p].gone = @ \ {f}]
    /\ UNCHANGED <<manifest, left, lock, pc, edited, spent>>

(* Mutant: the next checkpoint is taken up without asking for one. *)
CheckpointRestoredOn(p) ==
    /\ pc[p] = "restore"
    /\ mem[p].files = {}
    /\ mem[p].gone = {}
    /\ mem' = [mem EXCEPT ![p] = Popped(p)]
    /\ UNCHANGED <<roots, lock, pc, edited, spent>>

CheckpointRestored(p) ==
    /\ pc[p] = "restore"
    /\ mem[p].files = {}
    /\ mem[p].gone = {}
    /\ mem' = [mem EXCEPT ![p] = Popped(p)]
    /\ Goto(p, "undo")
    /\ UNCHANGED <<roots, lock, edited, spent>>

(* The manifest, or a file still to be unlinked, is not one of those the   *)
(* transaction knows, or there is something again where one was unlinked.  *)
Obstructed(p) ==
    IF pc[p] = "undo"
    THEN ~ManifestAllowed(p)
    ELSE IF mem[p].gone = {}
         THEN \E f \in mem[p].files : live[Top(p).root][f] \notin Allowed(Top(p), f)
         ELSE \E f \in mem[p].gone : live[Top(p).root][f] # Absent

(* Mutant: a checkpoint that could not be restored is not reported. *)
CheckpointFailsQuietly(p) ==
    /\ pc[p] = "restore"
    /\ Obstructed(p)
    /\ mem' = [mem EXCEPT ![p] = Popped(p)]
    /\ Goto(p, "undo")
    /\ UNCHANGED <<roots, lock, edited, spent>>

(* A file that was unlinked and not written anew stays away: the snapshots *)
(* go when the command returns (discard_install_checkpoint).               *)
CheckpointFails(p) ==
    /\ pc[p] \in {"undo", "restore"}
    /\ mem[p].cps # <<>>
    /\ \/ Obstructed(p) /\ UNCHANGED spent
       \/ Fault(p, 1)
    /\ GiveUp(p)
    /\ UNCHANGED <<roots, lock, edited>>

UndoDone(p) ==
    /\ pc[p] = "undo"
    /\ mem[p].cps = <<>>
    /\ mem' = [mem EXCEPT ![p].outcome = IF mem[p].failed THEN "recovery" ELSE "error"]
    /\ Goto(p, "release")
    /\ UNCHANGED <<roots, lock, edited, spent>>

Unlock(p) ==
    /\ pc[p] = "release"
    /\ Held(p) # {}
    /\ lock' = [lock EXCEPT ![Max(Held(p))] = Nobody]
    /\ UNCHANGED <<roots, pc, mem, edited, spent>>

Return(p) ==
    /\ pc[p] = "release"
    /\ Held(p) = {}
    /\ Goto(p, "idle")
    /\ mem' = [mem EXCEPT ![p] = NoMem]
    /\ UNCHANGED <<roots, lock, edited, spent>>

-----------------------------------------------------------------------------
(* Crashes, the other commands, users. *)

(* The process dies, in the middle of an install, between unlinking and    *)
(* rewriting the manifest of a checkpoint, or elsewhere: its locks and its *)
(* checkpoints go.                                                         *)
Crash(p) ==
    /\ pc[p] \in CrashPhase
    /\ spent.crashes < MaxCrashes
    /\ spent' = [spent EXCEPT !.crashes = @ + 1]
    /\ \/ UNCHANGED roots
       \/ /\ pc[p] = "install"
          /\ mem[p].todo # {}
          /\ PlansNow(p) # {}
          /\ Interrupted(NextRoot(p), mem[p].bundle)
          /\ UNCHANGED manifest
       \/ /\ ManifestAllowed(p)
          /\ manifest' = [manifest EXCEPT ![Top(p).root] = NoManifest]
          /\ UNCHANGED <<live, left>>
    /\ lock' = [r \in Root |-> IF lock[r] = p THEN Nobody ELSE lock[r]]
    /\ mem' = [mem EXCEPT ![p] = NoMem]
    /\ Goto(p, "idle")
    /\ UNCHANGED edited

(* recover_root, the journal not being that of a published generation. *)
Recover(r) ==
    LET j == left[r]
        back(f) == IF f \in j.saved \/ (j.orig[f] = Absent /\ live[r][f] = j.new[f])
                   THEN j.orig[f] ELSE live[r][f]
    IN  /\ lock[r] = Nobody
        /\ j # NoJournal
        /\ live' = [live EXCEPT ![r] = [f \in Path |-> IF f \in j.paths THEN back(f) ELSE @[f]]]
        /\ left' = [left EXCEPT ![r] = IF \A f \in j.paths : back(f) = j.orig[f]
                                      THEN NoJournal ELSE [j EXCEPT !.saved = {}]]
        /\ UNCHANGED <<manifest, lock, pc, mem, edited, spent>>

Uninstall(r, c) ==
    /\ lock[r] = Nobody
    /\ left[r] = NoJournal
    /\ c \in manifest[r].claims
    /\ manifest' = [manifest EXCEPT ![r] = WithoutClaim(@, c)]
    /\ live' = [live EXCEPT ![r] = [f \in Path |->
           IF f \in SoleOwned(manifest[r], c) /\ @[f] = manifest[r].sha[f]
           THEN Absent ELSE @[f]]]
    /\ UNCHANGED <<left, lock, pc, mem, edited, spent>>

UserEdit(r, f, d) ==
    /\ spent.edits < MaxEdits
    /\ live[r][f] # d
    /\ live' = [live EXCEPT ![r][f] = d]
    /\ edited' = IF lock[r] = Nobody THEN edited ELSE edited \cup {<<r, f>>}
    /\ spent' = [spent EXCEPT !.edits = @ + 1]
    /\ UNCHANGED <<manifest, left, lock, pc, mem>>

Step(p) ==
    \/ \E q \in Request : Ask(p, q)
    \/ \E r \in Root : LockRoot(p, r)
    \/ LockTimeout(p) \/ LocksHeld(p)
    \/ InstallRoot(p) \/ AllInstalled(p) \/ InstallFails(p) \/ InstallBreaks(p)
    \/ RestoreManifest(p) \/ ManifestLost(p)
    \/ \E f \in Path : RestoreFile(p, f) \/ WriteBack(p, f)
    \/ CheckpointRestored(p) \/ CheckpointFails(p) \/ UndoDone(p)
    \/ Unlock(p) \/ Return(p)
    \/ Crash(p)

Others ==
    \E r \in Root : \/ Recover(r)
                    \/ \E c \in Claim : Uninstall(r, c)
                    \/ \E f \in Path, d \in UserData \cup {Absent} : UserEdit(r, f, d)

Next == (\E p \in Proc : Step(p)) \/ Others

Spec == Init /\ [][Next]_vars

-----------------------------------------------------------------------------
(* Properties. *)

Journal == [paths : SUBSET Path, saved : SUBSET Path, orig : [Path -> Leaf],
            new : [Path -> Digest \cup {Absent}]]

CheckpointType == [root : Root, files : SUBSET Path, live : [Path -> Leaf],
                   manifest : Manifest, new : Manifest, bundle : Bundle]

Mem == [bundle : Bundle, targets : SUBSET (Claim \X Root), todo : SUBSET (Claim \X Root),
        cps : Seq(CheckpointType), files : SUBSET Path, gone : SUBSET Path, failed : BOOLEAN,
        outcome : {"ok", "error", "recovery"},
        start : {<<>>} \cup [live : [Root -> [Path -> Leaf]], manifest : [Root -> Manifest]]]

Spent == [edits : Nat, faults : Nat, crashes : Nat]

TypeOK ==
    /\ live \in [Root -> [Path -> Leaf]]
    /\ manifest \in [Root -> Manifest]
    /\ left \in [Root -> Journal]
    /\ lock \in [Root -> Proc \cup {Nobody}]
    /\ pc \in [Proc -> {"idle", "locking", "install", "undo", "restore", "release"}]
    /\ mem \in [Proc -> Mem]
    /\ edited \in SUBSET (Root \X Path)
    /\ spent \in Spent
    /\ \A p \in Proc : /\ mem[p].todo \subseteq mem[p].targets
                       /\ pc[p] = "restore" => mem[p].cps # <<>>

(* A process waits only for a root after all those it holds, in the order  *)
(* every process uses.                                                     *)
LocksInOrder ==
    \A p \in Proc : pc[p] = "locking" =>
        \A r \in Held(p), w \in Wants(p) : r < w

(* However many commands lock however many roots, and in whatever order    *)
(* their targets were given: in any set of processes one does not wait for *)
(* a lock held in that set.                                                *)
NoWaitCycle ==
    \A S \in (SUBSET Proc) \ {{}} :
        \E p \in S : \/ pc[p] # "locking"
                    \/ \A w \in Wants(p) : lock[w] \notin S

(* With all its locks still held, a command that succeeded has installed   *)
(* every target, and one that failed and did not ask for recovery has put  *)
(* every root back, but for files users changed and roots with a journal.  *)
AllOrNothing ==
    \A p \in Proc :
        (pc[p] = "release" /\ Held(p) = RootsOf(mem[p].targets)) =>
            /\ mem[p].outcome = "ok" =>
                 \A t \in mem[p].targets :
                     /\ t[1] \in manifest[t[2]].claims
                     /\ \A f \in Files(mem[p].bundle) :
                          /\ t[1] \in manifest[t[2]].owner[f]
                          /\ <<t[2], f>> \in edited \/ live[t[2]][f] = mem[p].bundle.files[f]
            /\ (mem[p].outcome = "error" /\ mem[p].start # <<>>) =>
                 \A r \in Held(p) :
                     /\ manifest[r] = mem[p].start.manifest[r]
                     /\ \A f \in Path : \/ left[r] # NoJournal
                                        \/ <<r, f>> \in edited
                                        \/ live[r][f] = mem[p].start.live[r][f]

(* The files of a root nobody works on are those its manifest lists: none  *)
(* missing or different, and none of the bundles' files beside them.       *)
RootConsistent ==
    \A r \in Root : (lock[r] = Nobody /\ left[r] = NoJournal) =>
        \A f \in Path : IF f \in Owned(manifest[r])
                       THEN live[r][f] = manifest[r].sha[f]
                       ELSE live[r][f] \notin Digest

(* While a command restores checkpoints, what a user wrote in its roots    *)
(* stays as it is, also what was written where a file had been unlinked;   *)
(* the bytes the checkpoint itself saw are only taken away to be written   *)
(* anew.  If they are not, that is reported, unless the process died.      *)
UndoKeepsUserData ==
    [][\A p \in Proc, r \in Root, f \in Path :
         pc[p] = "restore" =>
         /\ (lock[r] = p /\ live[r][f] \in UserData /\ spent'.edits = spent.edits) =>
               \/ live'[r][f] = live[r][f]
               \/ r = Top(p).root /\ live[r][f] = Top(p).live[f] /\ f \in mem'[p].gone
         /\ (f \in mem[p].gone /\ f \notin mem'[p].gone) =>
               \/ live'[Top(p).root][f] = Top(p).live[f]
               \/ mem'[p].failed
               \/ pc'[p] = "idle"]_vars
=============================================================================
