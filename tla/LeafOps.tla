------------------------------- MODULE LeafOps -------------------------------
(***************************************************************************)
(* The installer's and the reader's file primitives, system call by system *)
(* call, on one path (leaf) that users may write between any two calls:    *)
(*                                                                         *)
(*   unlink   _unlink_regular_under_root_fd with an expected digest        *)
(*   restore  _replace_under_root_from_support_path(if_absent=True)        *)
(*   rewrite  restore_install_checkpoint on a file that existed            *)
(*   commit   _classify_dest_under_fd, then _commit_payload_file           *)
(*   output   output_write's staged write of a --output file               *)
(*                                                                         *)
(* temp is the sibling the running primitive owns: the quarantined leaf,   *)
(* or the copy it is about to publish.  Names are drawn at random, so what *)
(* a failed or killed primitive leaves behind (litter) is never met again. *)
(* Whole contents stand for files; a half-written one is Torn.             *)
(***************************************************************************)
EXTENDS Naturals

CONSTANTS
    Shipped, UserData, Absent, Torn,
    UserPhase, FaultPhase, CrashPhase,   \* where users, errors, crashes strike
    MaxEdits, MaxFaults, MaxCrashes, MaxOps    \* bounds of a run

ASSUME LeafAssumption ==
    /\ Shipped \cap UserData = {}
    /\ Absent \notin Shipped \cup UserData
    /\ Torn \notin Shipped \cup UserData \cup {Absent}

Content == Shipped \cup UserData
Leaf == Content \cup {Absent, Torn}

VARIABLES
    leaf, temp, litter,
    pc, op,
    snap,      \* the bytes to put at the leaf
    want,      \* bytes the primitive may find and take away
    licence,   \* the caller owns the path, or said clobber
    spent

vars == <<leaf, temp, litter, pc, op, snap, want, licence, spent>>
files == <<leaf, temp, litter>>
call == <<op, snap, want, licence>>

Phase == {"idle", "look", "aside", "hash", "drop", "probe", "back",
          "copy", "copying", "link", "tidy", "check", "create", "fill",
          "replace", "recheck", "publish"}

Spent == [edits : Nat, faults : Nat, crashes : Nat, ops : Nat]

(* Where the primitive has a sibling of the leaf. *)
HasTemp == {"hash", "drop", "probe", "back", "copying", "link", "tidy", "recheck", "publish"}

TypeOK ==
    /\ leaf \in Leaf /\ temp \in Leaf /\ litter \in SUBSET Leaf
    /\ pc \in Phase
    /\ temp # Absent <=> pc \in HasTemp
    /\ op \in {"none", "unlink", "restore", "rewrite", "commit", "output"}
    /\ snap \in Content \cup {Absent}
    /\ want \in SUBSET Content
    /\ licence \in BOOLEAN
    /\ spent \in Spent

Init ==
    /\ leaf \in Content \cup {Absent} /\ temp = Absent /\ litter = {}
    /\ pc = "idle" /\ op = "none"
    /\ snap = Absent /\ want = {} /\ licence = FALSE
    /\ spent = [edits |-> 0, faults |-> 0, crashes |-> 0, ops |-> 0]

Goto(ph) == pc' = ph /\ UNCHANGED call

(* The primitive returns or raises; its sibling, if any, was dealt with. *)
Finish == /\ pc' = "idle" /\ op' = "none" /\ snap' = Absent /\ want' = {}
          /\ licence' = FALSE

Begin(o, ph, s, w, l) ==
    /\ pc = "idle"
    /\ spent.ops < MaxOps
    /\ spent' = [spent EXCEPT !.ops = @ + 1]
    /\ op' = o /\ pc' = ph /\ snap' = s /\ want' = w /\ licence' = l
    /\ UNCHANGED files

Fault == /\ pc \in FaultPhase \ {"idle"}
         /\ spent.faults < MaxFaults
         /\ spent' = [spent EXCEPT !.faults = @ + 1]

-----------------------------------------------------------------------------
(* The digest-guarded unlink: uninstall, orphans, files an install made.   *)

BeginUnlink(d) == Begin("unlink", "look", Absent, {d}, FALSE)

(* What follows the unlink: rewrite goes on whatever it returned. *)
Unlinked == IF op = "rewrite" THEN Goto("create") ELSE Finish

Look ==
    /\ pc = "look"
    /\ IF leaf = Absent THEN Unlinked ELSE Goto("aside")
    /\ UNCHANGED <<files, spent>>

MoveAside ==
    /\ pc = "aside"
    /\ IF leaf = Absent
       THEN Unlinked /\ UNCHANGED files
       ELSE /\ temp' = leaf
            /\ leaf' = Absent
            /\ Goto("hash")
            /\ UNCHANGED litter
    /\ UNCHANGED spent

Hash ==
    /\ pc = "hash"
    /\ Goto(IF temp \in want THEN "drop" ELSE "probe")
    /\ UNCHANGED <<files, spent>>

Drop ==
    /\ pc = "drop"
    /\ temp' = Absent
    /\ Unlinked
    /\ UNCHANGED <<leaf, litter, spent>>

(* Mutant: the quarantined leaf is moved back without looking. *)
ProbeBlind ==
    /\ pc = "probe"
    /\ Goto("back")
    /\ UNCHANGED <<files, spent>>

(* Is the name still free?  Else the quarantine keeps its own name. *)
Probe ==
    /\ pc = "probe"
    /\ IF leaf = Absent
       THEN Goto("back") /\ UNCHANGED files
       ELSE /\ litter' = litter \cup {temp}
            /\ temp' = Absent
            /\ Unlinked
            /\ UNCHANGED leaf
    /\ UNCHANGED spent

(* os.rename replaces whatever is there by now. *)
MoveBack ==
    /\ pc = "back"
    /\ leaf' = temp
    /\ temp' = Absent
    /\ Unlinked
    /\ UNCHANGED <<litter, spent>>

-----------------------------------------------------------------------------
(* The exclusive restore of an uninstall's recovery: a complete copy is    *)
(* linked to the path, which fails when something is there.                *)

BeginRestore(s) == Begin("restore", "copy", s, {}, FALSE)

Copy ==
    /\ pc = "copy"
    /\ temp' = Torn
    /\ Goto("copying")
    /\ UNCHANGED <<leaf, litter, spent>>

(* Mutant: the copy is published before it is written. *)
CopiedEarly ==
    /\ pc = "copying"
    /\ Goto(IF op = "restore" THEN "link" ELSE "recheck")
    /\ UNCHANGED <<files, spent>>

(* Written out and flushed. *)
Copied ==
    /\ pc = "copying"
    /\ temp' = snap
    /\ Goto(IF op = "restore" THEN "link" ELSE "recheck")
    /\ UNCHANGED <<leaf, litter, spent>>

Link ==
    /\ pc = "link"
    /\ leaf' = IF leaf = Absent THEN temp ELSE leaf
    /\ Goto("tidy")
    /\ UNCHANGED <<temp, litter, spent>>

Tidy ==
    /\ pc = "tidy"
    /\ temp' = Absent
    /\ Finish
    /\ UNCHANGED <<leaf, litter, spent>>

-----------------------------------------------------------------------------
(* The rewrite of a file from a checkpoint: allowed bytes are hashed,      *)
(* unlinked under that digest, and written anew under the final name.      *)

BeginRewrite(s, b) == Begin("rewrite", "check", s, {s, b}, FALSE)

Check ==
    /\ pc = "check"
    /\ op = "rewrite"
    /\ \/ leaf = Absent /\ Goto("create")
       \/ leaf \in want /\ pc' = "look" /\ want' = {leaf} /\ UNCHANGED <<op, snap, licence>>
       \/ leaf \notin want \cup {Absent} /\ Finish
    /\ UNCHANGED <<files, spent>>

(* O_EXCL. *)
Create ==
    /\ pc = "create"
    /\ IF leaf = Absent
       THEN leaf' = Torn /\ Goto("fill")
       ELSE Finish /\ UNCHANGED leaf
    /\ UNCHANGED <<temp, litter, spent>>

(* The bytes go to the file that was created, wherever its name went. *)
Fill ==
    /\ pc = "fill"
    /\ leaf' = IF leaf = Torn THEN snap ELSE leaf
    /\ Finish
    /\ UNCHANGED <<temp, litter, spent>>

-----------------------------------------------------------------------------
(* The commit of a staged file. *)

BeginCommit(s, owned) == Begin("commit", "check", s, {}, owned)

Classify ==
    /\ pc = "check"
    /\ op = "commit"
    /\ IF leaf = Absent \/ (licence /\ leaf # snap) THEN Goto("replace") ELSE Finish
    /\ UNCHANGED <<files, spent>>

Replace ==
    /\ pc = "replace"
    /\ leaf' = snap
    /\ Finish
    /\ UNCHANGED <<temp, litter, spent>>

-----------------------------------------------------------------------------
(* The output file. *)

BeginOutput(s, clobber) ==
    /\ clobber \/ leaf = Absent
    /\ Begin("output", "copy", s, {}, clobber)

(* Mutant: a copy that is not wanted any more stays. *)
RecheckLeaving ==
    /\ pc = "recheck"
    /\ IF licence \/ leaf = Absent THEN Goto("publish") ELSE Finish
    /\ UNCHANGED <<files, spent>>

Recheck ==
    /\ pc = "recheck"
    /\ IF licence \/ leaf = Absent
       THEN Goto("publish") /\ UNCHANGED temp
       ELSE temp' = Absent /\ Finish
    /\ UNCHANGED <<leaf, litter, spent>>

Publish ==
    /\ pc = "publish"
    /\ leaf' = temp
    /\ temp' = Absent
    /\ Finish
    /\ UNCHANGED <<litter, spent>>

-----------------------------------------------------------------------------
(* Errors, crashes, users. *)

(* An error while the leaf is quarantined moves it back where that is      *)
(* possible, and is tried once more when the move back fails; a copy that  *)
(* was not published is dropped or left behind.                            *)
Fail ==
    /\ Fault
    /\ \/ pc \in {"hash", "drop", "probe", "back"} /\ Goto("probe") /\ UNCHANGED files
       \/ /\ pc \in {"probe", "back"}
          /\ litter' = litter \cup {temp} /\ temp' = Absent
          /\ Unlinked /\ UNCHANGED leaf
       \/ /\ pc \in HasTemp \ {"hash", "drop", "probe", "back"}
          /\ litter' \in {litter, litter \cup {temp}} /\ temp' = Absent
          /\ op = "restore" /\ pc = "copying" => Torn \in litter'
          /\ Finish /\ UNCHANGED leaf
       \/ pc \in {"look", "aside"} /\ Unlinked /\ UNCHANGED files
       \/ pc \notin HasTemp \cup {"look", "aside"} /\ Finish /\ UNCHANGED files

Crash ==
    /\ pc \in CrashPhase \ {"idle"}
    /\ spent.crashes < MaxCrashes
    /\ spent' = [spent EXCEPT !.crashes = @ + 1]
    /\ litter' = IF temp = Absent THEN litter ELSE litter \cup {temp}
    /\ temp' = Absent
    /\ Finish
    /\ UNCHANGED leaf

UserWrite(d) ==
    /\ pc \in UserPhase
    /\ spent.edits < MaxEdits
    /\ leaf # d
    /\ leaf' = d
    /\ spent' = [spent EXCEPT !.edits = @ + 1]
    /\ UNCHANGED <<temp, litter, pc, call>>

-----------------------------------------------------------------------------
Call ==
    \/ \E d \in Shipped : BeginUnlink(d) \/ BeginRestore(d)
    \/ \E s \in Content, b \in Shipped : BeginRewrite(s, b)
    \/ \E s \in Shipped, yes \in BOOLEAN : BeginCommit(s, yes) \/ BeginOutput(s, yes)

Step ==
    \/ Look \/ MoveAside \/ Hash \/ Drop \/ Probe \/ MoveBack
    \/ Copy \/ Copied \/ Link \/ Tidy
    \/ Check \/ Create \/ Fill
    \/ Classify \/ Replace
    \/ Recheck \/ Publish

Next == Call \/ Step \/ Fail \/ Crash \/ \E d \in UserData \cup {Absent} : UserWrite(d)

Spec == Init /\ [][Next]_vars

-----------------------------------------------------------------------------
(* Properties. *)

(* Nobody meets a half-written file under the final name, except while a   *)
(* checkpoint is written back.                                             *)
NoTornLeaf == leaf = Torn => op = "rewrite"

(* What the path stands for: a quarantined leaf counts as still there      *)
(* until a new one takes its name, and a checkpoint's file as written from *)
(* the moment the old bytes are given up.                                  *)
Seen == CASE leaf = Torn -> snap
          [] leaf = Absent /\ pc = "create" -> snap
          [] leaf = Absent /\ pc \in {"hash", "drop", "probe", "back"} -> temp
          [] OTHER -> leaf

(* The windows the primitives leave open: between the last look at a path  *)
(* and the rename over it, and while the only copy of a leaf is off its    *)
(* name.  Outside them no user, error or crash costs a user anything.      *)
WindowsShut ==
    /\ UserPhase \cap {"back", "replace", "publish"} = {}
    /\ FaultPhase \cap {"probe", "back", "create", "fill"} = {}
    /\ CrashPhase \cap {"hash", "drop", "probe", "back", "create", "fill"} = {}

Atomic == INSTANCE AtomicLeaf WITH leaf <- Seen, edits <- spent.edits

(* Every primitive takes effect as one step on the path; without licence   *)
(* that step never replaces or removes what a user wrote.                  *)
LeafIsAtomic == Atomic!Spec
=============================================================================
