-------------------------- MODULE LockAndLeafProofs --------------------------
(***************************************************************************)
(* What stands under every command on a root, for any bounds.              *)
(*                                                                         *)
(* The file primitives of LeafOps are well typed and, outside the windows  *)
(* they leave open, take effect as one step: they implement AtomicLeaf.    *)
(* The inductive invariant says what each phase knows about the path, the  *)
(* sibling and the bytes asked for, whatever users did since it looked.    *)
(*                                                                         *)
(* RootLock lets one process at a time into a root, and what an older      *)
(* version left has been moved when a command is in, for any number of     *)
(* processes of both versions, crashes and errors.                         *)
(***************************************************************************)
EXTENDS LeafOps, RootLock, FiniteSetTheorems, TLAPS

-----------------------------------------------------------------------------
(* The file primitives *)

Quarantine == {"hash", "drop", "probe", "back"}

(* Which primitive is where, and what it was called with. *)
CallInv ==
    /\ pc = "idle" <=> op = "none"
    /\ pc \in Quarantine \cup {"look", "aside"} => op \in {"unlink", "rewrite"}
    /\ pc \in {"create", "fill"} => op = "rewrite"
    /\ pc \in {"copy", "copying"} => op \in {"restore", "output"}
    /\ pc \in {"link", "tidy"} => op = "restore"
    /\ pc \in {"recheck", "publish"} => op = "output"
    /\ pc = "check" => op \in {"rewrite", "commit"}
    /\ pc = "replace" => op = "commit"
    /\ op = "unlink" => want \subseteq Shipped
    /\ op = "rewrite" => snap \in Content /\ want \subseteq Shipped \cup {snap}
    /\ op \in {"restore", "output", "commit"} => snap \in Shipped
    /\ licence => op \in {"output", "commit"}

(* What the sibling and the path hold. *)
FileInv ==
    /\ leaf = Torn => pc = "fill"
    /\ pc \in Quarantine => temp \in Content
    /\ pc = "drop" => temp \in want
    /\ pc \in {"link", "tidy", "recheck", "publish"} => temp = snap
    /\ pc = "back" => leaf = Absent
    /\ pc \in {"replace", "publish"} => leaf = Absent \/ licence

IInv == TypeOK /\ CallInv /\ FileInv

(* The counters of the bounds count. *)
LEMMA SpentStep ==
    ASSUME spent \in Spent, [Next]_vars
    PROVE  spent' \in Spent
<1>1. CASE spent' = spent
  BY <1>1
<1>2. CASE Call
  BY <1>2 DEF Call, Begin, BeginUnlink, BeginRestore, BeginRewrite, BeginCommit, BeginOutput, Spent
<1>3. CASE Step
  BY <1>3 DEF Step, Look, MoveAside, Hash, Drop, Probe, MoveBack, Copy, Copied, Link, Tidy, Check,
     Create, Fill, Classify, Replace, Recheck, Publish
<1>4. CASE Fail
  BY <1>4 DEF Fail, Fault, Spent
<1>5. CASE Crash
  BY <1>5 DEF Crash, Spent
<1>6. CASE \E d \in UserData \cup {Absent} : UserWrite(d)
  BY <1>6 DEF UserWrite, Spent
<1>7. QED
  BY <1>1, <1>2, <1>3, <1>4, <1>5, <1>6 DEF Next, vars

(* Each primitive goes through its own phases with the arguments it was    *)
(* called with, whatever happens to the path.                              *)
LEMMA CallStep ==
    ASSUME TypeOK, CallInv, [Next]_vars
    PROVE  TypeOK' /\ CallInv'
<1>0. spent' \in Spent
  BY SpentStep DEF TypeOK
<1> USE <1>0, LeafAssumption DEF TypeOK, CallInv, Quarantine
<1>1. CASE Call
  BY <1>1 DEF Call, Begin, BeginUnlink, BeginRestore, BeginRewrite, BeginCommit, BeginOutput, Goto, Finish, files, call, Content, Leaf, Phase, HasTemp
<1>2. CASE Look
  BY <1>2 DEF Look, Unlinked, Goto, Finish, files, call, Content, Leaf, Phase, HasTemp
<1>3. CASE MoveAside
  BY <1>3 DEF MoveAside, Unlinked, Goto, Finish, files, call, Content, Leaf, Phase, HasTemp
<1>4. CASE Hash
  BY <1>4 DEF Hash, Goto, Finish, files, call, Content, Leaf, Phase, HasTemp
<1>5. CASE Drop
  BY <1>5 DEF Drop, Unlinked, Goto, Finish, files, call, Content, Leaf, Phase, HasTemp
<1>6. CASE Probe
  BY <1>6 DEF Probe, Unlinked, Goto, Finish, files, call, Content, Leaf, Phase, HasTemp
<1>7. CASE MoveBack
  BY <1>7 DEF MoveBack, Unlinked, Goto, Finish, files, call, Content, Leaf, Phase, HasTemp
<1>8. CASE Copy
  BY <1>8 DEF Copy, Goto, Finish, files, call, Content, Leaf, Phase, HasTemp
<1>9. CASE Copied
  BY <1>9 DEF Copied, Goto, Finish, files, call, Content, Leaf, Phase, HasTemp
<1>10. CASE Link
  BY <1>10 DEF Link, Goto, Finish, files, call, Content, Leaf, Phase, HasTemp
<1>11. CASE Tidy
  BY <1>11 DEF Tidy, Goto, Finish, files, call, Content, Leaf, Phase, HasTemp
<1>12. CASE Check
  <2> pc = "check" /\ op = "rewrite" /\ UNCHANGED files
    BY <1>12 DEF Check
  <2>1. CASE Goto("create")
    BY <2>1 DEF Goto, files, call, Content, Leaf, Phase, HasTemp
  <2>2. CASE leaf \in want /\ pc' = "look" /\ want' = {leaf} /\ UNCHANGED <<op, snap, licence>>
    BY <2>2 DEF files, Content, Leaf, Phase, HasTemp
  <2>3. CASE Finish
    BY <2>3 DEF Finish, files, Content, Leaf, Phase, HasTemp
  <2>4. QED
    BY <1>12, <2>1, <2>2, <2>3 DEF Check
<1>13. CASE Create
  BY <1>13 DEF Create, Goto, Finish, files, call, Content, Leaf, Phase, HasTemp
<1>14. CASE Fill
  BY <1>14 DEF Fill, Goto, Finish, files, call, Content, Leaf, Phase, HasTemp
<1>15. CASE Classify
  BY <1>15 DEF Classify, Goto, Finish, files, call, Content, Leaf, Phase, HasTemp
<1>16. CASE Replace
  BY <1>16 DEF Replace, Goto, Finish, files, call, Content, Leaf, Phase, HasTemp
<1>17. CASE Recheck
  BY <1>17 DEF Recheck, Goto, Finish, files, call, Content, Leaf, Phase, HasTemp
<1>18. CASE Publish
  BY <1>18 DEF Publish, Goto, Finish, files, call, Content, Leaf, Phase, HasTemp
<1>19. CASE Fail
  <2> pc # "idle"
    BY <1>19 DEF Fail, Fault
  <2>1. CASE pc \in {"hash", "drop", "probe", "back"} /\ Goto("probe") /\ UNCHANGED files
    BY <2>1 DEF Goto, files, call, Content, Leaf, Phase, HasTemp
  <2>2. CASE /\ pc \in {"probe", "back"}
             /\ litter' = litter \cup {temp} /\ temp' = Absent
             /\ Unlinked /\ UNCHANGED leaf
    BY <2>2 DEF Unlinked, Goto, Finish, call, Content, Leaf, Phase, HasTemp
  <2>3. CASE /\ pc \in HasTemp \ {"hash", "drop", "probe", "back"}
             /\ litter' \in {litter, litter \cup {temp}} /\ temp' = Absent
             /\ Finish /\ UNCHANGED leaf
    BY <2>3 DEF Finish, Content, Leaf, Phase, HasTemp
  <2>4. CASE pc \in {"look", "aside"} /\ Unlinked /\ UNCHANGED files
    BY <2>4 DEF Unlinked, Goto, Finish, files, call, Content, Leaf, Phase, HasTemp
  <2>5. CASE pc \notin HasTemp \cup {"look", "aside"} /\ Finish /\ UNCHANGED files
    BY <2>5 DEF Finish, files, Content, Leaf, Phase, HasTemp
  <2>6. QED
    BY <1>19, <2>1, <2>2, <2>3, <2>4, <2>5 DEF Fail
<1>20. CASE Crash
  BY <1>20 DEF Crash, Goto, Finish, files, call, Content, Leaf, Phase, HasTemp
<1>21. CASE \E d \in UserData \cup {Absent} : UserWrite(d)
  BY <1>21 DEF UserWrite, Goto, Finish, files, call, Content, Leaf, Phase, HasTemp
<1>22. CASE UNCHANGED vars
  BY <1>22 DEF vars, Goto, Finish, files, call, Content, Leaf, Phase, HasTemp
<1>23. QED
  BY <1>1, <1>2, <1>3, <1>4, <1>5, <1>6, <1>7, <1>8, <1>9, <1>10, <1>11, <1>12, <1>13, <1>14, <1>15, <1>16, <1>17, <1>18, <1>19, <1>20, <1>21, <1>22 DEF Next, Step

(* A sibling holds what its phase needs, and no half-written file keeps    *)
(* the final name once its writer is gone.                                 *)
LEMMA FileStep ==
    ASSUME WindowsShut, IInv, [Next]_vars
    PROVE  FileInv'
<1> USE LeafAssumption DEF IInv, TypeOK, CallInv, FileInv, Quarantine, WindowsShut
<1>1. CASE Call
  BY <1>1 DEF Call, Begin, BeginUnlink, BeginRestore, BeginRewrite, BeginCommit, BeginOutput, Goto, Finish, files, call, Content, Leaf, Phase, HasTemp
<1>2. CASE Look
  BY <1>2 DEF Look, Unlinked, Goto, Finish, files, call, Content, Leaf, Phase, HasTemp
<1>3. CASE MoveAside
  BY <1>3 DEF MoveAside, Unlinked, Goto, Finish, files, call, Content, Leaf, Phase, HasTemp
<1>4. CASE Hash
  BY <1>4 DEF Hash, Goto, Finish, files, call, Content, Leaf, Phase, HasTemp
<1>5. CASE Drop
  BY <1>5 DEF Drop, Unlinked, Goto, Finish, files, call, Content, Leaf, Phase, HasTemp
<1>6. CASE Probe
  BY <1>6 DEF Probe, Unlinked, Goto, Finish, files, call, Content, Leaf, Phase, HasTemp
<1>7. CASE MoveBack
  BY <1>7 DEF MoveBack, Unlinked, Goto, Finish, files, call, Content, Leaf, Phase, HasTemp
<1>8. CASE Copy
  BY <1>8 DEF Copy, Goto, Finish, files, call, Content, Leaf, Phase, HasTemp
<1>9. CASE Copied
  BY <1>9 DEF Copied, Goto, Finish, files, call, Content, Leaf, Phase, HasTemp
<1>10. CASE Link
  BY <1>10 DEF Link, Goto, Finish, files, call, Content, Leaf, Phase, HasTemp
<1>11. CASE Tidy
  BY <1>11 DEF Tidy, Goto, Finish, files, call, Content, Leaf, Phase, HasTemp
<1>12. CASE Check
  BY <1>12 DEF Check, Goto, Finish, files, call, Content, Leaf, Phase, HasTemp
<1>13. CASE Create
  BY <1>13 DEF Create, Goto, Finish, files, call, Content, Leaf, Phase, HasTemp
<1>14. CASE Fill
  BY <1>14 DEF Fill, Goto, Finish, files, call, Content, Leaf, Phase, HasTemp
<1>15. CASE Classify
  BY <1>15 DEF Classify, Goto, Finish, files, call, Content, Leaf, Phase, HasTemp
<1>16. CASE Replace
  BY <1>16 DEF Replace, Goto, Finish, files, call, Content, Leaf, Phase, HasTemp
<1>17. CASE Recheck
  BY <1>17 DEF Recheck, Goto, Finish, files, call, Content, Leaf, Phase, HasTemp
<1>18. CASE Publish
  BY <1>18 DEF Publish, Goto, Finish, files, call, Content, Leaf, Phase, HasTemp
<1>19. CASE Fail
  BY <1>19 DEF Fail, Fault, Unlinked, Goto, Finish, files, call, Content, Leaf, Phase, HasTemp
<1>20. CASE Crash
  BY <1>20 DEF Crash, Goto, Finish, files, call, Content, Leaf, Phase, HasTemp
<1>21. CASE \E d \in UserData \cup {Absent} : UserWrite(d)
  BY <1>21 DEF UserWrite, Goto, Finish, files, call, Content, Leaf, Phase, HasTemp
<1>22. CASE UNCHANGED vars
  BY <1>22 DEF vars, Goto, Finish, files, call, Content, Leaf, Phase, HasTemp
<1>23. QED
  BY <1>1, <1>2, <1>3, <1>4, <1>5, <1>6, <1>7, <1>8, <1>9, <1>10, <1>11, <1>12, <1>13, <1>14, <1>15, <1>16, <1>17, <1>18, <1>19, <1>20, <1>21, <1>22 DEF Next, Step

(* A primitive that has not been called.                                   *)
LEMMA LeafInit == ASSUME Init PROVE TypeOK /\ CallInv
<1>1. spent \in Spent
  BY DEF Init, Spent
<1>2. licence = FALSE
  BY DEF Init
<1>3. TypeOK
  BY LeafAssumption, <1>1, <1>2 DEF Init, TypeOK, Content, Leaf, Phase, HasTemp
<1>4. QED
  BY <1>2, <1>3 DEF Init, CallInv, Quarantine

(* Type correctness of the file primitives (LeafOps), wherever users,      *)
(* errors and crashes strike.                                              *)
THEOREM LeafTypeCorrect == Spec => []TypeOK
<1>1. Init => TypeOK /\ CallInv
  BY LeafInit
<1>2. TypeOK /\ CallInv /\ [Next]_vars => (TypeOK /\ CallInv)'
  BY CallStep
<1>3. QED
  BY <1>1, <1>2, PTL DEF Spec

(* A half-written file is the copy being written, or the checkpoint's file *)
(* being filled; every other way to the final name starts from a whole one.*)
TornInv ==
    /\ leaf = Torn => pc = "fill"
    /\ temp = Torn => pc = "copying"

LEMMA TornStep ==
    ASSUME "fill" \notin FaultPhase \cup CrashPhase, TypeOK, CallInv, TornInv, [Next]_vars
    PROVE  TornInv'
<1>1. snap # Torn /\ Absent # Torn
  BY LeafAssumption DEF TypeOK, Content
<1>2. \A d \in UserData \cup {Absent} : d # Torn
  BY LeafAssumption
<1> USE <1>1 DEF TornInv
<1>3. CASE Call
  BY <1>3 DEF Call, Begin, BeginUnlink, BeginRestore, BeginRewrite, BeginCommit, BeginOutput, files
<1>4. CASE Look \/ Hash \/ Check \/ Classify
  BY <1>4 DEF Look, Hash, Check, Classify, Unlinked, Goto, Finish, files
<1>5. CASE MoveAside \/ Drop \/ Probe \/ MoveBack
  BY <1>5 DEF MoveAside, Drop, Probe, MoveBack, Unlinked, Goto, Finish, files
<1>6. CASE Copy \/ Copied \/ Link \/ Tidy
  BY <1>6 DEF Copy, Copied, Link, Tidy, Goto, Finish
<1>7. CASE Create \/ Fill \/ Replace \/ Recheck \/ Publish
  BY <1>7 DEF Create, Fill, Replace, Recheck, Publish, Goto, Finish
<1>8. CASE Fail
  <2>1. leaf' = leaf /\ (temp' = temp \/ temp' = Absent)
    BY <1>8 DEF Fail, files
  <2>2. pc \in FaultPhase /\ (leaf = Torn => pc = "fill")
    BY <1>8 DEF Fail, Fault
  <2>3. leaf' # Torn
    BY <2>1, <2>2
  <2>4. temp' = Torn => pc' = pc /\ pc = "copying"
    BY <1>8, <2>1 DEF Fail, Goto, files, Unlinked, Finish, HasTemp
  <2>5. QED
    BY <2>3, <2>4
<1>9. CASE Crash
  BY <1>9 DEF Crash, Finish
<1>10. CASE \E d \in UserData \cup {Absent} : UserWrite(d)
  BY <1>2, <1>10 DEF UserWrite
<1>11. CASE UNCHANGED vars
  BY <1>11 DEF vars
<1>12. QED
  BY <1>3, <1>4, <1>5, <1>6, <1>7, <1>8, <1>9, <1>10, <1>11 DEF Next, Step

(* Nobody meets a half-written file under its final name, except while a   *)
(* checkpoint's file is written back, wherever users, errors and crashes   *)
(* strike but in the very write that leaves one (fill).                    *)
THEOREM NoTornName ==
    ASSUME "fill" \notin FaultPhase \cup CrashPhase
    PROVE  Spec => []NoTornLeaf
<1> DEFINE I == TypeOK /\ CallInv /\ TornInv
<1>1. Init => I
  <2> SUFFICES ASSUME Init PROVE I
    OBVIOUS
  <2>1. TypeOK /\ CallInv
    BY LeafInit
  <2>2. TornInv
    BY LeafAssumption DEF Init, TornInv, Content
  <2>3. QED
    BY <2>1, <2>2
<1>2. I /\ [Next]_vars => I'
  BY CallStep, TornStep
<1>3. I => NoTornLeaf
  BY DEF CallInv, TornInv, NoTornLeaf
<1>4. QED
  BY <1>1, <1>2, <1>3, PTL DEF Spec

(* What the path stands for, case by case. *)
SeenIs ==
    /\ leaf \notin {Absent, Torn} => Seen = leaf
    /\ leaf = Torn => Seen = snap
    /\ leaf = Absent /\ pc = "create" => Seen = snap
    /\ leaf = Absent /\ pc \in Quarantine => Seen = temp
    /\ leaf = Absent /\ pc \notin Quarantine \cup {"create"} => Seen = Absent

(* A step of the abstract path, or none. *)
Maps == Atomic!Next \/ UNCHANGED <<Seen, licence, spent.edits>>

(* Every step of a primitive is one step, or none, on the path.            *)
LEMMA LeafStep ==
    ASSUME WindowsShut, IInv, IInv', [Next]_vars
    PROVE  Maps
<1>1. SeenIs
  BY LeafAssumption DEF SeenIs, Seen, Quarantine
<1>2. SeenIs'
  BY LeafAssumption DEF SeenIs, Seen, Quarantine
<1>3. Seen \in Content \cup {Absent} /\ Seen' \in Content \cup {Absent}
  BY <1>1, <1>2 DEF SeenIs, IInv, TypeOK, CallInv, FileInv, Leaf, Content, Quarantine
<1>4. ASSUME Seen' = Seen, licence' \in BOOLEAN, spent'.edits = spent.edits
      PROVE  Maps
  BY <1>4 DEF Maps, Atomic!Next, Atomic!Ask
<1>5. ASSUME Seen \notin UserData, licence' = licence, spent'.edits = spent.edits
      PROVE  Maps
  BY <1>3, <1>5 DEF Maps, Atomic!Next, Atomic!Place, Atomic!Leaf, Content
<1>5a. ASSUME licence, licence' = FALSE, Seen' \in Shipped, spent'.edits = spent.edits
       PROVE  Maps
  BY <1>5a DEF Maps, Atomic!Next, Atomic!Overwrite
<1>6. spent \in Spent /\ licence \in BOOLEAN /\ licence' \in BOOLEAN
  BY DEF IInv, TypeOK
<1>7. CASE Call
  <2>1. spent'.edits = spent.edits
    BY <1>6, <1>7 DEF Call, Begin, BeginUnlink, BeginRestore, BeginRewrite, BeginCommit, BeginOutput, Spent
  <2>2. pc = "idle" /\ leaf' = leaf /\ pc' \notin Quarantine \cup {"create"}
    BY <1>7 DEF Call, Begin, BeginUnlink, BeginRestore, BeginRewrite, BeginCommit, BeginOutput, files, Quarantine
  <2>3. leaf # Torn
    BY <2>2 DEF IInv, FileInv
  <2>4. Seen' = Seen
    BY <1>1, <1>2, <2>2, <2>3 DEF SeenIs, Quarantine
  <2>5. QED
    BY <1>4, <1>6, <2>1, <2>4
<1>8. CASE Step
  <2> USE LeafAssumption, <1>1, <1>2
  <2>0. spent'.edits = spent.edits
    BY <1>8 DEF Step, Look, MoveAside, Hash, Drop, Probe, MoveBack, Copy, Copied, Link, Tidy, Check,
       Create, Fill, Classify, Replace, Recheck, Publish
  <2>1. CASE Look
    BY <1>4, <1>5, <1>6, <2>0, <2>1 DEF Look, Unlinked, SeenIs, IInv, TypeOK, CallInv, FileInv, Quarantine, Content, Goto, Finish, files, call
  <2>2. CASE MoveAside
    BY <1>4, <1>5, <1>6, <2>0, <2>2 DEF MoveAside, Unlinked, SeenIs, IInv, TypeOK, CallInv, FileInv, Quarantine, Content, Goto, Finish, files, call
  <2>3. CASE Hash
    BY <1>4, <1>5, <1>6, <2>0, <2>3 DEF Hash, SeenIs, IInv, TypeOK, CallInv, FileInv, Quarantine, Content, Goto, Finish, files, call
  <2>4. CASE Drop
    BY <1>4, <1>5, <1>6, <2>0, <2>4 DEF Drop, Unlinked, SeenIs, IInv, TypeOK, CallInv, FileInv, Quarantine, Content, Goto, Finish, files, call
  <2>5. CASE Probe
    BY <1>4, <1>5, <1>6, <2>0, <2>5 DEF Probe, Unlinked, SeenIs, IInv, TypeOK, CallInv, FileInv, Quarantine, Content, Goto, Finish, files, call
  <2>6. CASE MoveBack
    BY <1>4, <1>5, <1>6, <2>0, <2>6 DEF MoveBack, Unlinked, SeenIs, IInv, TypeOK, CallInv, FileInv, Quarantine, Content, Goto, Finish, files, call
  <2>7. CASE Copy
    BY <1>4, <1>5, <1>6, <2>0, <2>7 DEF Copy, SeenIs, IInv, TypeOK, CallInv, FileInv, Quarantine, Content, Goto, Finish, files, call
  <2>8. CASE Copied
    BY <1>4, <1>5, <1>6, <2>0, <2>8 DEF Copied, SeenIs, IInv, TypeOK, CallInv, FileInv, Quarantine, Content, Goto, Finish, files, call
  <2>9. CASE Link
    BY <1>4, <1>5, <1>6, <2>0, <2>9 DEF Link, SeenIs, IInv, TypeOK, CallInv, FileInv, Quarantine, Content, Goto, Finish, files, call
  <2>10. CASE Tidy
    BY <1>4, <1>5, <1>6, <2>0, <2>10 DEF Tidy, SeenIs, IInv, TypeOK, CallInv, FileInv, Quarantine, Content, Goto, Finish, files, call
  <2>11. CASE Check
    BY <1>4, <1>5, <1>6, <2>0, <2>11 DEF Check, SeenIs, IInv, TypeOK, CallInv, FileInv, Quarantine, Content, Goto, Finish, files, call
  <2>12. CASE Create
    BY <1>4, <1>5, <1>6, <2>0, <2>12 DEF Create, SeenIs, IInv, TypeOK, CallInv, FileInv, Quarantine, Content, Goto, Finish, files, call
  <2>13. CASE Fill
    BY <1>4, <1>5, <1>6, <2>0, <2>13 DEF Fill, SeenIs, IInv, TypeOK, CallInv, FileInv, Quarantine, Content, Goto, Finish, files, call
  <2>14. CASE Classify
    BY <1>4, <1>5, <1>6, <2>0, <2>14 DEF Classify, SeenIs, IInv, TypeOK, CallInv, FileInv, Quarantine, Content, Goto, Finish, files, call
  <2>15. CASE Replace
    <3>1. leaf' = snap /\ snap \in Shipped /\ licence' = FALSE /\ (licence \/ leaf = Absent)
      BY <2>15 DEF Replace, IInv, TypeOK, CallInv, FileInv, Finish
    <3>2. Seen' \in Shipped
      BY <3>1 DEF SeenIs
    <3>3. CASE licence
      BY <1>5a, <2>0, <3>1, <3>2, <3>3
    <3>4. CASE ~licence
      <4>1. Seen = Absent
        BY <2>15, <3>1, <3>4 DEF Replace, SeenIs, Quarantine
      <4>2. licence' = licence
        BY <1>6, <3>1, <3>4
      <4>3. QED
        BY <1>5, <2>0, <4>1, <4>2
    <3>5. QED
      BY <3>3, <3>4
  <2>16. CASE Recheck
    BY <1>4, <1>5, <1>6, <2>0, <2>16 DEF Recheck, SeenIs, IInv, TypeOK, CallInv, FileInv, Quarantine, Content, Goto, Finish, files, call
  <2>17. CASE Publish
    <3>1. leaf' = snap /\ snap \in Shipped /\ licence' = FALSE /\ (licence \/ leaf = Absent)
      BY <2>17 DEF Publish, IInv, TypeOK, CallInv, FileInv, Finish
    <3>2. Seen' \in Shipped
      BY <3>1 DEF SeenIs
    <3>3. CASE licence
      BY <1>5a, <2>0, <3>1, <3>2, <3>3
    <3>4. CASE ~licence
      <4>1. Seen = Absent
        BY <2>17, <3>1, <3>4 DEF Publish, SeenIs, Quarantine
      <4>2. licence' = licence
        BY <1>6, <3>1, <3>4
      <4>3. QED
        BY <1>5, <2>0, <4>1, <4>2
    <3>5. QED
      BY <3>3, <3>4
  <2>18. QED
    BY <1>8, <2>1, <2>2, <2>3, <2>4, <2>5, <2>6, <2>7, <2>8, <2>9, <2>10, <2>11, <2>12, <2>13, <2>14, <2>15, <2>16, <2>17 DEF Step
<1>9. CASE Fail
  <2>1. spent'.edits = spent.edits
    BY <1>6, <1>9 DEF Fail, Fault, Spent
  <2>2. QED
    BY LeafAssumption, <1>1, <1>2, <1>4, <1>5, <1>6, <1>9, <2>1
       DEF Fail, Fault, WindowsShut, Unlinked, HasTemp, SeenIs, IInv, TypeOK, CallInv, FileInv, Quarantine, Content, Goto, Finish, files, call
<1>10. CASE Crash
  <2>1. spent'.edits = spent.edits
    BY <1>6, <1>10 DEF Crash, Spent
  <2>2. QED
    BY LeafAssumption, <1>1, <1>2, <1>4, <1>6, <1>10, <2>1
       DEF Crash, WindowsShut, SeenIs, IInv, FileInv, Quarantine, Finish
<1>11. CASE \E d \in UserData \cup {Absent} : UserWrite(d)
  <2>1. spent'.edits = spent.edits + 1 /\ licence' = licence
    BY <1>6, <1>11 DEF UserWrite, Spent, call
  <2>2. QED
    BY <1>3, <2>1 DEF Maps, Atomic!Next, Atomic!UserWrite, Atomic!Leaf, Content
<1>12. CASE UNCHANGED vars
  <2>1. Seen' = Seen
    BY <1>12 DEF vars, Seen
  <2>2. QED
    BY <1>4, <1>6, <1>12, <2>1 DEF vars
<1>13. QED
  BY <1>7, <1>8, <1>9, <1>10, <1>11, <1>12 DEF Next

(* LeafIsAtomic, for any shipped and user contents and any bounds: away    *)
(* from the windows WindowsShut closes, each primitive of the installer    *)
(* and of the reader (LeafOps) takes effect as one step on its path, and a *)
(* step without licence never replaces what a user wrote.                  *)
THEOREM LeafRefines == ASSUME WindowsShut PROVE Spec => LeafIsAtomic
<1>1. Init => IInv
  <2> SUFFICES ASSUME Init PROVE IInv
    OBVIOUS
  <2>1. TypeOK /\ CallInv
    BY LeafInit
  <2>2. QED
    BY LeafAssumption, <2>1 DEF IInv, FileInv, Init, Quarantine, Content
<1>2. IInv /\ [Next]_vars => IInv'
  BY CallStep, FileStep DEF IInv
<1>3. Init => Atomic!Init
  <2> SUFFICES ASSUME Init PROVE Atomic!Init
    OBVIOUS
  <2>1. Seen = leaf
    BY LeafAssumption DEF Init, Seen, Content
  <2>2. QED
    BY <2>1 DEF Init, Atomic!Init, Atomic!Leaf, Content
<1>4. IInv /\ IInv' /\ [Next]_vars => [Atomic!Next]_<<Seen, licence, spent.edits>>
  BY LeafStep DEF Maps
<1>5. QED
  BY <1>1, <1>2, <1>3, <1>4, PTL DEF Spec, LeafIsAtomic, Atomic!Spec

-----------------------------------------------------------------------------
(* The root's lock *)

(* Who is inside has a lock file open and holds its flock; who holds a     *)
(* flock is inside.                                                        *)
HolderInv ==
  /\ \A p \in All : doing[p] \in Inside => fd[p] # 0 /\ held[fd[p]] = p
  /\ \A p \in All : doing[p] = "flock" => fd[p] # 0
  /\ \A i \in 1..inodes : held[i] # Nobody => doing[held[i]] \in Inside

(* Each version has program points of its own.                             *)
RoleInv ==
  /\ \A p \in Procs : doing[p] \notin {"old idle", "done"}
  /\ \A p \in OldProcs : doing[p] \in {"old idle", "flock", "critical", "busy", "dead", "done"}

(* Until an older installer makes a second one, there is one lock file at  *)
(* most: the names that exist lead to it, and nobody is about to make one. *)
OneFile ==
  /\ inodes \in {0, 1}
  /\ inodes = 1 => lock["old"] = 1 \/ lock["new"] = 1
  /\ \A p \in All : doing[p] = "open new" /\ lock["new"] = 0 => inodes = 0

OneFileInv == split \in BOOLEAN /\ (~split => OneFile)

(* The entries a process has come past are where it moved them.            *)
Past(e) ==
  CASE e = "manifest" -> {"journal", "lock", "link", "backups", "stage", "rewrite", "critical"}
    [] e = "journal"  -> {"lock", "link", "backups", "stage", "rewrite", "critical"}
    [] e = "backups"  -> {"stage", "rewrite", "critical"}
    [] e = "stage"    -> {"rewrite", "critical"}

Moved ==
  \A p \in Procs :
    /\ \A e \in Entries : doing[p] \in Past(e) => at[e] \subseteq {"new"}
    /\ doing[p] = "critical" /\ at["journal"] # {} => names # "old"

MoveInv == ~split => Moved

LockInv == LockTypeOK /\ HolderInv /\ RoleInv /\ OneFileInv

-----------------------------------------------------------------------------
LEMMA InitLockInv == LockInit => LockInv
<1> SUFFICES ASSUME LockInit PROVE LockInv
  OBVIOUS
<1>1. /\ inodes \in Nat /\ lock \in [Places -> 0..inodes]
      /\ at \in [Entries -> SUBSET Places] /\ names \in Places \cup {"stale"}
  BY DEF LockInit, Places
<1>2. held \in [1..inodes -> {Nobody}]
  <2>1. CASE held = << >> /\ inodes = 0
    BY <2>1
  <2>2. CASE held = <<Nobody>> /\ inodes = 1
    BY <2>2
  <2> QED
    BY <2>1, <2>2 DEF LockInit
<1>3. \A p \in All : doing[p] \in {"idle", "old idle"} /\ (p \in Procs <=> doing[p] = "idle")
  <2>1. doing = [p \in All |-> IF p \in Procs THEN "idle" ELSE "old idle"]
    BY DEF LockInit, Ready
  <2> QED
    BY <2>1
<1>4. doing \in [All -> {"idle", "old idle"}] /\ fd \in [All -> 0..inodes]
  <2>1. doing = [p \in All |-> IF p \in Procs THEN "idle" ELSE "old idle"]
    BY DEF LockInit, Ready
  <2>2. doing \in [All -> {"idle", "old idle"}]
    BY <2>1
  <2>3. fd = [p \in All |-> 0] /\ 0 \in 0..inodes
    BY <1>1 DEF LockInit
  <2>4. fd \in [All -> 0..inodes]
    BY <2>3
  <2> QED
    BY <2>2, <2>4
<1>5. LockTypeOK
  <2>1. doing \in [All -> Inside \cup {"idle", "old idle", "legacy exists", "open new", "open old",
                                  "flock", "busy", "conflict", "dead", "done"}]
    BY <1>4
  <2>2. held \in [1..inodes -> All \cup {Nobody}] /\ \A i \in 1..inodes : held[i] = Nobody
    BY <1>2
  <2>3. faults \in 0..MaxLockFaults
    BY LockAssumption DEF LockInit
  <2> QED
    BY <1>1, <1>4, <2>1, <2>2, <2>3 DEF LockTypeOK
<1>6. HolderInv
  <2>1. \A i \in 1..inodes : held[i] = Nobody
    BY <1>2
  <2>2. \A p \in All : doing[p] \notin Inside \cup {"flock"}
    BY <1>3 DEF Inside
  <2> QED
    BY <2>1, <2>2 DEF HolderInv
<1>7. RoleInv
  BY <1>3, LockAssumption DEF RoleInv, All
<1>8. OneFileInv
  <2>1. inodes = 0 \/ (inodes = 1 /\ lock["old"] = 1)
    BY DEF LockInit, Places
  <2>2. \A p \in All : doing[p] # "open new"
    BY <1>3
  <2>3. OneFile
    <3>1. inodes = 0 \/ (inodes = 1 /\ lock["old"] = 1)
      BY <2>1
    <3>2. \A p \in All : ~(doing[p] = "open new" /\ lock["new"] = 0)
      BY <2>2
    <3>3. inodes \in {0, 1}
      BY <3>1
    <3>4. inodes = 1 => lock["old"] = 1 \/ lock["new"] = 1
      BY <3>1
    <3> QED
      BY <3>2, <3>3, <3>4, Zenon DEF OneFile
  <2>4. split \in BOOLEAN
    BY DEF LockInit
  <2>5. ~split => OneFile
    BY <2>3
  <2> QED
    BY <2>4, <2>5, Zenon DEF OneFileInv
<1> QED
  BY <1>5, <1>6, <1>7, <1>8 DEF LockInv

LEMMA OpenFiles ==
  ASSUME LockInv
  PROVE  /\ inodes \in Nat /\ DOMAIN held = 1..inodes
         /\ \A q \in All : fd[q] # 0 => fd[q] \in 1..inodes
         /\ \A i \in 1..inodes : held[i] # Nobody => held[i] \in All
<1>1. inodes \in Nat
  BY DEF LockInv, LockTypeOK
<1>2. DOMAIN held = 1..inodes /\ \A i \in 1..inodes : held[i] # Nobody => held[i] \in All
  BY DEF LockInv, LockTypeOK
<1>3. \A q \in All : fd[q] \in 0..inodes
  BY DEF LockInv, LockTypeOK
<1>4. \A q \in All : fd[q] # 0 => fd[q] \in 1..inodes
  BY <1>1, <1>3
<1> QED
  BY <1>1, <1>2, <1>4

(* The two ways a process moves without its lock: on, or out.              *)
Walks(p) ==
  /\ \E label \in Inside \cup {"idle", "old idle", "legacy exists", "open new", "open old"} :
        /\ Goes(p, label)
        /\ label \in Inside <=> doing[p] \in Inside
        /\ p \in Procs => label # "old idle"
        /\ p \in OldProcs => label \in {"old idle", "critical"}
  /\ UNCHANGED <<inodes, held, fd>>

Quits(p) ==
  /\ \E code \in {"idle", "old idle", "busy", "conflict", "dead", "done"} :
        /\ Fails(p, code)
        /\ p \in Procs => code \notin {"done", "old idle"}
        /\ p \in OldProcs => code \notin {"idle", "conflict"}
  /\ UNCHANGED <<lock, inodes>>

LEMMA WalksKeepsHolder ==
  ASSUME LockInv, NEW p \in All, Walks(p)
  PROVE  HolderInv' /\ RoleInv'
<1>1. PICK label \in Inside \cup {"idle", "old idle", "legacy exists", "open new", "open old"} :
        /\ doing' = [doing EXCEPT ![p] = label]
        /\ label \in Inside <=> doing[p] \in Inside
        /\ p \in Procs => label # "old idle"
        /\ p \in OldProcs => label \in {"old idle", "critical"}
  BY DEF Walks, Goes
<1>2. \A q \in All : doing'[q] = IF q = p THEN label ELSE doing[q]
  BY <1>1 DEF LockInv, LockTypeOK
<1>3. HolderInv'
  <2>1. \A q \in All : doing'[q] \in Inside <=> doing[q] \in Inside
    BY <1>1, <1>2
  <2>2. \A q \in All : doing'[q] = "flock" => doing[q] = "flock"
    BY <1>1, <1>2 DEF Inside
  <2>3. \A i \in 1..inodes : held[i] # Nobody => held[i] \in All
    BY DEF LockInv, LockTypeOK
  <2> QED
    BY <2>1, <2>2, <2>3 DEF Walks, LockInv, HolderInv
<1>4. RoleInv'
  BY <1>1, <1>2 DEF LockInv, RoleInv, All, Inside
<1> QED
  BY <1>3, <1>4

LEMMA QuitsKeepsHolder ==
  ASSUME LockInv, NEW p \in All, Quits(p)
  PROVE  HolderInv' /\ RoleInv'
<1>1. PICK code \in {"idle", "old idle", "busy", "conflict", "dead", "done"} :
        /\ Fails(p, code)
        /\ p \in Procs => code \notin {"done", "old idle"}
        /\ p \in OldProcs => code \notin {"idle", "conflict"}
  BY DEF Quits
<1>2. \A q \in All : doing'[q] = IF q = p THEN code ELSE doing[q]
  BY <1>1 DEF LockInv, LockTypeOK, Fails, Goes
<1>3. HolderInv'
  <2>1. code \notin Inside /\ code # "flock"
    BY <1>1 DEF Inside
  <2>2. \A i \in 1..inodes : held'[i] = IF held[i] = p THEN Nobody ELSE held[i]
    BY <1>1 DEF LockInv, LockTypeOK, Fails, Lets
  <2>3. \A q \in All : fd'[q] = IF q = p THEN 0 ELSE fd[q]
    BY <1>1 DEF LockInv, LockTypeOK, Fails, Lets
  <2>4. \A i \in 1..inodes : held[i] # Nobody => held[i] \in All
    BY DEF LockInv, LockTypeOK
  <2>5. inodes \in Nat /\ fd \in [All -> 0..inodes]
    BY DEF LockInv, LockTypeOK
  <2>6. inodes' = inodes
    BY DEF Quits
  <2>7. \A q \in All : doing'[q] \in Inside => fd'[q] # 0 /\ held'[fd'[q]] = q
    <3> SUFFICES ASSUME NEW q \in All, doing'[q] \in Inside
                 PROVE  fd'[q] # 0 /\ held'[fd'[q]] = q
      OBVIOUS
    <3>1. q # p /\ doing[q] \in Inside /\ fd'[q] = fd[q]
      BY <1>2, <2>1, <2>3
    <3>2. fd[q] # 0 /\ held[fd[q]] = q
      BY <3>1 DEF LockInv, HolderInv
    <3>3. fd[q] \in 1..inodes
      BY <3>2, OpenFiles
    <3> QED
      BY <3>1, <3>2, <3>3, <2>2
  <2>8. \A i \in 1..inodes : held'[i] # Nobody => doing'[held'[i]] \in Inside
    BY <1>2, <2>2, <2>4 DEF LockInv, HolderInv
  <2> QED
    BY <1>2, <2>1, <2>3, <2>6, <2>7, <2>8 DEF LockInv, HolderInv
<1>4. RoleInv'
  BY <1>1, <1>2 DEF LockInv, RoleInv, All, Inside
<1> QED
  BY <1>3, <1>4

(* Or it opens a lock file, of those there are or one it makes, or takes   *)
(* the flock of the one it opened.                                         *)
Grabs(p) ==
  /\ doing[p] \notin Inside
  /\ Goes(p, "flock")
  /\ inodes' \in {inodes, inodes + 1}
  /\ held' = [i \in 1..inodes' |-> IF i \in DOMAIN held THEN held[i] ELSE Nobody]
  /\ \E i \in 1..inodes' : fd' = [fd EXCEPT ![p] = i]

Takes(p) ==
  /\ fd[p] \in 1..inodes
  /\ held[fd[p]] = Nobody
  /\ held' = [held EXCEPT ![fd[p]] = p]
  /\ Goes(p, IF p \in Procs THEN "both" ELSE "critical")
  /\ UNCHANGED <<inodes, fd>>

LEMMA GrabsKeepsHolder ==
  ASSUME LockInv, NEW p \in All, Grabs(p)
  PROVE  HolderInv' /\ RoleInv'
<1>1. PICK i \in 1..inodes' : fd' = [fd EXCEPT ![p] = i]
  BY DEF Grabs
<1>2. \A q \in All : /\ doing'[q] = IF q = p THEN "flock" ELSE doing[q]
                     /\ fd'[q] = IF q = p THEN i ELSE fd[q]
  BY <1>1 DEF LockInv, LockTypeOK, Grabs, Goes
<1>3. inodes \in Nat /\ inodes' \in Nat /\ 1..inodes \subseteq 1..inodes' /\ i # 0
  <2>1. inodes \in Nat /\ inodes' \in {inodes, inodes + 1} /\ i \in 1..inodes'
    BY OpenFiles DEF Grabs
  <2> QED
    BY <2>1
<1>4. \A j \in 1..inodes' : held'[j] = IF j \in 1..inodes THEN held[j] ELSE Nobody
  BY DEF LockInv, LockTypeOK, Grabs
<1>5. \A j \in 1..inodes : held[j] # Nobody => held[j] \in All /\ held[j] # p
  BY DEF LockInv, LockTypeOK, HolderInv, Grabs
<1>6. ASSUME NEW q \in All, doing'[q] \in Inside PROVE fd'[q] # 0 /\ held'[fd'[q]] = q
  <2>1. q # p /\ doing[q] \in Inside /\ fd'[q] = fd[q]
    BY <1>2, <1>6 DEF Inside
  <2>2. fd[q] # 0 /\ held[fd[q]] = q
    BY <2>1 DEF LockInv, HolderInv
  <2>3. fd[q] \in 1..inodes
    BY <2>2, OpenFiles
  <2> QED
    BY <2>1, <2>2, <2>3, <1>3, <1>4
<1>7. \A q \in All : doing'[q] = "flock" => fd'[q] # 0
  BY <1>2, <1>3 DEF LockInv, HolderInv
<1>8. \A j \in 1..inodes' : held'[j] # Nobody => doing'[held'[j]] \in Inside
  BY <1>2, <1>4, <1>5 DEF LockInv, HolderInv
<1>9. HolderInv'
  BY <1>6, <1>7, <1>8 DEF HolderInv
<1>10. RoleInv'
  BY <1>2 DEF LockInv, RoleInv, All
<1> QED
  BY <1>9, <1>10

LEMMA TakesKeepsHolder ==
  ASSUME LockInv, NEW p \in All, Takes(p)
  PROVE  HolderInv' /\ RoleInv'
<1> DEFINE label == IF p \in Procs THEN "both" ELSE "critical"
<1>1. \A q \in All : doing'[q] = IF q = p THEN label ELSE doing[q]
  BY DEF LockInv, LockTypeOK, Takes, Goes
<1>2. \A i \in 1..inodes : held'[i] = IF i = fd[p] THEN p ELSE held[i]
  BY DEF LockInv, LockTypeOK, Takes
<1>3. fd[p] # 0 /\ held[fd[p]] = Nobody /\ fd' = fd /\ inodes' = inodes /\ label \in Inside
  BY DEF Takes, Inside
<1>4. \A j \in 1..inodes : held[j] # Nobody => held[j] \in All
  BY DEF LockInv, LockTypeOK
<1>5. ASSUME NEW q \in All, doing'[q] \in Inside PROVE fd'[q] # 0 /\ held'[fd'[q]] = q
  <2>1. CASE q = p
    BY <2>1, <1>2, <1>3 DEF Takes
  <2>2. CASE q # p
    <3>1. fd[q] # 0 /\ held[fd[q]] = q /\ q # Nobody
      BY <2>2, <1>1, <1>5, LockAssumption DEF LockInv, HolderInv, All
    <3>2. fd[q] \in 1..inodes
      BY <3>1, OpenFiles
    <3> QED
      BY <3>1, <3>2, <1>2, <1>3
  <2> QED
    BY <2>1, <2>2
<1>6. \A q \in All : doing'[q] = "flock" => fd'[q] # 0
  BY <1>1, <1>3 DEF LockInv, HolderInv, Inside
<1>7. \A j \in 1..inodes : held'[j] # Nobody => doing'[held'[j]] \in Inside
  BY <1>1, <1>2, <1>3, <1>4 DEF LockInv, HolderInv
<1>8. HolderInv'
  BY <1>3, <1>5, <1>6, <1>7 DEF HolderInv
<1>9. RoleInv'
  <2>1. RoleInv /\ label \in {"both", "critical"} /\ (p \in OldProcs => label = "critical")
    BY LockAssumption DEF LockInv
  <2> HIDE DEF label
  <2> QED
    BY <1>1, <2>1 DEF RoleInv, All
<1> QED
  BY <1>8, <1>9

-----------------------------------------------------------------------------
(* The moving of one entry, with the program points it leads between.      *)
MoveOf(p, e, next) ==
  /\ doing[p] = e
  /\ \/ "old" \notin at[e] /\ Goes(p, next) /\ UNCHANGED <<at, held, fd>>
     \/ "old" \in at[e] /\ "new" \in at[e] /\ Fails(p, "conflict") /\ UNCHANGED at
     \/ /\ "old" \in at[e] /\ "new" \notin at[e]
        /\ at' = [at EXCEPT ![e] = {"new"}]
        /\ Goes(p, next) /\ UNCHANGED <<held, fd>>
  /\ UNCHANGED <<lock, inodes, names, faults, split>>

Hops == {<<"manifest", "journal">>, <<"journal", "lock">>, <<"backups", "stage">>,
         <<"stage", "rewrite">>}

LEMMA MovesAreHops ==
  ASSUME NEW p \in All, NEW k \in DOMAIN Moves, Move(p, k)
  PROVE  \E e \in Entries, next \in Inside : <<e, next>> \in Hops /\ MoveOf(p, e, next)
<1>1. k \in 1..6 /\ Len(Moves) = 6
  BY DEF Moves
<1>2. <<Moves[k], After(k)>> \in Hops
  <2>1. Moves[k] \in Entries
    BY DEF Move
  <2>2. k \in {1, 2, 5, 6}
    BY <1>1, <2>1 DEF Moves, Entries
  <2>3. CASE k = 1
    BY <2>3 DEF Moves, After, Hops
  <2>4. CASE k = 2
    BY <2>4 DEF Moves, After, Hops
  <2>5. CASE k = 5
    BY <2>5 DEF Moves, After, Hops
  <2>6. CASE k = 6
    BY <2>6 DEF Moves, After, Hops
  <2> QED
    BY <2>2, <2>3, <2>4, <2>5, <2>6
<1>3. MoveOf(p, Moves[k], After(k))
  BY Zenon DEF Move, MoveOf
<1>4. Moves[k] \in Entries /\ After(k) \in Inside
  BY <1>2 DEF Hops, Entries, Inside
<1> QED
  BY <1>2, <1>3, <1>4

Acts(p) ==
  \/ Enters(p) \/ Exit(p) \/ Again(p)
  \/ RewriteFails(p) \/ LockFault(p) \/ OldStart(p) \/ OldInstall(p)

LEMMA OpensGrabs ==
  ASSUME LockInv, NEW p \in All, NEW place \in Places, Opens(p, place), doing[p] \notin Inside
  PROVE  Grabs(p)
<1>1. /\ inodes \in Nat /\ lock[place] \in 0..inodes /\ DOMAIN held = 1..inodes
      /\ held = [i \in 1..inodes |-> held[i]]
  BY DEF LockInv, LockTypeOK
<1>2. CASE lock[place] # 0
  <2>1. lock[place] \in 1..inodes
    BY <1>1, <1>2
  <2>2. inodes' = inodes /\ held' = held /\ fd' = [fd EXCEPT ![p] = lock[place]]
    BY <1>2 DEF Opens
  <2>3. held' = [i \in 1..inodes' |-> IF i \in DOMAIN held THEN held[i] ELSE Nobody]
    BY <1>1, <2>2
  <2> QED
    BY <2>1, <2>2, <2>3 DEF Opens, Grabs
<1>3. CASE lock[place] = 0
  <2>1. inodes' = inodes + 1 /\ inodes + 1 \in 1..inodes'
    BY <1>1, <1>3 DEF Opens
  <2> QED
    BY <1>3, <2>1 DEF Opens, Grabs
<1> QED
  BY <1>2, <1>3
LEMMA StepShapes ==
  ASSUME LockInv, NEW p \in All, Acts(p)
  PROVE  Walks(p) \/ Quits(p) \/ Grabs(p) \/ Takes(p)
<1>1. /\ p \in Procs => p \notin OldProcs /\ Ready(p) = "idle" /\ doing[p] \notin {"old idle", "done"}
      /\ p \in OldProcs =>
           /\ p \notin Procs /\ Ready(p) = "old idle"
           /\ doing[p] \in {"old idle", "flock", "critical", "busy", "dead", "done"}
      /\ p \in Procs \/ p \in OldProcs
  BY LockAssumption DEF LockInv, RoleInv, All, Ready
<1>2. CASE Start(p)
  BY <1>1, <1>2 DEF Start, Walks, Inside
<1>3. CASE SeesNew(p)
  BY <1>1, <1>3 DEF SeesNew, Walks, Inside
<1>4. CASE OpenOld(p)
  <2>1. CASE lock["old"] = 0
    BY <1>1, <1>4, <2>1 DEF OpenOld, Quits
  <2>2. CASE lock["old"] # 0
    <3>1. lock["old"] \in 1..inodes /\ doing[p] \notin Inside
      <4>1. inodes \in Nat /\ lock["old"] \in 0..inodes
        BY DEF LockInv, LockTypeOK, Places
      <4>2. lock["old"] \in 1..inodes
        BY <2>2, <4>1
      <4> QED
        BY <1>4, <4>2 DEF OpenOld, Inside
    <3>2. inodes' = inodes /\ held' = held /\ DOMAIN held = 1..inodes
      BY <1>4, <2>2, OpenFiles DEF OpenOld
    <3>3. held' = [i \in 1..inodes' |-> IF i \in DOMAIN held THEN held[i] ELSE Nobody]
      <4>1. held = [i \in 1..inodes |-> held[i]]
        BY DEF LockInv, LockTypeOK
      <4> QED
        BY <3>2, <4>1
    <3> QED
      BY <1>4, <2>2, <3>1, <3>2, <3>3 DEF OpenOld, Grabs
  <2> QED
    BY <2>1, <2>2
<1>5. CASE OpenNew(p)
  BY <1>5, OpensGrabs DEF OpenNew, Places, Inside
<1>6. CASE OldStart(p)
  BY <1>6, OpensGrabs DEF OldStart, Places, Inside
<1>7. CASE Flock(p)
  <2>1. CASE held[fd[p]] = Nobody
    <3>1. fd[p] \in 1..inodes
      BY <1>7, OpenFiles DEF Flock, LockInv, HolderInv
    <3> QED
      BY <1>7, <2>1, <3>1 DEF Flock, Takes
  <2>2. CASE held[fd[p]] # Nobody
    BY <1>1, <1>7, <2>2 DEF Flock, Quits
  <2> QED
    BY <2>1, <2>2
<1>8. CASE Both(p)
  BY <1>1, <1>8 DEF Both, Walks, Quits, Inside
<1>9. CASE MoveLock(p)
  BY <1>1, <1>9 DEF MoveLock, Walks, Quits, Inside
<1>10. CASE LinkBack(p)
  BY <1>1, <1>10 DEF LinkBack, Walks, Inside
<1>11. CASE Rewrite(p) \/ RewriteFails(p)
  BY <1>1, <1>11 DEF Rewrite, RewriteFails, Walks, Inside
<1>12. ASSUME NEW k \in DOMAIN Moves, Move(p, k) PROVE Walks(p) \/ Quits(p)
  <2>1. PICK e \in Entries, next \in Inside : <<e, next>> \in Hops /\ MoveOf(p, e, next)
    BY <1>12, MovesAreHops
  <2>2. doing[p] = e /\ e \in Inside /\ e \notin {"flock", "critical"} /\ next # "old idle"
    BY <2>1 DEF MoveOf, Entries, Inside
  <2>3. p \in Procs /\ p \notin OldProcs
    BY <1>1, <2>2 DEF Inside
  <2>4. CASE Goes(p, next) /\ UNCHANGED <<held, fd>>
    BY <2>1, <2>2, <2>3, <2>4 DEF MoveOf, Walks
  <2>5. CASE Fails(p, "conflict")
    BY <2>1, <2>3, <2>5 DEF MoveOf, Quits
  <2> QED
    BY <2>1, <2>4, <2>5 DEF MoveOf
<1>13. CASE Exit(p)
  BY <1>1, <1>13 DEF Exit, Quits
<1>14. CASE Again(p)
  BY <1>1, <1>14 DEF Again, Walks, Inside
<1>15. CASE LockFault(p)
  BY <1>1, <1>15 DEF LockFault, Quits, Entries
<1>16. CASE OldInstall(p)
  <2>1. doing' = [doing EXCEPT ![p] = "critical"]
    BY <1>16 DEF OldInstall, LockInv, LockTypeOK
  <2> QED
    BY <1>1, <1>16, <2>1 DEF OldInstall, Walks, Goes, Inside
<1> QED
  BY <1>2, <1>3, <1>4, <1>5, <1>6, <1>7, <1>8, <1>9, <1>10, <1>11, <1>12, <1>13, <1>14, <1>15,
     <1>16 DEF Acts, Enters, Migrate

LEMMA HolderStep ==
  ASSUME LockInv, NEW p \in All, Acts(p)
  PROVE  HolderInv' /\ RoleInv'
BY StepShapes, WalksKeepsHolder, QuitsKeepsHolder, GrabsKeepsHolder, TakesKeepsHolder
-----------------------------------------------------------------------------
(* What each shape keeps of the types of the lock's own variables.         *)
LockTyped ==
  /\ inodes \in Nat
  /\ held \in [1..inodes -> All \cup {Nobody}]
  /\ doing \in [All -> Inside \cup {"idle", "old idle", "legacy exists", "open new", "open old",
                                 "flock", "busy", "conflict", "dead", "done"}]
  /\ fd \in [All -> 0..inodes]
  /\ \A i \in 1..inodes : held[i] # Nobody => fd[held[i]] = i

LEMMA ShapesKeepTypes ==
  ASSUME LockInv, NEW p \in All, Walks(p) \/ Quits(p) \/ Grabs(p) \/ Takes(p)
  PROVE  LockTyped' /\ (inodes' = inodes \/ inodes' = inodes + 1)
<1>1. LockTyped
  BY DEF LockInv, LockTypeOK, LockTyped
<1>2. CASE Walks(p)
  <2>1. UNCHANGED <<inodes, held, fd>>
    BY <1>2 DEF Walks
  <2>2. doing' \in [All -> Inside \cup {"idle", "old idle", "legacy exists", "open new", "open old",
                                 "flock", "busy", "conflict", "dead", "done"}]
    BY <1>1, <1>2 DEF LockTyped, Walks, Goes
  <2> QED
    BY <1>1, <2>1, <2>2 DEF LockTyped
<1>3. CASE Quits(p)
  <2>1. /\ inodes' = inodes
        /\ fd' = [fd EXCEPT ![p] = 0]
        /\ held' = [i \in DOMAIN held |-> IF held[i] = p THEN Nobody ELSE held[i]]
    BY <1>3 DEF Quits, Fails, Lets
  <2>2. doing' \in [All -> Inside \cup {"idle", "old idle", "legacy exists", "open new", "open old",
                                 "flock", "busy", "conflict", "dead", "done"}]
    BY <1>1, <1>3 DEF LockTyped, Quits, Fails, Goes
  <2>3. fd' \in [All -> 0..inodes] /\ held' \in [1..inodes -> All \cup {Nobody}]
    <3>1. fd \in [All -> 0..inodes] /\ held \in [1..inodes -> All \cup {Nobody}]
      BY <1>1 DEF LockTyped
    <3>2. 0 \in 0..inodes
      BY OpenFiles
    <3>3. fd' \in [All -> 0..inodes]
      BY <2>1, <3>1, <3>2
    <3>4. held' \in [1..inodes -> All \cup {Nobody}]
      BY <2>1, <3>1
    <3> QED
      BY <3>3, <3>4
  <2>4. \A i \in 1..inodes : held'[i] # Nobody => fd'[held'[i]] = i
    BY <1>1, <2>1 DEF LockTyped
  <2> QED
    BY <1>1, <2>1, <2>2, <2>3, <2>4 DEF LockTyped
<1>4. CASE Grabs(p)
  <2>1. PICK i \in 1..inodes' : fd' = [fd EXCEPT ![p] = i]
    BY <1>4 DEF Grabs
  <2>2. inodes \in Nat /\ inodes' \in Nat /\ 1..inodes \subseteq 1..inodes' /\ 0..inodes \subseteq 0..inodes'
    <3>1. inodes \in Nat /\ inodes' \in {inodes, inodes + 1}
      BY <1>4, OpenFiles DEF Grabs
    <3> QED
      BY <3>1
  <2>3. doing' \in [All -> Inside \cup {"idle", "old idle", "legacy exists", "open new", "open old",
                                 "flock", "busy", "conflict", "dead", "done"}]
    BY <1>1, <1>4 DEF LockTyped, Grabs, Goes
  <2>4. fd' \in [All -> 0..inodes']
    <3>1. i \in 0..inodes'
      BY <2>1, <2>2
    <3>2. fd \in [All -> 0..inodes']
      <4>1. fd \in [All -> 0..inodes]
        BY <1>1 DEF LockTyped
      <4> QED
        BY <2>2, <4>1
    <3> QED
      BY <2>1, <3>1, <3>2
  <2>5. \A j \in 1..inodes' : held'[j] = IF j \in 1..inodes THEN held[j] ELSE Nobody
    BY <1>4, OpenFiles DEF Grabs
  <2>6. held' \in [1..inodes' -> All \cup {Nobody}]
    <3>1. held' = [j \in 1..inodes' |-> IF j \in DOMAIN held THEN held[j] ELSE Nobody]
      BY <1>4 DEF Grabs
    <3> QED
      BY <1>1, <3>1 DEF LockTyped
  <2>7. \A j \in 1..inodes' : held'[j] # Nobody => fd'[held'[j]] = j
    <3> SUFFICES ASSUME NEW j \in 1..inodes', held'[j] # Nobody PROVE fd'[held'[j]] = j
      OBVIOUS
    <3>1. j \in 1..inodes /\ held'[j] = held[j] /\ held[j] \in All /\ fd[held[j]] = j
      BY <1>1, <2>5 DEF LockTyped
    <3>2. held[j] # p
      BY <1>4, <2>5, <3>1 DEF Grabs, LockInv, HolderInv
    <3> QED
      BY <1>1, <2>1, <3>1, <3>2 DEF LockTyped
  <2>8. inodes' = inodes \/ inodes' = inodes + 1
    BY <1>4 DEF Grabs
  <2> QED
    BY <2>2, <2>3, <2>4, <2>6, <2>7, <2>8 DEF LockTyped
<1>5. CASE Takes(p)
  <2>1. inodes' = inodes /\ fd' = fd /\ held' = [held EXCEPT ![fd[p]] = p] /\ fd[p] \in 1..inodes
    BY <1>5 DEF Takes
  <2>2. doing' \in [All -> Inside \cup {"idle", "old idle", "legacy exists", "open new", "open old",
                                 "flock", "busy", "conflict", "dead", "done"}]
    BY <1>1, <1>5 DEF LockTyped, Takes, Goes, Inside
  <2>3. held' \in [1..inodes -> All \cup {Nobody}]
    BY <1>1, <2>1 DEF LockTyped
  <2>4. \A i \in 1..inodes : held'[i] # Nobody => fd'[held'[i]] = i
    BY <1>1, <2>1 DEF LockTyped
  <2> QED
    BY <1>1, <2>1, <2>2, <2>3, <2>4 DEF LockTyped
<1> QED
  BY <1>2, <1>3, <1>4, <1>5
(* The other variables, action by action.                                  *)
LEMMA FilesTyped ==
  ASSUME LockInv, NEW p \in All, Acts(p)
  PROVE  /\ lock' \in [Places -> 0..inodes']
         /\ at' \in [Entries -> SUBSET Places]
         /\ names' \in Places \cup {"stale"}
         /\ faults' \in 0..MaxLockFaults
<1>1. /\ inodes \in Nat /\ lock \in [Places -> 0..inodes]
      /\ at \in [Entries -> SUBSET Places]
      /\ names \in Places \cup {"stale"}
      /\ faults \in 0..MaxLockFaults
  BY DEF LockInv, LockTypeOK
<1>2. lock["new"] \in 0..inodes /\ lock["old"] \in 0..inodes /\ 0 \in 0..inodes
  BY <1>1 DEF Places
<1>3. ASSUME NEW place \in Places, Opens(p, place)
      PROVE  lock' \in [Places -> 0..inodes'] /\ UNCHANGED <<at, names, faults>>
  <2>1. CASE lock[place] # 0
    BY <1>1, <1>3, <2>1 DEF Opens
  <2>2. CASE lock[place] = 0
    <3>1. /\ lock' = [lock EXCEPT ![place] = inodes + 1] /\ inodes' = inodes + 1
          /\ UNCHANGED <<at, names, faults>>
      BY <1>3, <2>2 DEF Opens
    <3>2. inodes + 1 \in 0..inodes' /\ 0..inodes \subseteq 0..inodes'
      BY <1>1, <3>1
    <3>3. lock \in [Places -> 0..inodes']
      BY <1>1, <3>2
    <3> QED
      BY <3>1, <3>2, <3>3
  <2> QED
    BY <2>1, <2>2
<1>4. CASE OpenNew(p)
  BY <1>1, <1>3, <1>4 DEF OpenNew, Places
<1>5. CASE OldStart(p)
  BY <1>1, <1>3, <1>5 DEF OldStart, Places
<1>6. CASE MoveLock(p)
  BY <1>1, <1>2, <1>6 DEF MoveLock
<1>7. CASE LinkBack(p)
  BY <1>1, <1>2, <1>7 DEF LinkBack
<1>8. ASSUME NEW k \in DOMAIN Moves, Move(p, k)
      PROVE  at' \in [Entries -> SUBSET Places] /\ UNCHANGED <<lock, inodes, names, faults>>
  <2>1. PICK e \in Entries : at' = at \/ at' = [at EXCEPT ![e] = {"new"}]
    BY <1>8 DEF Move
  <2> QED
    BY <1>1, <1>8, <2>1 DEF Move, Places
<1>9. CASE OldInstall(p)
  BY <1>1, <1>9 DEF OldInstall, Places
<1>10. CASE Rewrite(p)
  BY <1>1, <1>10 DEF Rewrite, Places
<1>11. CASE LockFault(p) \/ RewriteFails(p)
  <2>1. UNCHANGED <<lock, inodes, at>> /\ names' \in {names, "stale"}
    BY <1>11 DEF LockFault, RewriteFails
  <2>2. faults' \in 0..MaxLockFaults
    <3>1. faults < MaxLockFaults /\ faults' = faults + 1
      BY <1>11 DEF LockFault, RewriteFails
    <3>2. MaxLockFaults \in Nat /\ faults \in 0..MaxLockFaults
      BY <1>1, LockAssumption
    <3> QED
      BY <3>1, <3>2
  <2> QED
    BY <1>1, <2>1, <2>2
<1>12. CASE UNCHANGED <<lock, inodes, at, names, faults>>
  BY <1>1, <1>12
<1>13. \/ Start(p) \/ SeesNew(p) \/ OpenOld(p) \/ Flock(p) \/ Both(p) \/ Exit(p) \/ Again(p)
       => UNCHANGED <<lock, inodes, at, names, faults>>
  BY Zenon DEF Start, SeesNew, OpenOld, Flock, Both, Exit, Again
<1> QED
  BY <1>1, <1>4, <1>5, <1>6, <1>7, <1>8, <1>9, <1>10, <1>11, <1>12, <1>13 DEF Acts, Enters, Migrate

LEMMA TypeStep ==
  ASSUME LockInv, NEW p \in All, Acts(p)
  PROVE  LockTypeOK'
<1>1. LockTyped'
  BY StepShapes, ShapesKeepTypes
<1> QED
  BY <1>1, FilesTyped DEF LockTypeOK, LockTyped
-----------------------------------------------------------------------------
(* One lock file: the steps that touch its names, and all the others.      *)
LEMMA OneFileStep ==
  ASSUME LockInv, NEW p \in All, Acts(p)
  PROVE  OneFileInv'
<1>1. /\ inodes \in Nat /\ lock["old"] \in 0..inodes /\ lock["new"] \in 0..inodes
      /\ lock \in [Places -> 0..inodes] /\ split \in BOOLEAN
  BY DEF LockInv, LockTypeOK, OneFileInv, Places
<1>2. ~split => /\ inodes \in {0, 1}
                /\ inodes = 1 => lock["old"] = 1 \/ lock["new"] = 1
                /\ \A q \in All : doing[q] = "open new" /\ lock["new"] = 0 => inodes = 0
  BY DEF LockInv, OneFileInv, OneFile
<1>3. \A q \in All : q # p => doing'[q] = doing[q]
  <2>1. \E label : Goes(p, label)
    BY StepShapes DEF Walks, Quits, Grabs, Takes, Fails
  <2> QED
    BY <2>1 DEF Goes, LockInv, LockTypeOK
<1>4. doing \in [All -> Inside \cup {"idle", "old idle", "legacy exists", "open new", "open old",
                                 "flock", "busy", "conflict", "dead", "done"}]
  BY DEF LockInv, LockTypeOK
<1>5. ASSUME doing'[p] # "open new", lock' = lock, inodes' = inodes, split' = split
      PROVE  OneFileInv'
  <2>1. \A q \in All : doing'[q] = "open new" => doing[q] = "open new"
    BY <1>3, <1>5
  <2>2. ~split' => OneFile'
    BY <1>2, <1>5, <2>1 DEF OneFile
  <2> QED
    BY <1>1, <1>5, <2>2, Zenon DEF OneFileInv
<1>6. CASE Start(p)
  <2>1. UNCHANGED <<lock, inodes, split>>
    BY <1>6 DEF Start
  <2>2. doing'[p] = "open new" => lock["old"] = 0
    BY <1>4, <1>6 DEF Start, Goes
  <2>3. ~split => \A q \in All : doing'[q] = "open new" /\ lock["new"] = 0 => inodes = 0
    BY <1>1, <1>2, <1>3, <2>2
  <2>4. ~split' => OneFile'
    BY <1>2, <2>1, <2>3 DEF OneFile
  <2> QED
    BY <1>1, <2>1, <2>4, Zenon DEF OneFileInv
<1>7. CASE SeesNew(p)
  <2>1. UNCHANGED <<lock, inodes, split>>
    BY <1>7 DEF SeesNew
  <2>2. doing'[p] = "open new" => lock["new"] # 0
    BY <1>4, <1>7 DEF SeesNew, Goes
  <2>3. ~split => \A q \in All : doing'[q] = "open new" /\ lock["new"] = 0 => inodes = 0
    BY <1>2, <1>3, <2>2
  <2>4. ~split' => OneFile'
    BY <1>2, <2>1, <2>3 DEF OneFile
  <2> QED
    BY <1>1, <2>1, <2>4, Zenon DEF OneFileInv
<1>8. CASE OpenNew(p)
  <2>1. doing'[p] = "flock" /\ split' = split /\ doing[p] = "open new"
    BY <1>4, <1>8 DEF OpenNew, Opens, Goes
  <2>2. CASE lock["new"] # 0
    BY <1>5, <1>8, <2>1, <2>2 DEF OpenNew, Opens
  <2>3. CASE lock["new"] = 0
    <3>1. lock' = [lock EXCEPT !["new"] = inodes + 1] /\ inodes' = inodes + 1
      BY <1>8, <2>3 DEF OpenNew, Opens
    <3>2. ~split => inodes' = 1 /\ lock'["new"] = 1
      <4>1. ~split => inodes = 0
        BY <1>2, <2>1, <2>3
      <4>2. lock'["new"] = inodes + 1
        BY <1>1, <3>1 DEF Places
      <4> QED
        BY <3>1, <4>1, <4>2
    <3>3. ~split' => OneFile'
      BY <2>1, <3>2 DEF OneFile
    <3> QED
      BY <1>1, <2>1, <3>3, Zenon DEF OneFileInv
  <2> QED
    BY <2>2, <2>3
<1>9. CASE OldStart(p)
  <2>1. doing'[p] = "flock" /\ split' = (split \/ lock["old"] = 0)
    BY <1>4, <1>9 DEF OldStart, Opens, Goes
  <2>2. CASE lock["old"] # 0
    <3>1. lock' = lock /\ inodes' = inodes
      BY <1>9, <2>2 DEF OldStart, Opens
    <3>2. \A q \in All : doing'[q] = "open new" => doing[q] = "open new"
      BY <1>3, <2>1
    <3>3. ~split => OneFile'
      BY <1>2, <3>1, <3>2 DEF OneFile
    <3> QED
      BY <2>1, <2>2, <3>3, <1>1, Zenon DEF OneFileInv
  <2>3. CASE lock["old"] = 0
    BY <1>1, <2>1, <2>3, Zenon DEF OneFileInv
  <2> QED
    BY <2>2, <2>3
<1>10. CASE MoveLock(p)
  <2>1. doing'[p] # "open new" /\ inodes' = inodes /\ split' = split
    BY <1>4, <1>10 DEF MoveLock, Fails, Goes
  <2>2. CASE lock' = lock
    BY <1>5, <2>1, <2>2
  <2>3. CASE /\ lock["old"] # 0
             /\ lock' = [lock EXCEPT !["old"] = 0, !["new"] = lock["old"]]
    <3>1. ~split => lock["old"] = 1
      <4>1. ~split => inodes = 0 \/ inodes = 1
        BY <1>2
      <4> QED
        BY <1>1, <2>3, <4>1
    <3>2. lock'["new"] = lock["old"]
      BY <1>1, <2>3 DEF Places
    <3>3. ~split' => OneFile'
      BY <1>2, <2>1, <2>3, <3>1, <3>2 DEF OneFile
    <3> QED
      BY <1>1, <2>1, <3>3, Zenon DEF OneFileInv
  <2> QED
    BY <1>10, <2>2, <2>3 DEF MoveLock
<1>11. CASE LinkBack(p)
  <2>1. doing'[p] # "open new" /\ inodes' = inodes /\ split' = split
    BY <1>4, <1>11 DEF LinkBack, Goes
  <2>2. CASE lock' = lock
    BY <1>5, <2>1, <2>2
  <2>3. CASE lock["old"] = 0 /\ lock' = [lock EXCEPT !["old"] = lock["new"]]
    <3>1. lock'["new"] = lock["new"] /\ lock'["old"] = lock["new"]
      BY <1>1, <2>3 DEF Places
    <3>2. \A q \in All : doing'[q] = "open new" => doing[q] = "open new"
      BY <1>3, <2>1
    <3>3. ~split => (inodes = 1 => lock["new"] = 1)
      <4>1. ~split => (inodes = 1 => lock["old"] = 1 \/ lock["new"] = 1)
        BY <1>2
      <4> QED
        BY <2>3, <4>1
    <3>4. ~split' => OneFile'
      BY <1>2, <2>1, <3>1, <3>2, <3>3 DEF OneFile
    <3> QED
      BY <1>1, <2>1, <3>4, Zenon DEF OneFileInv
  <2> QED
    BY <1>11, <2>2, <2>3 DEF LinkBack
<1>12. ASSUME \/ OpenOld(p) \/ Flock(p) \/ Both(p) \/ Rewrite(p) \/ Exit(p) \/ Again(p)
              \/ RewriteFails(p) \/ LockFault(p) \/ OldInstall(p) \/ \E k \in DOMAIN Moves : Move(p, k)
       PROVE  OneFileInv'
  <2>1. doing'[p] # "open new"
    <3>1. (\E k \in DOMAIN Moves : Move(p, k)) => doing'[p] # "open new"
      BY <1>4, MovesAreHops DEF MoveOf, Hops, Goes, Fails
    <3> QED
      BY <1>4, <1>12, <3>1
      DEF OpenOld, Flock, Both, Rewrite, RewriteFails, Exit, Again, LockFault, OldInstall, Fails, Goes, Ready
  <2>2. UNCHANGED <<lock, inodes, split>>
    BY <1>12, Zenon
    DEF OpenOld, Flock, Both, Rewrite, RewriteFails, Exit, Again, LockFault, OldInstall, Move
  <2> QED
    BY <1>5, <2>1, <2>2
<1> QED
  BY <1>6, <1>7, <1>8, <1>9, <1>10, <1>11, <1>12 DEF Acts, Enters, Migrate
-----------------------------------------------------------------------------
LEMMA LockStep == LockInv /\ [LockNext]_lockVars => LockInv'
<1>1. ASSUME LockInv, LockNext PROVE LockInv'
  <2>1. PICK p \in All : Acts(p)
    BY <1>1 DEF LockNext, Acts
  <2> QED
    BY <1>1, <2>1, HolderStep, TypeStep, OneFileStep DEF LockInv
<1>2. ASSUME LockInv, UNCHANGED lockVars PROVE LockInv'
  BY <1>2 DEF lockVars, LockInv, LockTypeOK, HolderInv, RoleInv, OneFileInv, OneFile
<1> QED
  BY <1>1, <1>2

LEMMA LockInvariant == LockSpec => []LockInv
<1> QED
  BY InitLockInv, LockStep, PTL DEF LockSpec

(* Every variable of the lock keeps its range, and the holder of a lock    *)
(* file is a process that has it open.                                     *)
THEOREM LockTypeCorrect == LockSpec => []LockTypeOK
<1>1. LockInv => LockTypeOK
  BY DEF LockInv
<1> QED
  BY <1>1, LockInvariant, PTL

LEMMA InsideAlone == LockInv => Mutex
<1> SUFFICES ASSUME LockInv, ~split, NEW p \in All, NEW q \in All,
                    doing[p] \in Inside, doing[q] \in Inside
             PROVE  p = q
  BY DEF Mutex
<1>1. inodes \in {0, 1}
  BY DEF LockInv, OneFileInv, OneFile
<1>2. fd[p] \in 1..inodes /\ fd[q] \in 1..inodes /\ held[fd[p]] = p /\ held[fd[q]] = q
  BY OpenFiles DEF LockInv, HolderInv
<1>3. fd[p] = fd[q]
  BY <1>1, <1>2
<1> QED
  BY <1>2, <1>3

(* Two processes are never inside a root at once, of this version or of    *)
(* the one before, whatever step of moving the lock file one of them       *)
(* reached or died at, until an older installer makes a second lock file.  *)
THEOREM OneInside == LockSpec => []Mutex
<1> QED
  BY LockInvariant, InsideAlone, PTL

-----------------------------------------------------------------------------
(* What has been moved, step by step.                                      *)
LEMMA PastIsInside == \A e \in Entries : Past(e) \subseteq Inside /\ "critical" \in Past(e)
BY DEF Past, Entries, Inside

(* Who is alone inside disturbs no other, so its own entries decide.       *)
LEMMA OwnEntriesSuffice ==
  ASSUME LockInv, ~split, Moved, NEW p \in All, Acts(p),
         doing[p] \notin Inside => UNCHANGED <<at, names>>,
         p \in Procs =>
           /\ \A e \in Entries : doing'[p] \in Past(e) => at'[e] \subseteq {"new"}
           /\ doing'[p] = "critical" /\ at'["journal"] # {} => names' # "old"
  PROVE  Moved'
<1> SUFFICES ASSUME NEW q \in Procs
             PROVE  /\ \A e \in Entries : doing'[q] \in Past(e) => at'[e] \subseteq {"new"}
                    /\ doing'[q] = "critical" /\ at'["journal"] # {} => names' # "old"
  BY DEF Moved
<1>1. CASE q = p
  BY <1>1
<1>2. CASE q # p
  <2>1. \E label : Goes(p, label) \/ UNCHANGED doing
    BY StepShapes DEF Walks, Quits, Grabs, Takes, Fails
  <2>2. doing'[q] = doing[q] /\ q \in All
    BY <1>2, <2>1 DEF Goes, LockInv, LockTypeOK, All
  <2>3. CASE doing[q] \in Inside
    <3>1. UNCHANGED <<at, names>>
      BY <1>2, <2>2, <2>3, InsideAlone DEF Mutex
    <3> QED
      BY <2>2, <3>1 DEF Moved
  <2>4. CASE doing[q] \notin Inside
    BY <2>2, <2>4, PastIsInside DEF Inside
  <2> QED
    BY <2>3, <2>4
<1> QED
  BY <1>1, <1>2

LEMMA MoveStep ==
  ASSUME LockInv, ~split, Moved, NEW p \in All, Acts(p)
  PROVE  Moved'
<1>1. doing \in [All -> Inside \cup {"idle", "old idle", "legacy exists", "open new", "open old",
                                 "flock", "busy", "conflict", "dead", "done"}]
  BY DEF LockInv, LockTypeOK
<1>2. ASSUME UNCHANGED <<at, names>>,
             doing'[p] \notin Inside \/ doing'[p] \in {"both", "manifest", doing[p]}
                \/ (doing[p] \in {"lock", "link"} /\ doing'[p] \in {"link", "backups"})
                \/ p \notin Procs
      PROVE  Moved'
  <2>1. ASSUME p \in Procs
        PROVE  /\ \A e \in Entries : doing'[p] \in Past(e) => doing[p] \in Past(e)
               /\ doing'[p] = "critical" => doing[p] = "critical"
    BY <1>2, <2>1 DEF Past, Entries, Inside
  <2>2. p \in Procs =>
           /\ \A e \in Entries : doing'[p] \in Past(e) => at'[e] \subseteq {"new"}
           /\ doing'[p] = "critical" /\ at'["journal"] # {} => names' # "old"
    BY <1>2, <2>1 DEF Moved
  <2> QED
    BY <1>2, <2>2, OwnEntriesSuffice
<1>3. \/ Start(p) \/ SeesNew(p) \/ OpenOld(p) \/ OpenNew(p) \/ OldStart(p) \/ Flock(p) \/ Both(p)
      \/ MoveLock(p) \/ LinkBack(p) \/ Exit(p) \/ Again(p) \/ LockFault(p)
      => UNCHANGED <<at, names>>
  BY Zenon DEF Start, SeesNew, OpenOld, OpenNew, OldStart, Opens, Flock, Both, MoveLock, LinkBack,
               Exit, Again, LockFault
<1>4. ASSUME \/ Start(p) \/ SeesNew(p) \/ OpenOld(p) \/ OpenNew(p) \/ OldStart(p) \/ Exit(p)
             \/ Again(p) \/ LockFault(p)
      PROVE  doing'[p] \notin Inside
  BY <1>1, <1>4 DEF Start, SeesNew, OpenOld, OpenNew, OldStart, Opens, Exit, Again, LockFault,
                    Fails, Goes, Ready, Inside
<1>5. Flock(p) \/ Both(p) => doing'[p] \notin Inside \/ doing'[p] \in {"both", "manifest"} \/ p \notin Procs
  BY <1>1 DEF Flock, Both, Fails, Goes, Ready, Inside
<1>6. MoveLock(p) \/ LinkBack(p) =>
        doing'[p] \notin Inside \/ (doing[p] \in {"lock", "link"} /\ doing'[p] \in {"link", "backups"})
  BY <1>1 DEF MoveLock, LinkBack, Fails, Goes, Inside
<1>7. ASSUME NEW k \in DOMAIN Moves, Move(p, k) PROVE Moved'
  <2>1. PICK e \in Entries, next \in Inside : <<e, next>> \in Hops /\ MoveOf(p, e, next)
    BY <1>7, MovesAreHops
  <2>2. at \in [Entries -> SUBSET Places] /\ UNCHANGED names /\ doing[p] = e
    BY <2>1 DEF LockInv, LockTypeOK, MoveOf
  <2>3. CASE Fails(p, "conflict") /\ UNCHANGED at
    BY <1>1, <1>2, <2>2, <2>3 DEF Fails, Goes, Inside
  <2>4. CASE /\ doing' = [doing EXCEPT ![p] = next]
             /\ \/ "old" \notin at[e] /\ at' = at
                \/ at' = [at EXCEPT ![e] = {"new"}]
    <3>1. at'[e] \subseteq {"new"} /\ \A f \in Entries : f # e => at'[f] = at[f]
      BY <2>2, <2>4 DEF Places
    <3>2. \A f \in Entries : doing'[p] \in Past(f) => f = e \/ doing[p] \in Past(f)
      <4>1. doing'[p] = next /\ doing[p] = e
        BY <1>1, <2>2, <2>4
      <4>2. CASE e = "manifest" /\ next = "journal"
        BY <4>1, <4>2 DEF Past, Entries
      <4>3. CASE e = "journal" /\ next = "lock"
        BY <4>1, <4>3 DEF Past, Entries
      <4>4. CASE e = "backups" /\ next = "stage"
        BY <4>1, <4>4 DEF Past, Entries
      <4>5. CASE e = "stage" /\ next = "rewrite"
        BY <4>1, <4>5 DEF Past, Entries
      <4> QED
        BY <2>1, <4>2, <4>3, <4>4, <4>5 DEF Hops
    <3>3. doing'[p] # "critical"
      BY <1>1, <2>1, <2>4 DEF Hops
    <3>4. doing[p] \in Inside
      BY <2>2 DEF Entries, Inside
    <3> QED
      BY <3>1, <3>2, <3>3, <3>4, OwnEntriesSuffice DEF Moved
  <2> QED
    BY <2>1, <2>3, <2>4 DEF MoveOf, Goes
<1>8. CASE Rewrite(p) \/ RewriteFails(p)
  <2>1. /\ UNCHANGED at
        /\ "new" \in at["journal"] => names' \in {"new", "stale"}
        /\ doing[p] = "rewrite" /\ doing[p] \in Inside
    BY <1>8 DEF Rewrite, RewriteFails, Inside
  <2>2. p \in Procs => \A e \in Entries : at[e] \subseteq {"new"}
    BY <2>1 DEF Moved, Past, Entries
  <2>3. p \in Procs => (at["journal"] # {} => names' # "old")
    BY <2>1, <2>2 DEF Entries
  <2> QED
    BY <2>1, <2>2, <2>3, OwnEntriesSuffice
<1>9. CASE OldInstall(p)
  <2>1. p \notin Procs /\ doing[p] \in Inside
    BY <1>9, LockAssumption DEF OldInstall, Inside
  <2> QED
    BY <2>1, OwnEntriesSuffice
<1> QED
  BY <1>2, <1>3, <1>4, <1>5, <1>6, <1>7, <1>8, <1>9 DEF Acts, Enters, Migrate
LEMMA MoveInvStep == LockInv /\ MoveInv /\ [LockNext]_lockVars => MoveInv'
<1>1. ASSUME LockInv, MoveInv, LockNext PROVE MoveInv'
  <2>1. PICK p \in All : Acts(p)
    BY <1>1 DEF LockNext, Acts
  <2>2. ~split' => ~split
    BY <2>1 DEF Acts, Enters, Migrate, Start, SeesNew, OpenOld, OpenNew, Flock, Both, MoveLock, LinkBack,
                Rewrite, RewriteFails, Move, Exit, Again, LockFault, OldStart, OldInstall
  <2> QED
    BY <1>1, <2>1, <2>2, MoveStep DEF MoveInv
<1>2. ASSUME MoveInv, UNCHANGED lockVars PROVE MoveInv'
  BY <1>2 DEF lockVars, MoveInv, Moved
<1> QED
  BY <1>1, <1>2

LEMMA InitMoveInv == LockInit => MoveInv
<1> SUFFICES ASSUME LockInit PROVE Moved
  BY DEF MoveInv
<1>1. \A p \in Procs : doing[p] = "idle"
  BY DEF LockInit, Ready, All
<1>2. \A e \in Entries : "idle" \notin Past(e)
  BY DEF Past, Entries
<1> QED
  BY <1>1, <1>2 DEF Moved

(* A command that is in finds every control file in .state and a journal   *)
(* that names the trees where they are (where they were only if the last   *)
(* rewrite of the journal failed), however many commands died while they   *)
(* moved them; MoveInv says which entries each step has behind it.    *)
THEOREM MovedBeforeIn == LockSpec => []MovedBefore
<1>1. LockInv /\ MoveInv => MovedBefore
  BY PastIsInside DEF MoveInv, Moved, MovedBefore
<1>2. LockSpec => [](LockInv /\ MoveInv)
  BY InitLockInv, InitMoveInv, LockStep, MoveInvStep, PTL DEF LockSpec
<1> QED
  BY <1>1, <1>2, PTL

-----------------------------------------------------------------------------
LEMMA PlacesCount ==
  ASSUME NEW S \in SUBSET Places
  PROVE  IsFiniteSet(S) /\ Cardinality(S) \in Nat
<1>1. IsFiniteSet(Places)
  <2>1. IsFiniteSet({"old"}) /\ Places = {"old"} \cup {"new"}
    BY FS_Singleton DEF Places
  <2> QED
    BY <2>1, FS_AddElement
<1>2. IsFiniteSet(S)
  BY <1>1, FS_Subset
<1> QED
  BY <1>2, FS_CardinalityType

(* No step takes a control file away or moves it over another: only the    *)
(* move itself and an older installer's manifest change where one is.      *)
THEOREM NothingIsLost == LockSpec => NothingLost
<1> DEFINE Kept == \A e \in Entries : Cardinality(at'[e]) >= Cardinality(at[e])
<1>1. ASSUME LockInv, UNCHANGED at PROVE Kept
  <2>1. \A f \in Entries : at[f] \in SUBSET Places /\ at'[f] = at[f]
    BY <1>1 DEF LockInv, LockTypeOK
  <2>2. \A f \in Entries : Cardinality(at[f]) \in Nat
    BY <2>1, PlacesCount
  <2> QED
    BY <2>1, <2>2
<1>2. ASSUME LockInv, NEW p \in All, NEW k \in DOMAIN Moves, Move(p, k), ~UNCHANGED at PROVE Kept
  <2> DEFINE e == Moves[k]
  <2>1. /\ e \in Entries /\ at[e] \subseteq Places /\ "old" \in at[e] /\ "new" \notin at[e]
        /\ at' = [at EXCEPT ![e] = {"new"}]
    BY <1>2 DEF Move, LockInv, LockTypeOK
  <2>2. at[e] = {"old"}
    BY <2>1 DEF Places
  <2>3. Cardinality({"old"}) = 1 /\ Cardinality({"new"}) = 1
    BY FS_Singleton
  <2> HIDE DEF e
  <2>4. at \in [Entries -> SUBSET Places]
    BY <1>2 DEF LockInv, LockTypeOK
  <2>5. \A f \in Entries : at'[f] = IF f = e THEN {"new"} ELSE at[f]
    BY <2>1, <2>4
  <2>6. \A f \in Entries : Cardinality(at[f]) \in Nat
    BY <2>4, PlacesCount
  <2> QED
    BY <2>2, <2>3, <2>5, <2>6
<1>3. ASSUME LockInv, NEW p \in All, OldInstall(p) PROVE Kept
  <2>1. at' = [at EXCEPT !["manifest"] = @ \cup {"old"}]
    BY <1>3 DEF OldInstall
  <2>2. \A f \in Entries : at[f] \in SUBSET Places /\ at'[f] \in SUBSET Places /\ at[f] \subseteq at'[f]
    BY <1>3, <2>1 DEF LockInv, LockTypeOK, Places
  <2>3. \A f \in Entries : Cardinality(at[f]) <= Cardinality(at'[f])
    BY <2>2, PlacesCount, FS_Subset
  <2> QED
    BY <2>2, <2>3, PlacesCount
<1>4. ASSUME LockInv, LockNext PROVE Kept
  <2>1. PICK p \in All : Acts(p)
    BY <1>4 DEF LockNext, Acts
  <2>2. \/ UNCHANGED at \/ OldInstall(p) \/ \E k \in DOMAIN Moves : Move(p, k)
    BY <2>1, Zenon
    DEF Acts, Enters, Migrate, Start, SeesNew, OpenOld, OpenNew, OldStart, Opens, Flock, Both,
        MoveLock, LinkBack, Rewrite, RewriteFails, Exit, Again, LockFault
  <2> QED
    BY <1>1, <1>2, <1>3, <1>4, <2>2
<1>5. LockInv /\ [LockNext]_lockVars => [Kept]_lockVars
  BY <1>4
<1> QED
  BY <1>5, LockInvariant, PTL DEF LockSpec, NothingLost
=============================================================================
