------------------------------ MODULE AtomicLeaf -----------------------------
(***************************************************************************)
(* What the installer's file primitives promise about one path that users  *)
(* write as well: whatever happens, a user's bytes stay until a user       *)
(* replaces them, unless the caller was given licence to replace them.     *)
(* InstallTxn and MultiTarget take each primitive for one such step.       *)
(***************************************************************************)
EXTENDS Naturals

CONSTANTS Shipped, UserData, Absent

VARIABLES leaf, licence, edits

Leaf == Shipped \cup UserData \cup {Absent}

Init == leaf \in Leaf /\ licence = FALSE /\ edits = 0

UserWrite == leaf' \in Leaf /\ edits' = edits + 1 /\ licence' = licence

(* Into a free path, or over or away from bytes the installer shipped. *)
Place == leaf \notin UserData /\ leaf' \in Leaf /\ UNCHANGED <<licence, edits>>

Overwrite == licence /\ leaf' \in Shipped /\ licence' = FALSE /\ UNCHANGED edits

Ask == licence' \in BOOLEAN /\ UNCHANGED <<leaf, edits>>

Next == UserWrite \/ Place \/ Overwrite \/ Ask

Spec == Init /\ [][Next]_<<leaf, licence, edits>>
=============================================================================
