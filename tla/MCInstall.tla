------------------------------ MODULE MCInstall ------------------------------
(* Instances of InstallProps for TLC. *)
EXTENDS InstallProps, TLC

CONSTANTS skill, extra, runtime      \* payload paths
CONSTANTS claude, codex              \* claims
CONSTANTS p1, p2                     \* processes
CONSTANTS s1, s2, e1, r1             \* shipped contents
CONSTANTS mine                       \* user contents

Pay(rel, pay) == [release |-> rel, files |-> [f \in Path |-> pay[f]]]

(* Two releases whose bundles ship the same paths; the runtime file is the *)
(* same in both.                                                           *)
Steady == {Pay(1, skill :> s1 @@ runtime :> r1), Pay(2, skill :> s2 @@ runtime :> r1)}

(* Two selections of sources: the second drops a skill of the first, which *)
(* makes its file an orphan.                                               *)
Dropping == {Pay(1, skill :> s1 @@ extra :> e1), Pay(1, skill :> s1 @@ extra :> Absent)}

Symmetry == Permutations({p1, p2})
=============================================================================
