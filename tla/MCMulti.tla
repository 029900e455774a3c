------------------------------- MODULE MCMulti -------------------------------
(* Instances of MultiTarget for TLC. *)
EXTENDS MultiTarget, TLC

CONSTANTS skill, runtime        \* payload paths
CONSTANTS claude, codex         \* claims
CONSTANTS p1, p2                \* processes
CONSTANTS s1, s2, r1            \* shipped contents
CONSTANTS mine                  \* user contents

Pay(rel, pay) == [release |-> rel, files |-> [f \in Path |-> pay[f]]]

(* The new release no longer ships the runtime. *)
Old == Pay(1, skill :> s1 @@ runtime :> r1)
New == Pay(2, skill :> s2 @@ runtime :> Absent)

Bundles == {Old, New}

Req(b, ts) == [bundle |-> b, targets |-> ts]

(* Both hosts share root 1; claude also has root 2. *)
Requests == {Req(Old, {<<claude, 1>>}),
             Req(New, {<<claude, 1>>, <<codex, 1>>, <<claude, 2>>}),
             Req(New, {<<codex, 2>>, <<codex, 1>>})}

(* Without the request that names the roots the other way round. *)
Overlapping == {Req(Old, {<<claude, 1>>}),
                Req(New, {<<claude, 1>>, <<codex, 1>>, <<claude, 2>>})}

Symmetry == Permutations({p1, p2})
=============================================================================
