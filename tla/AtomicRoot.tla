------------------------------ MODULE AtomicRoot -----------------------------
(***************************************************************************)
(* What an installed skill root promises: its ownership manifest and its   *)
(* payload move together, in one step, from one published generation to    *)
(* the next.  No journal, no lock, no crash shows at this level.           *)
(***************************************************************************)
EXTENDS Ownership

CONSTANT Forcing      \* the --force-with-backup values used

VARIABLES manifest, payload

Init == /\ manifest = NoManifest
        /\ payload \in [Path -> UserData \cup {Absent}]

(* A file with no owner left goes, unless it cannot be unlinked.           *)
Install(c, b) ==
    /\ Plannable(manifest, c, b)
    /\ \E force \in Forcing : \A f \in Files(b) :
           Classify(manifest, f, payload[f], b.files[f], force) # "conflict"
    /\ manifest' = WithClaim(manifest, c, b)
    /\ \E left \in SUBSET (Owned(manifest) \ Owned(manifest')) :
           payload' = [f \in Path |-> IF f \in left THEN payload[f]
                                      ELSE PayloadAfter(manifest, manifest', payload, b)[f]]

Uninstall(c) ==
    /\ c \in manifest.claims
    /\ manifest' = WithoutClaim(manifest, c)
    /\ payload' = [f \in Path |->
           IF f \in SoleOwned(manifest, c) /\ payload[f] = manifest.sha[f]
           THEN Absent
           ELSE payload[f]]

Next == \E c \in Claim : Uninstall(c) \/ \E b \in Bundle : Install(c, b)

Spec == Init /\ [][Next]_<<manifest, payload>>
=============================================================================
