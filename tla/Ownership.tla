------------------------------ MODULE Ownership ------------------------------
(***************************************************************************)
(* The ownership manifest of one skill root, and the pure decisions taken  *)
(* from it: which plans are admissible, what manifest an install or an     *)
(* uninstall publishes, how a destination file is classified.              *)
(*                                                                         *)
(* A file's bytes are known to the installer only by their SHA-256, so a   *)
(* file holds a member of Digest (bytes some bundle ships) or of UserData  *)
(* (bytes nobody shipped), or Absent.  A bundle is what one host's skill   *)
(* payload renders to under one release and one selection of sources.      *)
(***************************************************************************)
EXTENDS Naturals

CONSTANTS
    Path,       \* payload paths relative to the skill root
    Claim,      \* ownership claims: one per (host, scope, root)
    Release,    \* values of BUNDLE_VERSION
    Digest,     \* contents shipped by bundles
    UserData,   \* contents written by users
    Absent,     \* no file at a path; also: no recorded digest
    Bundle      \* the payloads an installer can be asked to write

Content == Digest \cup UserData
Leaf    == Content \cup {Absent}

ASSUME ContentAssumption == /\ Absent \notin Content
                            /\ Digest \cap UserData = {}

ASSUME BundleAssumption ==
    /\ Bundle \subseteq [release : Release, files : [Path -> Digest \cup {Absent}]]
    /\ Bundle # {}

Files(b) == {f \in Path : b.files[f] # Absent}

(* A manifest file that does not exist is the value NoManifest: generation *)
(* 0, nothing owned.  A path is listed exactly when it has an owner.       *)
Manifest == [gen     : Nat,
             release : Release \cup {Absent},
             claims  : SUBSET Claim,
             sha     : [Path -> Digest \cup {Absent}],
             owner   : [Path -> SUBSET Claim]]

NoManifest == [gen     |-> 0,
               release |-> Absent,
               claims  |-> {},
               sha     |-> [f \in Path |-> Absent],
               owner   |-> [f \in Path |-> {}]]

Owned(m) == {f \in Path : m.owner[f] # {}}

(* One payload identity per root: a claim may bring a new release only if  *)
(* it is the only claim, and a path shared with another claim must keep    *)
(* its content.  Otherwise E_INSTALL_CONFLICT.                             *)
Plannable(m, c, b) ==
    /\ (m # NoManifest /\ m.release # b.release) => m.claims \subseteq {c}
    /\ \A f \in Files(b) : m.owner[f] \ {c} # {} => m.sha[f] = b.files[f]

(* build_manifest: c's old references are dropped, those of the bundle are *)
(* added, and a path left without an owner is forgotten.                   *)
WithClaim(m, c, b) ==
    LET owner == [f \in Path |-> IF f \in Files(b) THEN m.owner[f] \cup {c}
                                                   ELSE m.owner[f] \ {c}]
    IN  [gen     |-> m.gen + 1,
         release |-> b.release,
         claims  |-> m.claims \cup {c},
         owner   |-> owner,
         sha     |-> [f \in Path |-> IF f \in Files(b) THEN b.files[f]
                                     ELSE IF owner[f] # {} THEN m.sha[f]
                                     ELSE Absent]]

(* uninstall_claim: the claim and its sole-owned paths leave the manifest; *)
(* the manifest file goes with the last claim.                             *)
WithoutClaim(m, c) ==
    LET owner == [f \in Path |-> m.owner[f] \ {c}]
    IN  IF m.claims = {c} THEN NoManifest
        ELSE [gen     |-> m.gen + 1,
              release |-> m.release,
              claims  |-> m.claims \ {c},
              owner   |-> owner,
              sha     |-> [f \in Path |-> IF owner[f] # {} THEN m.sha[f]
                                                           ELSE Absent]]

SoleOwned(m, c) == {f \in Path : m.owner[f] = {c}}

(* The payload pay once b's files are published over it with manifest new: *)
(* a file no longer owned goes if it still holds what m records.           *)
PayloadAfter(m, new, pay, b) ==
    [f \in Path |-> IF f \in Files(b) THEN b.files[f]
                    ELSE IF f \in Owned(m) \ Owned(new) /\ pay[f] = m.sha[f] THEN Absent
                    ELSE pay[f]]

(* What writing the bytes new over the leaf cur at path f amounts to.      *)
Classify(m, f, cur, new, force) ==
    CASE cur = Absent      -> "create"
      [] cur = new         -> "retain"
      [] cur \notin {Absent, new} /\ m.owner[f] # {}           -> "replace"
      [] cur \notin {Absent, new} /\ m.owner[f] = {} /\ force  -> "backup"
      [] OTHER             -> "conflict"
=============================================================================
