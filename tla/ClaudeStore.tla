------------------------------ MODULE ClaudeStore ------------------------------
(* adapters/claude.py: which transcripts list and show look at.  A session  *)
(* is a file of a project directory whose name is a lossy spelling of the   *)
(* working directory: the own one may hold sessions of another directory,   *)
(* another one a moved session of this.  The log is the lines written.      *)
EXTENDS Integers, Sequences, FiniteSets, SequencesExt

CONSTANTS SessionIds,
          Window          \* lines the head and the tail of a list's read hold

Latest == 0               \* no session's id
Projects == {"own", "other"}

(* A line records a working directory, is damaged, or names another         *)
(* session (alien).                                                         *)
Records == [id : SessionIds, project : Projects, line : {"here", "there", "broken", "alien"}]

Files(log) == {[id |-> r.id, project |-> r.project] : r \in Range(log)}
Lines(log, file) ==
    SelectSeq([i \in DOMAIN log |-> [log[i] EXCEPT !.id = i]],
              LAMBDA l : log[l.id].id = file.id /\ l.project = file.project)
Stamp(log, file) == Last(Lines(log, file)).id

-----------------------------------------------------------------------------
(* _TranscriptMetadata.observe and selected_cwd: the first directory that   *)
(* is recorded is the session's.                                            *)
Metadata(lines) ==
    [code |-> IF \E l \in Range(lines) : l.line = "broken" THEN "E_CORRUPT_RECORD" ELSE "",
     alien |-> \E l \in Range(lines) : l.line = "alien",
     cwd |-> IF lines[1].line = "there" THEN "there" ELSE "here"]

(* _scan_metadata_chunk, for a cwd alone ended by the first.                *)
CwdOnly(lines) == Metadata(SubSeq(lines, 1, 1))

(* _metadata_windows: of a long file its ends.                              *)
Windows(lines) ==
    IF Len(lines) <= 2 * Window THEN Metadata(lines)
    ELSE Metadata(SubSeq(lines, 1, Window) \o SubSeq(lines, Len(lines) - Window + 1, Len(lines)))

(* _summary and _metadata_session_id                                        *)
Summary(log, file) ==
    LET seen == Windows(Lines(log, file))
    IN  CASE seen.code # "" \/ seen.alien -> "corrupt"
          [] seen.cwd = "here"            -> "row"
          [] OTHER                        -> "none"

-----------------------------------------------------------------------------
(* _direct_uuid_under_slugs: without a look at any other project.           *)
Direct(log, id) == {f \in Files(log) : f.id = id /\ f.project = "own"}

(* _exact_uuid_paths                                                        *)
ExactPaths(log, id) == {f \in Files(log) : f.id = id}

(* _cwd_scoped_session_paths: the own project, or every one if there is     *)
(* none.                                                                    *)
CwdFallback(log) == \A f \in Files(log) : f.project # "own"
ScopedPaths(log) == IF CwdFallback(log) THEN Files(log) ELSE {f \in Files(log) : f.project = "own"}

Collect(log, paths) ==
    IF \E f \in paths : Summary(log, f) = "corrupt" THEN [failed |-> TRUE, rows |-> {}]
    ELSE [failed |-> FALSE, rows |-> {f \in paths : Summary(log, f) = "row"}]

(* list, an exact id: the direct file if it is of this directory, else the  *)
(* others of that name.                                                     *)
ListExact(log, id) ==
    LET direct == Collect(log, Direct(log, id))
    IN  IF direct.failed \/ direct.rows # {} THEN direct
        ELSE Collect(log, ExactPaths(log, id) \ Direct(log, id))

(* _recorded_cwd_matches, asked only if every project is looked at.         *)
Admitted(log) ==
    IF CwdFallback(log) THEN {f \in ScopedPaths(log) : CwdOnly(Lines(log, f)).cwd = "here"}
    ELSE ScopedPaths(log)

(* list: the prefilter fails on a first line that it cannot decode.         *)
List(log, ref) ==
    IF ref # Latest THEN ListExact(log, ref)
    ELSE IF CwdFallback(log) /\ \E f \in ScopedPaths(log) : CwdOnly(Lines(log, f)).code # ""
         THEN [failed |-> TRUE, rows |-> {}] ELSE Collect(log, Admitted(log))

(* _assemble_from_index, of the whole file.                                 *)
Assemble(log, file) ==
    LET whole == Metadata(Lines(log, file))
    IN  CASE whole.code # "" \/ whole.alien -> [code |-> "E_CORRUPT_RECORD", lines |-> <<>>]
          [] whole.cwd # "here"             -> [code |-> "E_NO_MATCH", lines |-> <<>>]
          [] OTHER                          -> [code |-> "", lines |-> Lines(log, file)]

(* show of an id alone: the direct file if it is of this directory; of one  *)
(* other nothing is asked before it is read.                                *)
Show(log, id) ==
    LET direct == Collect(log, Direct(log, id))
        others == ExactPaths(log, id) \ Direct(log, id)
        found == IF direct.failed \/ direct.rows # {} THEN direct
                 ELSE IF Cardinality(others) = 1 THEN [failed |-> FALSE, rows |-> others]
                 ELSE Collect(log, others)
    IN  CASE found.failed    -> [code |-> "E_CORRUPT_RECORD", lines |-> <<>>]
          [] found.rows = {} -> [code |-> "E_NO_MATCH", lines |-> <<>>]
          [] OTHER           -> Assemble(log, CHOOSE f \in found.rows : TRUE)

-----------------------------------------------------------------------------
Damaged(log, file) == \E l \in Range(Lines(log, file)) : l.line \in {"broken", "alien"}
OfHere(log, file) == Lines(log, file)[1].line = "here"

(* A session of this directory is found by its id wherever its file lies: a *)
(* file of the same name in the expected project, which is of another       *)
(* directory, does not hide it.  No session of another directory is given,  *)
(* and with the id alone show comes to the same file, whole.                *)
ExactIdIsFound(log) ==
    \A id \in SessionIds :
        LET all == ExactPaths(log, id)
            here == {f \in all : OfHere(log, f)}
            answer == List(log, id)
        IN  (\A f \in all : ~Damaged(log, f)) =>
                /\ ~answer.failed /\ answer.rows \subseteq here
                /\ here # {} => /\ Cardinality(answer.rows) = 1
                                /\ \E f \in answer.rows : Show(log, id) = [code |-> "", lines |-> Lines(log, f)]
                /\ here = {} => Show(log, id).code = "E_NO_MATCH"

(* If the expected project is not there, every project is searched, yet     *)
(* damage in a session of another directory, after the line that says so,   *)
(* does not keep the sessions of this one from being listed.                *)
DamageIsIsolated(log) ==
    LET answer == List(log, Latest)
        here == {f \in ScopedPaths(log) : OfHere(log, f)}
    IN  /\ \A f \in answer.rows : f \in ScopedPaths(log) /\ Lines(log, f)[1].line # "there"
        /\ CwdFallback(log) /\ (\A f \in Files(log) : Damaged(log, f) => Lines(log, f)[1].line = "there") =>
               ~answer.failed /\ answer.rows = here
=============================================================================
