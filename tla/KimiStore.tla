------------------------------- MODULE KimiStore -------------------------------
(* The Kimi adapter, src/portable_resume/adapters/kimi.py.  A store is an   *)
(* append-only index (sessions named, sessions deleted) and the transcripts *)
(* on disk, which the index may miss or outlive; the log is what happened   *)
(* to both, in order.  A transcript is a log of messages and of the parts   *)
(* an answer was streamed in.                                               *)
EXTENDS Integers, Sequences, FiniteSets, SequencesExt

CONSTANT SessionIds

(* own: the indexed directory is the session's own, below sessions/.        *)
Records ==
    [kind : {"create", "remove", "deleted"}, session : SessionIds]
    \cup [kind : {"indexed"}, session : SessionIds, own : BOOLEAN]
    \cup [kind : {"garbage", "misshaped", "torn"}]

Lines == {"deleted", "indexed", "garbage", "misshaped", "torn"}
Index(log) == SelectSeq(log, LAMBDA r : r.kind \in Lines)

(* _choose_transcript: the sessions whose wire.jsonl is there now.          *)
Transcripts(log) ==
    FoldLeft(LAMBDA here, r : CASE r.kind = "create" -> here \cup {r.session}
                                [] r.kind = "remove" -> here \ {r.session}
                                [] OTHER             -> here, {}, log)

-----------------------------------------------------------------------------
Nothing == [output |-> {}, tombstones |-> {}]

(* A session named with its own directory is there if its transcript is; a  *)
(* name with another directory is ignored.                                  *)
IndexLine(s, r, here) ==
    CASE r.kind = "deleted" -> [output |-> s.output \ {r.session}, tombstones |-> s.tombstones \cup {r.session}]
      [] r.kind = "indexed" /\ r.own /\ r.session \in here
                            -> [output |-> s.output \cup {r.session}, tombstones |-> s.tombstones \ {r.session}]
      [] r.kind = "indexed" /\ r.own /\ r.session \notin here
                            -> [s EXCEPT !.output = @ \ {r.session}]
      [] OTHER              -> s

ReduceCurrentIndex(log) == FoldLeft(LAMBDA s, r : IndexLine(s, r, Transcripts(log)), Nothing, Index(log))

(* A line that is JSON but no index entry: the index cannot be trusted, and *)
(* nothing is listed without it, for its deletions may be lost.             *)
Untrusted(log) == \E i \in DOMAIN log : log[i].kind = "misshaped"

FsFallbackCurrent(log) == Transcripts(log)

CurrentRecords(log) ==
    LET reduced == ReduceCurrentIndex(log)
    IN  IF Untrusted(log) THEN {} ELSE reduced.output \cup (FsFallbackCurrent(log) \ reduced.tombstones)

(* _current_exact_id_records: one session, without a walk over all of them. *)
CurrentExactIdRecords(log, id) ==
    LET reduced == ReduceCurrentIndex(log)
    IN  ~Untrusted(log) /\ id \notin reduced.tombstones /\ id \in reduced.output \cup Transcripts(log)

-----------------------------------------------------------------------------
(* Transcripts: text is the position it was written at.                     *)
WireRecords == [kind : {"message", "tool", "control", "torn"}] \cup [kind : {"part"}, step : {"s1", "s2", "none"}]

Group(r) == IF r.kind = "part" THEN r.step ELSE "none"

(* A part is joined to the turn before it when both are of one step.        *)
Join(turns, r, at) ==
    IF Group(r) # "none" /\ turns # <<>> /\ Last(turns).group = Group(r)
    THEN [turns EXCEPT ![Len(turns)].text = Append(@, at)]
    ELSE Append(turns, [group |-> Group(r), text |-> <<at>>])

ParseTranscript(wire) ==
    FoldLeftDomain(LAMBDA turns, i : IF wire[i].kind \in {"control", "torn"} THEN turns ELSE Join(turns, wire[i], i),
                   <<>>, wire)

-----------------------------------------------------------------------------
LastLine(log, id) ==
    LET lines == SelectSeq(log, LAMBDA r : \/ r.kind = "deleted" /\ r.session = id
                                           \/ r.kind = "indexed" /\ r.session = id /\ r.own)
    IN  IF lines = <<>> THEN "none" ELSE Last(lines).kind

(* A session whose last index line deletes it is not listed, though its     *)
(* directory may still be there; any other is listed exactly while its      *)
(* transcript is there, whether the index names it or not.                  *)
DeletedStaysDeleted(log) ==
    \A id \in SessionIds : ~Untrusted(log) =>
        (id \in CurrentRecords(log) <=> id \in Transcripts(log) /\ LastLine(log, id) # "deleted")

(* Asking for a session by its id finds it exactly when the list has it.    *)
ExactFindsListed(log) ==
    \A id \in SessionIds : CurrentExactIdRecords(log, id) <=> id \in CurrentRecords(log)

(* The turns hold everything said once and in the order it was said, and no *)
(* streamed answer is left in two neighbouring pieces.                      *)
PartsAreJoined(wire) ==
    LET turns == ParseTranscript(wire)
    IN  /\ FlattenSeq([i \in DOMAIN turns |-> turns[i].text])
               = SelectSeq([i \in DOMAIN wire |-> i], LAMBDA i : wire[i].kind \notin {"control", "torn"})
        /\ \A i \in 1 .. Len(turns) - 1 : turns[i].group = "none" \/ turns[i].group # turns[i + 1].group
=============================================================================
