------------------------------ MODULE GrokUpdates ------------------------------
(* The Grok adapter, src/portable_resume/adapters/grok.py: a session is a   *)
(* stream of updates; a compaction checkpoint replaces what came before by  *)
(* the history kept in its sidecar file.  A piece of text is the place of   *)
(* its update; the pieces of a checkpoint's history have negative places.   *)
EXTENDS Integers, Sequences, FiniteSets, SequencesExt

CONSTANTS MaxTurns,       \* normalized_turns
          MaxPieces       \* normalized_content_bytes of one turn, in pieces

Histories == {<<>>, <<"assistant">>, <<"user", "assistant">>}     \* roles of its public entries

(* sidecar: the file the checkpoint names is there and is the checkpoint's. *)
Records ==
    [kind : {"user", "assistant"}] \cup [kind : {"tool", "filtered", "rewind", "torn"}]
    \cup [kind : {"checkpoint"}, history : Histories, sidecar : BOOLEAN]

-----------------------------------------------------------------------------
(* A piece goes on the last turn when that is of its role, as far as there  *)
(* is room.                                                                 *)
AppendChunk(turns, role, piece) ==
    LET n == Len(turns)
        joins == n > 0 /\ turns[n].role = role
    IN  CASE joins /\ Len(turns[n].text) < MaxPieces  -> [turns EXCEPT ![n].text = Append(@, piece)]
          [] joins /\ Len(turns[n].text) >= MaxPieces -> [turns EXCEPT ![n].truncated = TRUE]
          [] OTHER -> Append(turns, [role |-> role, text |-> <<piece>>, truncated |-> FALSE])

AppendTool(turns, piece) == Append(turns, [role |-> "tool", text |-> <<piece>>, truncated |-> FALSE])

ApplyCompactionCheckpoint(turns, history) ==
    FoldLeftDomain(LAMBDA t, i : AppendChunk(t, history[i], -i), <<>>, history)

Update(turns, r, at) ==
    CASE r.kind \in {"user", "assistant"} -> AppendChunk(turns, r.kind, at)
      [] r.kind = "tool"                  -> AppendTool(turns, at)
      [] r.kind = "checkpoint"            -> ApplyCompactionCheckpoint(turns, r.history)
      [] OTHER                            -> turns

Projection(log) == FoldLeftDomain(LAMBDA turns, i : Update(turns, log[i], i), <<>>, log)

Failed(code) == [code |-> code, turns |-> <<>>]
Has(log, P(_)) == \E i \in DOMAIN log : P(log[i])

(* A rewind cannot be read; only the turns that survive are charged.        *)
ParseUpdates(log) ==
    CASE Has(log, LAMBDA r : r.kind = "rewind")                    -> Failed("E_UNSUPPORTED_FORMAT")
      [] Has(log, LAMBDA r : r.kind = "checkpoint" /\ ~r.sidecar)  -> Failed("E_CORRUPT_RECORD")
      [] ~Has(log, LAMBDA r : r.kind # "torn")                     -> Failed("E_UNSUPPORTED_FORMAT")
      [] Len(Projection(log)) > MaxTurns                           -> Failed("E_LIMIT_EXCEEDED")
      [] OTHER                                                     -> [code |-> "", turns |-> Projection(log)]

-----------------------------------------------------------------------------
Text(turns) == [i \in DOMAIN turns |-> [role |-> turns[i].role, pieces |-> Len(turns[i].text), cut |-> turns[i].truncated]]

(* From a checkpoint on, the session reads as if it had begun there:        *)
(* nothing from before is shown, and nothing from before, however long,     *)
(* keeps it from being shown.                                               *)
ResumesFromCheckpoint(log) ==
    \A k \in DOMAIN log : log[k].kind = "checkpoint" =>
        LET since == ParseUpdates(SubSeq(log, k, Len(log)))
            whole == ParseUpdates(log)
        IN  whole.code \in {"", "E_LIMIT_EXCEEDED"} =>
                whole.code = since.code /\ Text(whole.turns) = Text(since.turns)

(* Every piece said since the last checkpoint is shown, in its order, or    *)
(* belongs to a turn that is marked as truncated.                           *)
NothingCutSilently(log) ==
    LET shown == ParseUpdates(log)
        last == SelectLastInSeq(log, LAMBDA r : r.kind = "checkpoint")
        pieces == FlattenSeq([i \in DOMAIN shown.turns |-> shown.turns[i].text])
    IN  shown.code = "" =>
        /\ \A i, j \in DOMAIN pieces : i < j /\ pieces[i] > 0 => pieces[i] < pieces[j]
        /\ \A i \in DOMAIN log : i > last /\ log[i].kind \in {"user", "assistant", "tool"} =>
              \/ Contains(pieces, i)
              \/ \E t \in Range(shown.turns) : t.truncated /\ t.role = log[i].kind
=============================================================================
