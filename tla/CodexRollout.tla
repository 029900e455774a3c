----------------------------- MODULE CodexRollout -----------------------------
(* The Codex adapter, src/portable_resume/adapters/codex.py: what a rollout *)
(* log reads as.  A log is the sequence of the lines Codex appended; a line *)
(* is a record reduced to what the reducer looks at.  The last line may be  *)
(* "torn": not yet terminated, and not yet JSON.                            *)
EXTENDS Integers, Sequences, FiniteSets, SequencesExt

CONSTANT HeadRecords      \* _PROBE_HEAD_RECORDS, 10 in the code

(* payload.message of a response_item, message of an event_msg, tool calls. *)
Items == [kind : {"message", "event"}, role : {"user", "assistant"}, text : {"hi"}]
         \cup {[kind |-> "call", role |-> "assistant", text |-> "ls"]}

Records == Items
    \cup [kind : {"compacted"}, history : {<<>>, <<[kind |-> "message", role |-> "user", text |-> "sum"]>>}]
    \cup [kind : {"thread_rolled_back"}, turns : 0 .. 2]
    \cup [kind : {"session_meta"}, own : BOOLEAN]
    \cup [kind : {"unknown", "broken", "torn"}]

-----------------------------------------------------------------------------
RawTurn(r) ==
    IF r.kind \in {"message", "event", "call"}
    THEN <<[role |-> r.role, text |-> r.text]>> ELSE <<>>

UserPositions(turns) == {i \in DOMAIN turns : turns[i].role = "user"}

(* Everything from the count-th last user turn on goes; with fewer users,   *)
(* everything from the first.                                               *)
DropLastUserTurns(turns, count) ==
    LET users == UserPositions(turns)
        Later(i) == {j \in users : j >= i}
        cuts == {i \in users : Cardinality(Later(i)) <= count}
    IN  IF count = 0 \/ users = {} THEN turns
        ELSE SubSeq(turns, 1, (CHOOSE i \in cuts : \A j \in cuts : i <= j) - 1)

FeedHistory(turns, r) ==
    CASE r.kind = "compacted"          -> FlattenSeq([i \in DOMAIN r.history |-> RawTurn(r.history[i])])
      [] r.kind = "thread_rolled_back" -> DropLastUserTurns(turns, r.turns)
      [] OTHER                         -> turns \o RawTurn(r)

(* In a tail, a rollback of more users than the tail admitted may reach     *)
(* before the cut: nothing admitted so far can be trusted to be active.     *)
FeedTailHistory(turns, r) ==
    IF r.kind = "thread_rolled_back" /\ r.turns > Cardinality(UserPositions(turns))
    THEN <<>> ELSE FeedHistory(turns, r)

(* _decode_outer_record: unknown records are skipped, a torn last line is   *)
(* dropped with a warning, any other line that does not decode is an error. *)
Decoded(lines)   == SelectSeq(lines, LAMBDA r : r.kind \notin {"unknown", "torn"})
Undecodable(lines) == \E i \in DOMAIN lines : lines[i].kind = "broken"

Turns(lines)     == FoldLeft(FeedHistory, <<>>, Decoded(lines))
TailTurns(lines) == FoldLeft(FeedTailHistory, <<>>, Decoded(lines))

(* The first session_meta whose id is the one in the file's name.           *)
Metas(lines)  == {i \in DOMAIN lines : lines[i].kind = "session_meta"}
OwnMeta(lines) == {i \in Metas(lines) : lines[i].own}

(* show: repeated neighbours (the response_item and the event_msg of one    *)
(* utterance) are shown once.                                               *)
Shown(turns) ==
    FoldLeft(LAMBDA out, t : IF out # <<>> /\ Last(out) = t THEN out ELSE Append(out, t), <<>>, turns)

Failed(code) == [code |-> code, turns |-> <<>>]

(* show of a plain rollout that fits the budget.                            *)
Show(log) ==
    CASE Undecodable(log)      -> Failed("E_CORRUPT_RECORD")
      [] Decoded(log) = <<>>   -> Failed("E_UNSUPPORTED_FORMAT")
      [] OwnMeta(log) = {}     -> Failed("E_CORRUPT_RECORD")
      [] OTHER                 -> [code |-> "", turns |-> Shown(Turns(log))]

(* The verdict of _session_meta on the head of a log.                       *)
HeadMetadata(head) ==
    CASE Undecodable(head)     -> "E_CORRUPT_RECORD"
      [] Metas(head) = {}      -> "E_UNSUPPORTED_FORMAT"
      [] OwnMeta(head) = {}    -> "E_CORRUPT_RECORD"
      [] OTHER                 -> ""

Head10(log) == SubSeq(log, 1, IF Len(log) < HeadRecords THEN Len(log) ELSE HeadRecords)

(* A rollout is listed when its first records hold its own session_meta.    *)
Listed(log) == HeadMetadata(Head10(log)) = ""

(* show of a rollout larger than the budget: metadata from the head, turns  *)
(* from the lines after a cut.                                              *)
ShowTail(log, cut) ==
    LET tail == SubSeq(log, cut + 1, Len(log))
    IN  CASE HeadMetadata(Head10(log)) = "E_CORRUPT_RECORD" \/ Undecodable(tail)
                                       -> Failed("E_CORRUPT_RECORD")
          [] HeadMetadata(Head10(log)) = "E_UNSUPPORTED_FORMAT" \/ Decoded(tail) = <<>>
                                       -> Failed("E_LIMIT_EXCEEDED")
          [] OTHER                     -> [code |-> "", turns |-> Shown(TailTurns(tail))]

-----------------------------------------------------------------------------
(* However a rollout too large to read is cut, what is shown of it is the   *)
(* end of what the whole would show: no turn that was rolled back or        *)
(* compacted away comes back because its rollback reaches over the cut.     *)
TailIsSuffix(log) ==
    \A cut \in 0 .. Len(log) :
        LET part == ShowTail(log, cut) whole == Show(log)
        IN  part.code = "" /\ whole.code = "" => IsSuffix(part.turns, whole.turns)

(* Rolling back as many user turns as were said since a moment shows what   *)
(* was shown at that moment.                                                *)
RollbackUndoes(log) ==
    \A k \in 0 .. Len(log) - 1 :
        LET since == SubSeq(log, k + 1, Len(log) - 1)
        IN  /\ Last(log).kind = "thread_rolled_back"
            /\ \A i \in DOMAIN since : since[i].kind \in {"message", "event", "call"}
            /\ since # <<>> => since[1].role = "user"
            /\ Cardinality(UserPositions(since)) = Last(log).turns
            => Turns(log) = Turns(SubSeq(log, 1, k))

(* A session that is listed can be shown, unless a line after the head is   *)
(* not a record.                                                            *)
ListedIsShown(log) ==
    Listed(log) => Show(log).code = "" \/ Undecodable(SubSeq(log, HeadRecords + 1, Len(log)))
=============================================================================
