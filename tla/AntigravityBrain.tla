--------------------------- MODULE AntigravityBrain ---------------------------
(* adapters/antigravity.py: conversations are directories of a brain, with  *)
(* a transcript, or with message files while the transcript is still empty; *)
(* an optional index names them, and one history file holds the prompts of  *)
(* all.  One log is what happened to the brain, the other what was written  *)
(* of one conversation.                                                     *)
EXTENDS Integers, Sequences, FiniteSets, SequencesExt

CONSTANTS SessionIds,
          HistoryLines    \* prompts kept of one conversation, 64 in the code

(* create: the transcript appears, empty.  line: it gets a record.  lose:   *)
(* the index becomes unreadable; index: it is written with the conversation *)
(* added.                                                                   *)
Records == [kind : {"create", "line", "message", "prompt", "index"}, id : SessionIds] \cup {[kind |-> "lose", id |-> 0]}

Has(log, id, kinds) == \E r \in Range(log) : r.kind \in kinds /\ r.id = id
IsFile(log, id) == Has(log, id, {"create", "line"})
Empty(log, id) == ~Has(log, id, {"line"})

-----------------------------------------------------------------------------
(* _read_index: nothing at all, or the conversations it names.              *)
ReadIndex(log) ==
    LET last == SelectLastInSeq(log, LAMBDA r : r.kind \in {"index", "lose"})
    IN  [valid |-> last # 0 /\ log[last].kind = "index",
         ids |-> {log[i].id : i \in {j \in DOMAIN log : log[j].kind = "index"}}]

(* _read_transcript, _read_cli_messages_lane: a transcript without records  *)
(* needs message files, or prompts in the history.                          *)
Readable(log, id) == ~Empty(log, id) \/ Has(log, id, {"message", "prompt"})

(* _scan_brain_transcripts                                                  *)
ScanBrainTranscripts(log) ==
    {id \in SessionIds : Has(log, id, {"line", "message"})}

(* _direct_transcript, for an exact id                                      *)
DirectTranscript(log, ref) == {id \in {ref} \cap SessionIds : IsFile(log, id) \/ Has(log, id, {"message"})}

Latest == 0

Candidates(log, ref) ==
    LET index == ReadIndex(log)
    IN  (IF index.valid THEN {id \in index.ids : IsFile(log, id)}
         ELSE IF ref = Latest THEN ScanBrainTranscripts(log) ELSE {})
            \cup DirectTranscript(log, ref)

(* AntigravityAdapter.list: a conversation that cannot be read is passed    *)
(* over in a scan, and fails the list otherwise.                            *)
List(log, ref) ==
    LET candidates == Candidates(log, ref)
        scan == ~ReadIndex(log).valid /\ ref = Latest
    IN  [failed |-> ~scan /\ \E id \in candidates : ~Readable(log, id),
         rows |-> {id \in candidates : Readable(log, id)}]

-----------------------------------------------------------------------------
(* One conversation.  stamp 0: none.  A hidden message is not for the user, *)
(* a system record of the transcript is not either.                         *)
TurnRecords ==
    [kind : {"message"}, stamp : 0 .. 2, hidden : {FALSE}] \cup {[kind |-> "message", stamp |-> 1, hidden |-> TRUE]}
        \cup [kind : {"prompt"}, stamp : 1 .. 2] \cup [kind : {"line"}, role : {"user", "assistant", "system"}]

(* _load_history_hints: the last prompts of the conversation.               *)
UserLines(log) ==
    LET prompts == {i \in DOMAIN log : log[i].kind = "prompt"}
    IN  {i \in prompts : Cardinality({j \in prompts : j > i}) < HistoryLines}

(* The order of the lane: by time, undated first; prompts before messages   *)
(* of the same time; else as they were made.                                *)
LaneBefore(log, i, j) ==
    \/ log[i].stamp < log[j].stamp
    \/ log[i].stamp = log[j].stamp /\ log[i].kind = "prompt" /\ log[j].kind = "message"
    \/ log[i].stamp = log[j].stamp /\ log[i].kind = log[j].kind /\ i < j

MessagesLane(log) ==
    LET visible == {i \in DOMAIN log : log[i].kind = "message" /\ ~log[i].hidden}
    IN  [turns |-> SetToSortSeq(UserLines(log) \cup visible, LAMBDA i, j : LaneBefore(log, i, j)),
         truncated |-> \E i \in DOMAIN log : log[i].kind = "prompt" /\ i \notin UserLines(log)]

(* AntigravityAdapter.show: the records of the transcript, if it has any.   *)
Show(log) ==
    IF \A i \in DOMAIN log : log[i].kind # "line" THEN MessagesLane(log)
    ELSE [turns |-> SelectSeq([i \in DOMAIN log |-> i],
                              LAMBDA i : log[i].kind = "line" /\ log[i].role # "system"),
          truncated |-> FALSE]

-----------------------------------------------------------------------------
(* Whatever the index says or fails to say, a conversation with anything to *)
(* show is found by its exact id, and by a plain list too when the index    *)
(* is not valid; an answer fails only over a conversation that the index    *)
(* names and that is still empty, or over the empty one that was asked for. *)
ExactIdIsFound(log) ==
    \A id \in SessionIds : \A ref \in {id, Latest} :
        LET answer == List(log, ref) IN
        /\ ~answer.failed /\ Has(log, id, {"line", "message"}) /\ (ref = id \/ ~ReadIndex(log).valid) =>
               id \in answer.rows
        /\ answer.failed => \E bad \in SessionIds : /\ ~Readable(log, bad) /\ IsFile(log, bad)
                                                    /\ bad = ref \/ bad \in ReadIndex(log).ids

(* While the transcript is empty, a handoff holds every prompt the history  *)
(* keeps and every visible message once, a prompt and what follows it in    *)
(* time never exchanged; prompts that are missing are told.  From the first *)
(* record on, the transcript alone speaks.                                  *)
ConversationInOrder(log) ==
    LET shown == Show(log)
        turns == shown.turns
        dated == {i \in DOMAIN turns : log[turns[i]].kind # "line" /\ log[turns[i]].stamp # 0}
    IN  /\ \A a, b \in DOMAIN turns : a # b => turns[a] # turns[b]
        /\ \A a, b \in dated : log[turns[a]].stamp < log[turns[b]].stamp => a < b
        /\ (\A i \in DOMAIN log : log[i].kind # "line") /\ ~shown.truncated =>
               Range(turns) = {i \in DOMAIN log : log[i].kind = "prompt" \/ ~log[i].hidden}
        /\ \A i \in DOMAIN log : log[i].kind = "line" => \A a \in DOMAIN turns : log[turns[a]].kind = "line"
=============================================================================
