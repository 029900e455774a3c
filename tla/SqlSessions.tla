------------------------------ MODULE SqlSessions ------------------------------
(* The three agents that keep everything in one SQLite database, read by    *)
(* adapters/crush.py, goose.py and hermes.py.  The log is what the agent    *)
(* wrote to it; a row's time is its place in the log.                       *)
EXTENDS Integers, Sequences, FiniteSets, SequencesExt

CONSTANTS SessionIds,
          Elsewhere,      \* sessions of another directory
          Scanned,        \* scanned_records: rows a query returns
          Listed          \* listed_sessions

Latest == 0               \* no session's id

(* A message's text may be empty (a part that is no text), or not to be     *)
(* decoded; "result" is another spelling of the role tool.  archive hides a *)
(* session, child makes it a sub-agent's; end and undo are Hermes's: the    *)
(* session is over, its messages so far are inactive.                       *)
Records(agent) ==
    LET plain == [kind : {"message"}, id : SessionIds \ Elsewhere, role : {"user"}, what : {"text", "empty"}]
        other == [kind : {"message"}, id : SessionIds \ Elsewhere, role : {"tool"}, what : {"text"}]
        away == [kind : {"message"}, id : Elsewhere, role : {"user"}, what : {"text"}]
    IN  plain \cup other \cup away \cup
        CASE agent = "crush"  -> [kind : {"child"}, id : SessionIds \ Elsewhere]
                                   \cup [kind : {"message"}, id : SessionIds, role : {"user"}, what : {"broken"}]
          [] agent = "goose"  -> [kind : {"archive", "child"}, id : SessionIds \ Elsewhere]
                                   \cup [kind : {"message"}, id : SessionIds, role : {"result"}, what : {"broken", "text"}]
          [] agent = "hermes" -> [kind : {"archive", "child", "end", "undo"}, id : SessionIds \ Elsewhere]

Of(log, id, kinds) == {i \in DOMAIN log : log[i].id = id /\ log[i].kind \in kinds}
Exists(log, id) == Of(log, id, {"message", "archive", "child", "end", "undo"}) # {}
Is(log, id, kind) == Of(log, id, {kind}) # {}

(* The messages an agent's queries see, oldest first.                       *)
Messages(agent, log, id) ==
    LET undone(i) == \E u \in Of(log, id, {"undo"}) : i < u
        sent == Of(log, id, {"message"})
    IN  SelectSeq([i \in DOMAIN log |-> i], LAMBDA i : i \in sent /\ (agent = "hermes" => ~undone(i)))

(* updated_at; for Hermes ended_at, or else started_at.                     *)
Stamp(agent, log, id) ==
    LET ends == Of(log, id, {"end"})
        start == Min({i \in DOMAIN log : log[i].id = id})
    IN  CASE agent # "hermes" -> Max(Of(log, id, {"message"}) \cup {start})
          [] agent = "hermes" -> IF ends # {} THEN Max(ends) ELSE start

-----------------------------------------------------------------------------
(* _session_has_extractable_turn: the first text settles it, unless a       *)
(* message before it cannot be decoded.                                     *)
FirstText(log, messages) ==
    LET at == SelectInSeq(messages, LAMBDA i : log[i].what # "empty")
    IN  IF at = 0 THEN "no" ELSE IF log[messages[at]].what = "broken" THEN "corrupt" ELSE "yes"

CrushHasTurn(log, id) == FirstText(log, Messages("crush", log, id))
GooseHasTurn(log, id) == FirstText(log, Messages("goose", log, id))

(* Hermes: a text of the user, so that heartbeats cannot be the latest.     *)
HermesHasTurn(log, id) ==
    FirstText(log, SelectSeq(Messages("hermes", log, id), LAMBDA i : log[i].role = "user"))

HasTurn(agent, log, id) ==
    CASE agent = "crush"  -> CrushHasTurn(log, id)
      [] agent = "goose"  -> GooseHasTurn(log, id)
      [] agent = "hermes" -> HermesHasTurn(log, id)

(* The rows of _fetch_normal that the loop does not pass over at once.      *)
CrushCandidates(log) == {id \in SessionIds : Is(log, id, "message") /\ ~Is(log, id, "child")}
GooseCandidates(log) ==
    {id \in SessionIds : /\ \E i \in Of(log, id, {"message"}) : log[i].role # "result"
                         /\ ~Is(log, id, "child") /\ ~Is(log, id, "archive")}
HermesCandidates(log) ==
    {id \in SessionIds : Exists(log, id) /\ ~Is(log, id, "child") /\ ~Is(log, id, "archive")}

Candidates(agent, log) ==
    CASE agent = "crush"  -> CrushCandidates(log)
      [] agent = "goose"  -> GooseCandidates(log)
      [] agent = "hermes" -> HermesCandidates(log)

(* ORDER BY ... DESC, as many as the query's limit.                         *)
FetchNormal(agent, log) ==
    LET stamp == [id \in Candidates(agent, log) |-> Stamp(agent, log, id)]
        rows == SetToSortSeq(DOMAIN stamp, LAMBDA a, b : stamp[a] > stamp[b])
    IN  SubSeq(rows, 1, IF Len(rows) < Scanned THEN Len(rows) ELSE Scanned)

(* The loop of _list_sessions: whether a session has a turn is asked before *)
(* whose directory it is; the loop ends when the list is full.              *)
ListNormal(agent, log) ==
    FoldLeft(LAMBDA s, id :
                 CASE s.failed \/ Len(s.rows) >= Listed     -> s
                   [] HasTurn(agent, log, id) = "corrupt"   -> [rows |-> <<>>, failed |-> TRUE]
                   [] HasTurn(agent, log, id) = "yes" /\ id \notin Elsewhere -> [s EXCEPT !.rows = Append(@, id)]
                   [] OTHER -> s,
             [rows |-> <<>>, failed |-> FALSE], FetchNormal(agent, log))

(* An exact id is of any age, hidden or not; only a Hermes id that is not   *)
(* there ends the search, for the others it may be a word of a title.       *)
ListExact(agent, log, ref) ==
    IF Exists(log, ref) THEN [rows |-> IF ref \in Elsewhere THEN <<>> ELSE <<ref>>, failed |-> FALSE]
    ELSE IF agent = "hermes" THEN [rows |-> <<>>, failed |-> FALSE] ELSE ListNormal(agent, log)

List(agent, log, ref) == IF ref = Latest THEN ListNormal(agent, log) ELSE ListExact(agent, log, ref)

-----------------------------------------------------------------------------
Said(log, messages) == SelectSeq(messages, LAMBDA i : log[i].what = "text")
Undecodable(log, messages) == \E i \in Range(messages) : log[i].what = "broken"

CrushShow(log, id) ==
    LET all == Messages("crush", log, id)
    IN  IF Undecodable(log, all) THEN [code |-> "E_CORRUPT_RECORD", turns |-> <<>>]
        ELSE [code |-> "", turns |-> Said(log, all)]

GooseShow(log, id) ==
    LET all == Messages("goose", log, id)
    IN  IF Undecodable(log, all) THEN [code |-> "E_CORRUPT_RECORD", turns |-> <<>>]
        ELSE [code |-> "", turns |-> Said(log, all)]

(* Hermes shows no session that has nothing to show.                        *)
HermesShow(log, id) ==
    LET said == Said(log, Messages("hermes", log, id))
    IN  [code |-> IF said = <<>> THEN "E_NO_MATCH" ELSE "", turns |-> said]

Show(agent, log, id) ==
    CASE agent = "crush"  -> CrushShow(log, id)
      [] agent = "goose"  -> GooseShow(log, id)
      [] agent = "hermes" -> HermesShow(log, id)

-----------------------------------------------------------------------------
(* What latest hands over is no older than any session of the directory     *)
(* that is not hidden and in which the user said something, and all its     *)
(* text, in order; it may be of a tool only, but for Hermes, which never    *)
(* gives a session of heartbeats.  A newer session that cannot be decoded   *)
(* is an error and never passed over for an older one.  Only newer rows     *)
(* beyond the query's limit hide one.                                       *)
LatestIsNewest(agent, log) ==
    LET answer == List(agent, log, Latest)
        stamp == [id \in Candidates(agent, log) |-> Stamp(agent, log, id)]
        usable(id) == \E i \in Range(Messages(agent, log, id)) : log[i].what = "text" /\ log[i].role = "user"
        texts(id) == {i \in Range(Messages(agent, log, id)) : log[i].what = "text"}
        hidden(id) == Cardinality({o \in DOMAIN stamp : stamp[o] > stamp[id]}) >= Scanned
        due == {id \in DOMAIN stamp \ Elsewhere : usable(id) /\ ~hidden(id)}
        top == answer.rows[1]
    IN  /\ ~answer.failed /\ due # {} =>
               answer.rows # <<>> /\ \A id \in due : stamp[id] <= stamp[top]
        /\ agent = "hermes" => \A id \in Range(answer.rows) : usable(id)
        /\ ~answer.failed /\ answer.rows # <<>> =>
               LET shown == Show(agent, log, top) IN
               shown.code = "" => /\ shown.turns # <<>>
                                  /\ shown.turns = SetToSortSeq(texts(top), <)
        /\ \A id \in DOMAIN stamp \ Elsewhere :
               Undecodable(log, Messages(agent, log, id)) /\ ~hidden(id) /\ ~answer.failed =>
                   \/ answer.rows # <<>> /\ stamp[id] <= stamp[top]
                   \/ id \in Range(answer.rows)

(* Everything that was ever written can be handed over by its id: archived, *)
(* of a sub-agent, too old or too far down for the list, or not listed      *)
(* because another session cannot be decoded.                               *)
ExactFindsHidden(agent, log) ==
    \A id \in SessionIds \ Elsewhere : Exists(log, id) =>
        /\ List(agent, log, id) = [rows |-> <<id>>, failed |-> FALSE]
        /\ LET seen == Messages(agent, log, id) IN
           ~Undecodable(log, seen) => Range(Show(agent, log, id).turns) = {i \in Range(seen) : log[i].what = "text"}
=============================================================================
