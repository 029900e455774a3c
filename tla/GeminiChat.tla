------------------------------- MODULE GeminiChat -------------------------------
(* The Gemini adapter, src/portable_resume/adapters/gemini.py: a chat file  *)
(* is a journal of messages, rewinds and replacements, read into a map from *)
(* message ids to messages and the order of the ids.                        *)
EXTENDS Integers, Sequences, FiniteSets, SequencesExt

CONSTANT MessageIds

Message(id, type) == [id |-> id, type |-> type]
Histories == {<<>>, <<Message(1, "user")>>, <<Message(2, "gemini"), Message(1, "user")>>}

(* "odd" is a type this reader does not know, with content.  A record of    *)
(* metadata, or a $set without messages, leaves out what it does not say.   *)
Records ==
    [kind : {"message"}, message : {Message(i, t) : i \in MessageIds, t \in {"user", "gemini"}}
                                   \cup {Message(1, "info"), Message(1, "odd")}]
    \cup [kind : {"rewind"}, target : MessageIds]
    \cup [kind : {"set"}, messages : Histories]
    \cup [kind : {"dump"}, messages : Histories, subagent : {"yes", "unsaid"}, project : {"other", "unsaid"}]
    \cup [kind : {"meta"}, subagent : {"yes", "no", "unsaid"}, project : {"own", "other", "unsaid"}]
    \cup [kind : {"blank", "torn"}]

-----------------------------------------------------------------------------
Empty == [order |-> <<>>, messages |-> <<>>, subagent |-> "unsaid", project |-> "unsaid"]

Put(s, m) ==
    [s EXCEPT !.messages = [i \in DOMAIN s.messages \cup {m.id} |-> IF i = m.id THEN m ELSE s.messages[i]]]

(* A bug: a message written again is another one, as it is in a dump.       *)
UpsertAgain(s, m) == [Put(s, m) EXCEPT !.order = Append(@, m.id)]

(* A message written again keeps its place.                                 *)
Upsert(s, m) ==
    IF m.id \in Range(s.order) THEN Put(s, m) ELSE [Put(s, m) EXCEPT !.order = Append(@, m.id)]

Extend(s, history) == FoldLeft(LAMBDA t, m : [Put(t, m) EXCEPT !.order = Append(@, m.id)], s, history)

(* What follows the target goes; an unknown target is ignored.              *)
Rewind(s, target) ==
    IF target \notin DOMAIN s.messages \/ target \notin Range(s.order) THEN s
    ELSE LET at == SelectInSeq(s.order, LAMBDA i : i = target)
             gone == {s.order[i] : i \in at + 1 .. Len(s.order)}
         IN  [s EXCEPT !.order = SubSeq(@, 1, at),
                       !.messages = [i \in DOMAIN @ \ gone |-> @[i]]]

Learn(s, r) ==
    [s EXCEPT !.subagent = IF r.subagent = "unsaid" THEN @ ELSE r.subagent,
              !.project = IF r.project = "unsaid" THEN @ ELSE r.project]

Parse(s, r) ==
    CASE r.kind = "message" -> Upsert(s, r.message)
      [] r.kind = "rewind"  -> Rewind(s, r.target)
      [] r.kind = "set"     -> Extend([s EXCEPT !.order = <<>>, !.messages = <<>>], r.messages)
      [] r.kind = "dump"    -> Extend(Learn(s, r), r.messages)
      [] r.kind = "meta"    -> Learn(s, r)
      [] OTHER              -> s

Conversation(log) == FoldLeft(Parse, Empty, log)
Corrupt(log) == \E i \in DOMAIN log : log[i].kind = "torn"
Live(s) == SelectSeq(s.order, LAMBDA i : i \in DOMAIN s.messages)
Messages(s) == [i \in DOMAIN Live(s) |-> s.messages[Live(s)[i]]]

(* The file lies outside any project directory: only its metadata can tell. *)
MatchesProject(s) == s.project # "other"

HasTurn(m) == m.type \in {"user", "gemini"}

(* _session_summary_from_file, without an exact reference.                  *)
Listed(log) ==
    LET s == Conversation(log)
    IN  ~Corrupt(log) /\ s.subagent # "yes" /\ MatchesProject(s) /\ \E m \in Range(Messages(s)) : m.type = "user"

Failed(code) == [code |-> code, turns |-> <<>>]

Show(log) ==
    LET s == Conversation(log)
    IN  CASE Corrupt(log)                                        -> Failed("E_CORRUPT_RECORD")
          [] ~MatchesProject(s)                                  -> Failed("E_NO_MATCH")
          [] \E m \in Range(Messages(s)) : m.type = "odd"        -> Failed("E_UNSUPPORTED_FORMAT")
          [] ~\E m \in Range(Messages(s)) : HasTurn(m)           -> Failed("E_NO_MATCH")
          [] OTHER                                               -> [code |-> "", turns |-> SelectSeq(Messages(s), HasTurn)]

-----------------------------------------------------------------------------
Prefix(log, k) == SubSeq(log, 1, k)
Order(log) == Live(Conversation(log))

(* A rewind to a message shows the messages that were there when it was     *)
(* first written and none of those since, however often they were rewritten *)
(* in between, unless the history was replaced, or a whole one appended, in *)
(* between.                                                                 *)
RewindRestores(log) ==
    \A k \in 1 .. Len(log) - 1 :
        /\ Last(log).kind = "rewind" /\ log[k].kind = "message" /\ log[k].message.id = Last(log).target
        /\ Last(log).target \notin Range(Order(Prefix(log, k - 1)))
        /\ \A j \in k .. Len(log) - 1 : Last(log).target \in Range(Order(Prefix(log, j)))
        /\ \A j \in k .. Len(log) - 1 : log[j].kind \notin {"set", "dump"}
        => Order(log) = Order(Prefix(log, k))

(* What is shown of a message is what was last written of it, and it is     *)
(* shown once, but for once more for each dump that names it: a dump adds   *)
(* its messages without looking (gemini.py:568).  Writing a message moves   *)
(* no other; one that is shown keeps its place and a new one comes last,    *)
(* unless after a dump a rewind took the message from a place that stays,   *)
(* to which it then returns.                                                *)
Written(r) ==
    CASE r.kind = "message"       -> {r.message}
      [] r.kind \in {"set", "dump"} -> Range(r.messages)
      [] OTHER                    -> {}

Names(r, id) == \E m \in Written(r) : m.id = id
Dumps(log, id) == {i \in DOMAIN log : log[i].kind = "dump" /\ Names(log[i], id)}

ShownOnceInPlace(log) ==
    LET shown == Messages(Conversation(log))
        others(order) == SelectSeq(order, LAMBDA i : i # Last(log).message.id)
    IN  /\ \A i \in DOMAIN shown : shown[i] \in Written(log[SelectLastInSeq(log, LAMBDA r : Names(r, shown[i].id))])
        /\ \A id \in MessageIds :
               Cardinality({i \in DOMAIN shown : shown[i].id = id}) <= 1 + Cardinality(Dumps(log, id))
        /\ log # <<>> /\ Last(log).kind = "message" =>
               LET m == Last(log).message before == Order(Front(log)) IN
               /\ m \in Range(shown)
               /\ others(Order(log)) = others(before)
               /\ m.id \in Range(before) => Order(log) = before
               /\ m.id \notin Range(before) =>
                      Order(log) = Append(before, m.id) \/ \E i \in DOMAIN log : log[i].kind = "dump"

(* What is listed can be shown, unless it holds a message of a type this    *)
(* reader does not know.                                                    *)
ListedIsShown(log) ==
    Listed(log) => Show(log).code = "" \/ \E m \in Range(Messages(Conversation(log))) : m.type = "odd"
=============================================================================
