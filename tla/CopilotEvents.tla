----------------------------- MODULE CopilotEvents -----------------------------
(* The GitHub Copilot adapter, src/portable_resume/adapters/                *)
(* github_copilot.py: a session is a stream of events; those of sub-agents  *)
(* share it.  What is shown is the ancestry of the last public event.       *)
EXTENDS Integers, Sequences, FiniteSets, SequencesExt

CONSTANT Ids

None == 0
Lost == Cardinality(Ids) + 1
Event(kind, id, parent) == [kind |-> kind, id |-> id, parent |-> parent, agent |-> FALSE, cwd |-> "none"]
IsEvent(r) == r.kind # "torn"
Written(log) == {log[i].id : i \in {j \in DOMAIN log : IsEvent(log[j])}} \ {None}

(* A public event, one of a sub-agent, one without an id, a change of the   *)
(* working directory, an event this reader does not know, part of a line.   *)
NextRecords(log) ==
    LET old == Written(log) new == Cardinality(old) + 1
    IN  (IF old = Ids THEN {} ELSE
            {Event(k, new, p) : k \in {"user", "assistant"}, p \in old \cup {None, Lost}}
            \cup {[Event("user", new, p) EXCEPT !.agent = TRUE] : p \in old})
        \cup {Event("user", None, None), Event("odd", None, None), [kind |-> "torn"]}
        \cup {[Event("context", None, None) EXCEPT !.cwd = c] : c \in {"own", "other"}}

-----------------------------------------------------------------------------
MessageTurn(e) == IsEvent(e) /\ ~e.agent /\ e.kind \in {"user", "assistant"}
Tip(log) == SelectLastInSeq(log, LAMBDA e : MessageTurn(e) /\ e.id # None)

(* Mutant: a sub-agent's events have no place in the ancestry.              *)
ParentOfPublic(log) ==
    [i \in {log[k].id : k \in {j \in DOMAIN log : MessageTurn(log[j])}} \ {None}
       |-> log[SelectLastInSeq(log, LAMBDA e : IsEvent(e) /\ e.id = i)].parent]

ParentOf(log) == [i \in Written(log) |-> log[SelectLastInSeq(log, LAMBDA e : IsEvent(e) /\ e.id = i)].parent]

(* Up from the tip, as far as the file goes.                                *)
RECURSIVE Ancestors(_, _)
Ancestors(parents, id) ==
    IF id \notin DOMAIN parents THEN {} ELSE {id} \cup Ancestors(parents, parents[id])

ActiveLineageIds(log) == Ancestors(ParentOf(log), log[Tip(log)].id)

(* Events without an id are shown whatever the lineage.                     *)
ScanSession(log) ==
    LET active == IF Tip(log) = 0 THEN {} ELSE ActiveLineageIds(log)
    IN  SelectSeq([i \in DOMAIN log |-> i], LAMBDA i : MessageTurn(log[i]) /\ (log[i].id = None \/ log[i].id \in active))

(* Every directory the session was in counts, not only the last.            *)
CwdMatches(log) == \E i \in DOMAIN log : IsEvent(log[i]) /\ log[i].cwd = "own"

Show(log) ==
    LET turns == ScanSession(log)
    IN  CASE \E i \in DOMAIN log : ~IsEvent(log[i])           -> "E_CORRUPT_RECORD"
          [] \E i \in DOMAIN log : log[i].kind = "odd"        -> "E_UNSUPPORTED_FORMAT"
          [] ~CwdMatches(log)                                 -> "E_NO_MATCH"
          [] ~\E i \in Range(turns) : log[i].kind = "user"    -> "E_NO_MATCH"
          [] OTHER                                            -> ""

(* The lines list reads of a file larger than its head window: the first h  *)
(* and the last t, of which those that do not parse are skipped.            *)
ScanSessionMetadata(log, h, t) ==
    IF h >= Len(log) THEN log
    ELSE SubSeq(log, 1, h) \o SelectSeq(SubSeq(log, Len(log) - t + 1, Len(log)), IsEvent)

Listed(log, h, t) ==
    LET read == ScanSessionMetadata(log, h, t)
    IN  /\ \A i \in DOMAIN read : IsEvent(read[i])
        /\ \E i \in DOMAIN read : read[i].kind = "user" /\ ~read[i].agent
        /\ CwdMatches(read)

-----------------------------------------------------------------------------
ShownIds(log) == {log[i].id : i \in Range(ScanSession(log))} \ {None}

(* An answer shows what was shown when the event it follows was written,    *)
(* and itself, whether that was public or a sub-agent's in between; what a  *)
(* sub-agent says shows nothing and hides nothing.                          *)
BranchFollowsTip(log) ==
    LET r == Last(log) before == Front(log)
        at(id) == SelectInSeq(before, LAMBDA e : IsEvent(e) /\ e.id = id)
        then(id) == ShownIds(SubSeq(before, 1, at(id)))
    IN  log # <<>> /\ IsEvent(r) =>
        /\ r.agent \/ r.kind = "context" => ScanSession(log) = ScanSession(before)
        /\ MessageTurn(r) /\ r.id # None /\ r.parent \in Written(before) =>
             LET p == before[at(r.parent)]
             IN  /\ MessageTurn(p) => ShownIds(log) = then(p.id) \cup {r.id}
                 /\ p.agent /\ p.parent \in Written(before) /\ MessageTurn(before[at(p.parent)])
                        => ShownIds(log) = then(p.parent) \cup {r.id}

(* A session listed for a directory, from whatever part of it list reads,   *)
(* has a request and is of that directory.  If all its lines parse and are  *)
(* of known events it can be shown, except when every request is on a       *)
(* branch that was left: the last public event descends from none of them.  *)
Requests(log) == {i \in DOMAIN log : MessageTurn(log[i]) /\ log[i].kind = "user"}
Left(log, i) == log[i].id # None /\ i < Tip(log) /\ log[i].id \notin ActiveLineageIds(log)

ListedIsShown(log) ==
    \A h, t \in 0 .. Len(log) : Listed(log, h, t) =>
        /\ Requests(log) # {} /\ CwdMatches(log)
        /\ (\A i \in DOMAIN log : log[i].kind \notin {"torn", "odd"}) =>
               (Show(log) # "" <=> \A i \in Requests(log) : Left(log, i))
=============================================================================
