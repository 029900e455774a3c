----------------------------- MODULE OpenClawBranch -----------------------------
(* The OpenClaw adapter, src/portable_resume/adapters/openclaw.py: the      *)
(* events of a session window are rows numbered by seq; the branch shown is *)
(* that of the last event with an id, and a compaction names the first      *)
(* event it keeps by id or by seq.  seq is the place in the log.            *)
EXTENDS Integers, Sequences, FiniteSets, SequencesExt

CONSTANT Ids

None == 0
Lost == Cardinality(Ids) + 1
Event(kind, id, parent) == [kind |-> kind, id |-> id, parent |-> parent, keptId |-> None, keptSeq |-> None]
Written(log) == {log[i].id : i \in DOMAIN log} \ {None}

(* custom: an event of another kind (custom, session), skipped when read.   *)
NextRecords(log) ==
    LET old == Written(log) new == Cardinality(old) + 1
    IN  (IF old = Ids THEN {} ELSE
            {Event(k, new, p) : k \in {"message", "branch_summary"}, p \in old \cup {None, Lost}}
            \cup {[Event("compaction", new, p) EXCEPT !.keptId = q] : p \in old, q \in old \cup {Lost}}
            \cup {[Event("compaction", new, p) EXCEPT !.keptSeq = q] : p \in old, q \in DOMAIN log})
        \cup {Event("message", None, None), Event("custom", None, None)}
        \cup {Event("message", i, None) : i \in old}

-----------------------------------------------------------------------------
InGraph(e) == e.kind # "custom"
Place(log, id) == SelectInSeq(log, LAMBDA e : InGraph(e) /\ e.id = id)

(* The first event a compaction keeps, 0 if it names none of the graph.     *)
Kept(log, e) ==
    IF e.kind # "compaction" THEN 0
    ELSE IF e.keptId \in Written(log) THEN Place(log, e.keptId)
    ELSE IF e.keptSeq # None /\ InGraph(log[e.keptSeq]) THEN e.keptSeq ELSE 0

(* Where an event leads: to what it keeps, else to its parent, else nowhere.*)
Up(log, e) ==
    IF Kept(log, e) # 0 THEN Kept(log, e) ELSE IF e.parent \in Written(log) THEN Place(log, e.parent) ELSE 0

(* An event without an id ends the path and is not on it.                   *)
RECURSIVE Path(_, _)
Path(log, at) ==
    IF at = 0 THEN <<>> ELSE IF log[at].id = None THEN <<>>
    ELSE Append(Path(log, Up(log, log[at])), at)

Duplicated(log) == \E i, j \in DOMAIN log : i < j /\ log[i].id = log[j].id /\ log[i].id # None
Emitted(log, places) == SelectSeq(places, LAMBDA i : log[i].kind \in {"message", "compaction"})

(* Without any id, all events in order.                                     *)
ActiveBranchEvents(log) ==
    CASE Written(log) = {}  -> Emitted(log, [i \in DOMAIN log |-> i])
      [] Written(log) # {}  -> Emitted(log, Path(log, SelectLastInSeq(log, LAMBDA e : InGraph(e) /\ e.id # None)))

-----------------------------------------------------------------------------
(* A new event shows the branch it continues and itself, whether it names   *)
(* what it continues by id or, as a compaction may, by number; an event of  *)
(* another kind, and one without an id, hide nothing.                       *)
BranchFollowsTip(log) ==
    LET r == Last(log) before == Front(log)
        link == CASE r.kind = "compaction" /\ r.keptId \in Written(before)                      -> r.keptId
                  [] r.kind = "compaction" /\ r.keptSeq # None /\ before[r.keptSeq].kind # "custom" -> before[r.keptSeq].id
                  [] OTHER                                                                      -> r.parent
        then == SubSeq(before, 1, SelectInSeq(before, LAMBDA e : e.id = link))
    IN  log # <<>> /\ ~Duplicated(log) /\ Written(before) # {} =>
        ActiveBranchEvents(log) =
            CASE r.id = None                                    -> ActiveBranchEvents(before)
              [] r.id # None /\ link \notin Written(before)     -> Emitted(log, <<Len(log)>>)
              [] OTHER                                          -> ActiveBranchEvents(then) \o Emitted(log, <<Len(log)>>)
=============================================================================
