--------------------------- MODULE ClaudeTranscript ---------------------------
(* The Claude adapter, src/portable_resume/adapters/claude.py: which lines  *)
(* of a session file are the conversation.  A line is a node of a graph: it *)
(* has a uuid, a parentUuid, and on a compaction boundary the uuid of the   *)
(* node it stands after (logicalParentUuid).  Bridge and replay blocks      *)
(* write a node again with another parent; the last edge counts.            *)
EXTENDS Integers, Sequences, FiniteSets, SequencesExt

CONSTANT Ids              \* uuids; a timestamp is the uuid's rank: time of first writing

None == 0
Node(kind, id, parent, logical, side) ==
    [kind |-> kind, id |-> id, parent |-> parent, logical |-> logical, side |-> side]

IsNode(r) == r.kind \in {"turn", "boundary", "attachment"}
Written(log) == {log[i].id : i \in {j \in DOMAIN log : IsNode(log[j])}}

(* What Claude Code appends: a new node after one it has written, after none*)
(* or after one this file never held; a node again, under another parent;   *)
(* part of a line.                                                          *)
NextRecords(log) ==
    LET old == Written(log)
        new == CHOOSE i \in Ids : i \notin old /\ \A j \in Ids : j < i => j \in old
        lost == Cardinality(Ids) + 1
        above == old \cup {None, lost}
    IN  IF old = Ids THEN {}
        ELSE {Node(k, new, p, None, FALSE) : k \in {"turn", "attachment"}, p \in above}
             \cup {Node("turn", new, p, None, TRUE) : p \in old}
             \cup {Node("boundary", new, None, p, FALSE) : p \in old}
             \cup {[log[i] EXCEPT !.parent = p] : i \in {j \in DOMAIN log : log[j].kind = "turn"}, p \in old}
             \cup {[kind |-> "torn"]}

-----------------------------------------------------------------------------
LastOf(id, log) == SelectLastInSeq(log, LAMBDA r : IsNode(r) /\ r.id = id)

(* Conversation nodes off any sidechain, each in its last version, and the  *)
(* last parent of every node.                                               *)
Graph(log) ==
    [bridge |-> [i \in Written(log) |-> log[LastOf(i, log)].parent],
     nodes  |-> [i \in {log[j].id : j \in {k \in DOMAIN log :
                            log[k].kind \in {"turn", "boundary"} /\ ~log[k].side}}
                 |-> log[LastOf(i, log)]]]

(* The conversation node a link leads to, hopping over the other nodes:     *)
(* None at a root, broken at a node this file lacks or in a circle.         *)
RECURSIVE Hop(_, _, _)
Hop(g, seen, id) ==
    CASE id = None \/ id \in DOMAIN g.nodes         -> [id |-> id, broken |-> FALSE]
      [] id \in seen \/ id \notin DOMAIN g.bridge   -> [id |-> id, broken |-> TRUE]
      [] OTHER                                      -> Hop(g, seen \cup {id}, g.bridge[id])

ResolveParentId(g, r) ==
    LET link == IF r.parent = None THEN r.logical ELSE r.parent
        lost == link # None /\ link \notin DOMAIN g.nodes \cup DOMAIN g.bridge
    IN  IF lost /\ r.logical \notin {None, link} THEN Hop(g, {link}, r.logical) ELSE Hop(g, {}, link)

Leaves(g) == DOMAIN g.nodes \ {ResolveParentId(g, g.nodes[i]).id : i \in DOMAIN g.nodes}

(* The leaf with the newest timestamp.                                      *)
Tip(leaves) == CHOOSE i \in leaves : \A j \in leaves : j <= i

(* From a node up to the root, to a break or to the last compaction.        *)
RECURSIVE Walk(_, _, _)
Walk(g, seen, id) ==
    LET next == ResolveParentId(g, g.nodes[id])
    IN  CASE id \in seen                          -> [code |-> "E_CORRUPT_RECORD", ids |-> <<>>]
          [] g.nodes[id].kind = "boundary"        -> [code |-> "", ids |-> <<>>]
          [] next.broken \/ next.id = None        -> [code |-> "", ids |-> <<id>>]
          [] OTHER -> LET up == Walk(g, seen \cup {id}, next.id)
                      IN  [up EXCEPT !.ids = Append(@, id)]

LineageIds(log) ==
    LET g == Graph(log)
        leaves == Leaves(g)
    IN  CASE DOMAIN g.nodes = {} -> [code |-> "E_UNSUPPORTED_FORMAT", ids |-> <<>>]
          [] leaves = {}         -> [code |-> "E_CORRUPT_RECORD", ids |-> <<>>]
          [] OTHER               -> Walk(g, {}, Tip(leaves))

(* _build_tail_graph: a session too large to read is its lines after a cut. *)
TailLineage(log, cut) == LineageIds(SubSeq(log, cut + 1, Len(log)))

-----------------------------------------------------------------------------
(* Tool calls along the lineage.  items: calls and results, each with the   *)
(* id that ties a result to its call.                                       *)
Call(id) == [kind |-> "call", id |-> id]
Result(id) == [kind |-> "result", id |-> id]
Say == [kind |-> "text", id |-> None]
ItemRecords == {Say} \cup {Call(i) : i \in Ids} \cup {Result(i) : i \in Ids}

ObserveCall(s, id) ==
    IF id \in {s.pending[i] : i \in DOMAIN s.pending} THEN s ELSE [s EXCEPT !.pending = Append(@, id)]

CorrelatedResult(s, id) ==
    [pending |-> SelectSeq(s.pending, LAMBDA c : c # id), turns |-> Append(s.turns, <<id, "result">>)]

Observe(s, item) ==
    CASE item.kind = "call"   -> ObserveCall(s, item.id)
      [] item.kind = "result" -> CorrelatedResult(s, item.id)
      [] OTHER                -> [s EXCEPT !.turns = Append(@, <<None, "text">>)]

(* What is shown: text and results in order, then the calls nobody answered.*)
ToolTurns(items) ==
    LET s == FoldLeft(Observe, [pending |-> <<>>, turns |-> <<>>], items)
    IN  s.turns \o [i \in DOMAIN s.pending |-> <<s.pending[i], "missing">>]

-----------------------------------------------------------------------------
Replays(log) == \E i, j \in DOMAIN log : i < j /\ IsNode(log[i]) /\ IsNode(log[j]) /\ log[i].id = log[j].id

(* A new turn shows what was shown when the node it follows was written,    *)
(* and itself: a fork hides the branch it leaves, and only that; a reply    *)
(* after a compaction hides what was compacted.  A sidechain, an attachment *)
(* or half a line shows nothing and hides nothing.                          *)
BranchFollowsTip(log) ==
    LET r == log[Len(log)] before == Front(log)
        k == CHOOSE i \in DOMAIN before : IsNode(before[i]) /\ before[i].id = r.parent
    IN  log # <<>> /\ ~Replays(log) =>
        /\ r.kind = "turn" /\ ~r.side /\ r.parent \in Written(before) /\ ~before[k].side
               /\ before[k].kind # "attachment" =>
               LineageIds(log).ids = LineageIds(SubSeq(log, 1, k)).ids \o <<r.id>>
        /\ r.kind \in {"torn", "attachment"} \/ (r.kind = "turn" /\ r.side) =>
               LineageIds(log) = LineageIds(before)

(* Writing a node again under the parent it had changes nothing.            *)
ReplayIsIdle(log) ==
    LET now == LineageIds(log) IN
    \A i \in {j \in DOMAIN log : IsNode(log[j]) /\ log[j] = log[LastOf(log[j].id, log)]} :
        LineageIds(Append(log, log[i])) = now

(* However a session too large to read is cut, its tail's conversation is   *)
(* the end of the whole session's, when no replay moved a node over the cut.*)
TailIsSuffix(log) ==
    LET whole == LineageIds(log)
    IN  whole.code = "" /\ ~Replays(log) =>
            \A cut \in 0 .. Len(log) :
                LET part == TailLineage(log, cut) IN part.code = "" => IsSuffix(part.ids, whole.ids)

(* Every call is shown once: by its result if it has one, else as missing.  *)
EveryCallOnce(items) ==
    \A id \in Ids :
        LET called == {i \in DOMAIN items : items[i] = Call(id)}
            answered == {i \in DOMAIN items : items[i] = Result(id)}
            shown(how) == Len(SelectSeq(ToolTurns(items), LAMBDA t : t = <<id, how>>))
        IN  /\ shown("result") = Cardinality(answered)
            /\ shown("missing") = IF \E c \in called : \A a \in answered : a < c THEN 1 ELSE 0
=============================================================================
