------------------------------- MODULE PiSession -------------------------------
(* The Pi adapter, src/portable_resume/adapters/pi.py: a session is a tree  *)
(* of entries whose leaf is the last entry written; a compaction's parent,  *)
(* for the reader, is the first entry it keeps.                             *)
EXTENDS Integers, Sequences, FiniteSets, SequencesExt

CONSTANT Ids

None == 0
Lost == Cardinality(Ids) + 1
Entry(kind, id, parent, kept) == [kind |-> kind, id |-> id, parent |-> parent, kept |-> kept]
IsEntry(r) == r.kind # "torn"
Entries(log) == SelectSeq(log, IsEntry)
Written(log) == {Entries(log)[i].id : i \in DOMAIN Entries(log)}

(* A new entry after an earlier one, an id used twice, part of a line.      *)
NextRecords(log) ==
    LET old == Written(log) new == Cardinality(old) + 1
    IN  (IF old = Ids THEN {} ELSE
            {Entry(k, new, p, None) : k \in {"message", "branch_summary", "hidden", "unknown"}, p \in old \cup {None}}
            \cup {Entry("message", new, Lost, None)}
            \cup {Entry("compaction", new, p, q) : p \in old, q \in old \cup {Lost}})
        \cup {Entry("message", i, None, None) : i \in old} \cup {[kind |-> "torn"]}

-----------------------------------------------------------------------------
Corrupt == [code |-> "E_CORRUPT_RECORD", path |-> <<>>]

(* The path to an entry: the path to the next one up, and itself.           *)
Step(e, next, up) ==
    CASE next = None         -> [code |-> "", path |-> <<e.id>>]
      [] up.code # ""        -> Corrupt
      [] OTHER               -> [up EXCEPT !.path = Append(@, e.id)]

(* Parents and kept entries are written first: there is no circle.          *)
RECURSIVE Walk(_, _)
Walk(byId, id) ==
    IF id \notin DOMAIN byId THEN Corrupt
    ELSE LET next == IF byId[id].kind = "compaction" THEN byId[id].kept ELSE byId[id].parent
         IN  Step(byId[id], next, IF next = None THEN Corrupt ELSE Walk(byId, next))

ActivePath(entries) ==
    LET byId == [i \in {entries[k].id : k \in DOMAIN entries} |-> entries[CHOOSE k \in DOMAIN entries : entries[k].id = i]]
    IN  IF \E i, j \in DOMAIN entries : i # j /\ entries[i].id = entries[j].id THEN Corrupt
        ELSE Walk(byId, Last(entries).id)

KindOf(entries, id) == entries[CHOOSE k \in DOMAIN entries : entries[k].id = id].kind

Failed(code) == [code |-> code, path |-> <<>>]

(* _scan_turns: a torn last line is dropped; a kind this reader does not    *)
(* know is an error on the active path and nowhere else.                    *)
ScanTurns(log) ==
    LET entries == Entries(log)
        active == ActivePath(entries)
        turns == SelectSeq(active.path, LAMBDA i : KindOf(entries, i) \in {"message", "compaction"})
    IN  CASE entries = <<>>                                                      -> Failed("E_UNSUPPORTED_FORMAT")
          [] active.code # ""                                                    -> active
          [] \E i \in Range(active.path) : KindOf(entries, i) = "unknown"        -> Failed("E_UNSUPPORTED_FORMAT")
          [] turns = <<>>                                                        -> Failed("E_UNSUPPORTED_FORMAT")
          [] OTHER                                                               -> [code |-> "", path |-> turns]

-----------------------------------------------------------------------------
(* A new entry shows what was shown when the entry it continues was written *)
(* and itself, whatever other branches hold; a compaction continues the     *)
(* first entry it keeps; half a line changes nothing.                       *)
BranchFollowsTip(log) ==
    LET r == Last(log) before == Front(log)
        link == IF r.kind = "compaction" THEN r.kept ELSE r.parent
        then == Entries(SubSeq(before, 1, SelectInSeq(before, LAMBDA e : IsEntry(e) /\ e.id = link)))
        was == ActivePath(then)
    IN  log # <<>> /\ Cardinality(Written(log)) = Len(Entries(log)) =>
        /\ r.kind = "torn" => ScanTurns(log) = ScanTurns(before)
        /\ r.kind # "torn" /\ link \in Written(before) =>
               ActivePath(Entries(log)) = IF was.code = "" THEN [was EXCEPT !.path = Append(@, r.id)] ELSE was
=============================================================================
