-------------------------------- MODULE QwenChat --------------------------------
(* The Qwen adapter, src/portable_resume/adapters/qwen.py: a chat is a tree *)
(* of records, each written in one line or in several (fragments of one     *)
(* uuid); the branch shown is the one of the newest complete leaf.          *)
EXTENDS Integers, Sequences, FiniteSets, SequencesExt

CONSTANT Ids              \* uuids, given out in order

None == 0
Lost == Cardinality(Ids) + 1        \* a uuid this file never held
Row(type, id, parent) == [kind |-> "row", type |-> type, id |-> id, parent |-> parent, session |-> "own"]
Noise == {[kind |-> "torn"], [kind |-> "blank"]}

IsRow(r) == r.kind = "row"
Rows(log) == SelectSeq(log, IsRow)
Written(log) == {Rows(log)[i].id : i \in DOMAIN Rows(log)}

(* A new record after any earlier one, a further fragment of one, one that  *)
(* contradicts what it continues, one of another session, part of a line.   *)
NextRecords(log) ==
    LET old == Written(log) new == Cardinality(old) + 1
    IN  (IF old = Ids THEN {}
         ELSE {Row(t, new, p) : t \in {"user", "artifact"}, p \in old \cup {None, Lost}}
              \cup {[Row("user", new, None) EXCEPT !.session = "other"]})
        \cup Range(Rows(log)) \cup Noise
        \cup {[r EXCEPT !.parent = Lost] : r \in Range(Rows(log))}

-----------------------------------------------------------------------------
(* The fragments of one uuid, as one record where its first fragment was.   *)
Agrees(a, b) == a.id = b.id => a = b

AggregateFragments(rows) ==
    FoldLeft(LAMBDA out, r : IF \E i \in DOMAIN out : out[i].id = r.id THEN out ELSE Append(out, r), <<>>, rows)

IsArtifact(r) == r.type = "artifact"

(* From a leaf to a root: the path, or the empty sequence when it ends at a *)
(* uuid this file lacks.  (Parents are written first: there is no circle.)  *)
RECURSIVE Path(_, _)
Path(byId, id) ==
    CASE id \notin DOMAIN byId         -> <<>>
      [] byId[id].parent = None        -> <<id>>
      [] OTHER -> LET up == Path(byId, byId[id].parent)
                  IN  IF up = <<>> THEN <<>> ELSE Append(up, id)

HasLinks(rows) == \E i \in DOMAIN rows : rows[i].parent # None

(* The path of the last complete leaf; without any link between records,    *)
(* all of them in file order.                                               *)
Lineage(all) ==
    LET rows == SelectSeq(AggregateFragments(all), LAMBDA r : ~IsArtifact(r))
        byId == [i \in {rows[k].id : k \in DOMAIN rows} |-> rows[CHOOSE k \in DOMAIN rows : rows[k].id = i]]
        leaves == {k \in DOMAIN rows : \A j \in DOMAIN rows : rows[j].parent # rows[k].id}
        complete == {k \in leaves : Path(byId, rows[k].id) # <<>>}
    IN  CASE ~HasLinks(rows) -> [k \in DOMAIN rows |-> rows[k].id]
          [] complete = {}   -> <<>>
          [] OTHER           -> Path(byId, rows[CHOOSE k \in complete : \A j \in complete : j <= k].id)

(* _records: a torn last line is dropped; contradicting fragments, a record *)
(* of another session and a broken line are errors.                         *)
Show(log) ==
    LET rows == Rows(log)
    IN  CASE \E i \in DOMAIN rows : rows[i].session = "other"            -> [code |-> "E_CORRUPT_RECORD", ids |-> <<>>]
          [] rows = <<>>                                                 -> [code |-> "E_UNSUPPORTED_FORMAT", ids |-> <<>>]
          [] \E i, j \in DOMAIN rows : ~Agrees(rows[i], rows[j])         -> [code |-> "E_CORRUPT_RECORD", ids |-> <<>>]
          [] OTHER                                                       -> [code |-> "", ids |-> Lineage(rows)]

-----------------------------------------------------------------------------
(* The records so far are a tree, not a list without links.                 *)
IsTree(log) ==
    LET rows == SelectSeq(AggregateFragments(Rows(log)), LAMBDA r : ~IsArtifact(r))
    IN  HasLinks(rows) \/ Len(rows) = 1

(* A reply shows the branch it continues and itself, whatever was said on   *)
(* other branches since; a record whose ancestry this file lacks, and one   *)
(* that is not conversation, show nothing and hide nothing.                 *)
ReplyFollowsParent(log) ==
    LET r == Last(log) before == Front(log)
        then == SubSeq(before, 1, SelectInSeq(before, LAMBDA o : IsRow(o) /\ o.id = r.parent))
        branch == Lineage(Rows(then))
    IN  log # <<>> /\ IsRow(r) /\ r.id \notin Written(before) /\ Show(log).code = "" =>
        CASE IsArtifact(r)                                             -> Lineage(Rows(log)) = Lineage(Rows(before))
          [] ~IsArtifact(r) /\ IsTree(then) /\ Contains(branch, r.parent) -> Lineage(Rows(log)) = Append(branch, r.id)
          [] ~IsArtifact(r) /\ IsTree(before) /\ r.parent # None /\ ~Contains(branch, r.parent)
                                                                       -> Lineage(Rows(log)) = Lineage(Rows(before))
          [] OTHER                                                     -> TRUE

(* A further fragment of a record, half a line and an empty line change     *)
(* nothing of what is shown.                                                *)
FragmentIsIdle(log) ==
    LET r == Last(log) before == Front(log)
    IN  log # <<>> /\ Rows(before) # <<>> /\ (IsRow(r) => r \in Range(Rows(before))) => Show(log) = Show(before)
=============================================================================
