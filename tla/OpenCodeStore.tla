---------------------------- MODULE OpenCodeStore ----------------------------
(* adapters/opencode.py: sessions live in one or two SQLite databases and,  *)
(* from older versions, in a store of JSON files.  One log is what happened *)
(* to the stores, the other what OpenCode wrote of one session.             *)
EXTENDS Integers, Sequences, FiniteSets, SequencesExt

CONSTANTS SessionIds

Databases == {1, 2}
Files == 3

(* busy: neither a snapshot nor a live read succeeds.  unsupported: another *)
(* schema.                                                                  *)
Records ==
    [kind : {"write"}, id : SessionIds, store : Databases \cup {Files}]
        \cup [kind : {"state"}, store : Databases, is : {"ok", "busy", "unsupported"}]

Held(log, store) == {log[i].id : i \in {j \in DOMAIN log : log[j].kind = "write" /\ log[j].store = store}}
Exists(log, store) == \E r \in Range(log) : r.store = store
State(log, store) ==
    LET last == SelectLastInSeq(log, LAMBDA r : r.kind = "state" /\ r.store = store)
    IN  IF last = 0 THEN "ok" ELSE log[last].is

In(log, state) == {d \in Databases : Exists(log, d) /\ State(log, d) = state}

-----------------------------------------------------------------------------
(* OpenCodeAdapter.probe: the files count only when no database is usable.  *)
Probe(log) ==
    CASE In(log, "ok") # {} -> [state |-> IF In(log, "ok") = {d \in Databases : Exists(log, d)}
                                          THEN "supported" ELSE "partial", warned |-> FALSE]
      [] In(log, "ok") = {} /\ Held(log, Files) # {} ->
             [state |-> IF In(log, "busy") \cup In(log, "unsupported") = {} THEN "supported" ELSE "partial",
              warned |-> In(log, "busy") # {}]
      [] In(log, "ok") = {} /\ Held(log, Files) = {} ->
             [state |-> IF In(log, "busy") # {} THEN "busy" ELSE "unsupported", warned |-> FALSE]

Rows(log) == UNION {[id : Held(log, s), store : {s}] : s \in In(log, "ok") \cup {Files}}

(* Mutant: a database that was skipped is forgotten when nothing is listed. *)
ListSkipping(log) ==
    [kind |-> "list", rows |-> Rows(log),
     warned |-> IF In(log, "busy") = {} THEN {} ELSE {r \in Rows(log) : r.store = Files}]

(* OpenCodeAdapter.list: a busy database is skipped if anything else was    *)
(* found, and the rows of the files then carry W_SOURCE_PROVIDER_SKIPPED.   *)
List(log) ==
    LET skipped == In(log, "busy") # {}
        kind == CASE skipped /\ Rows(log) = {} -> "busy"
                  [] ~skipped /\ Rows(log) = {} /\ In(log, "ok") = {} /\ ~Exists(log, Files) -> "unsupported"
                  [] OTHER -> "list"
    IN  [kind |-> kind, rows |-> IF kind = "list" THEN Rows(log) ELSE {},
         warned |-> IF skipped THEN {r \in Rows(log) : r.store = Files} ELSE {}]

(* list as the reader runs it: after a probe that must not refuse.          *)
Answer(log) ==
    IF Probe(log).state \in {"supported", "partial"} THEN List(log)
    ELSE [kind |-> Probe(log).state, rows |-> {}, warned |-> {}]

-----------------------------------------------------------------------------
(* What OpenCode writes of one session, ids ascending, clocks not: messages *)
(* and their parts, which may reach the store before their message does.    *)
(* step: a part that is no text.                                            *)
PartRecords ==
    [kind : {"message"}, role : {"user", "assistant"}, time : 1 .. 2]
        \cup [kind : {"part"}, of : 1 .. 3, time : 1 .. 2, what : {"text", "step"}]

Before(log, i, j) == log[i].time < log[j].time \/ (log[i].time = log[j].time /\ i < j)
Sorted(log, set) == SetToSortSeq(set, LAMBDA i, j : Before(log, i, j))
Messages(log) == {i \in DOMAIN log : log[i].kind = "message"}
Parts(log, m) == {i \in DOMAIN log : log[i].kind = "part" /\ log[i].of = m}

(* _append_part                                                             *)
AppendPart(log, turns, m, p) ==
    IF log[p].what = "step" THEN turns ELSE Append(turns, [role |-> log[m].role, part |-> p])

(* The join: ORDER BY message time, message id, part time, part id.         *)
SqlRows(log) ==
    LET pairs == {<<m, p>> : m \in Messages(log), p \in DOMAIN log}
    IN  SetToSortSeq({q \in pairs : q[2] \in Parts(log, q[1])},
            LAMBDA a, b : IF a[1] = b[1] THEN Before(log, a[2], b[2]) ELSE Before(log, a[1], b[1]))

TurnsFromSqlRows(log) ==
    [turns |-> FoldLeft(LAMBDA turns, row : AppendPart(log, turns, row[1], row[2]), <<>>, SqlRows(log)),
     missing |-> \E m \in Messages(log) : Parts(log, m) = {},
     broken |-> \E p \in DOMAIN log : log[p].kind = "part" /\ log[p].of \notin Messages(log)]

(* _show_file_store: message by message, the parts of its directory.  Those *)
(* of a message that is not there are in a directory nobody opens.          *)
ShowFileStore(log) ==
    LET addMessage(turns, m) ==
            FoldLeft(LAMBDA t, p : AppendPart(log, t, m, p), turns, Sorted(log, Parts(log, m)))
    IN  [turns |-> FoldLeft(addMessage, <<>>, Sorted(log, Messages(log))),
         missing |-> \E m \in Messages(log) : Parts(log, m) = {},
         broken |-> FALSE]

-----------------------------------------------------------------------------
(* In whatever order stores came and failed, a list leaves out no session   *)
(* of a store that can be read, whatever the others hold (one of two such   *)
(* stores is in it once for each); it leaves out one of a database that     *)
(* cannot only while probe calls the source partial; and beside a busy one  *)
(* it is never empty and its rows from the files are warned of.  Its rows   *)
(* from another database are not, and of a schema the adapter does not know *)
(* next to one that it does there is no word but the probe's.               *)
EmptyMeansNone(log) ==
    LET answer == Answer(log) IN
    answer.kind = "list" =>
        /\ \A s \in Databases \cup {Files} : \A id \in Held(log, s) :
               \/ [id |-> id, store |-> s] \in answer.rows
               \/ s \in Databases \ In(log, "ok") /\ Probe(log).state = "partial"
        /\ In(log, "busy") # {} =>
               /\ answer.rows # {}
               /\ {r \in answer.rows : r.store = Files} \subseteq answer.warned

(* A session reads the same from the database as from the files it was      *)
(* migrated from: the same turns in the same order, whatever order OpenCode *)
(* wrote them in and whatever its clocks said.                              *)
SameFromEither(log) ==
    LET sql == TurnsFromSqlRows(log)
        files == ShowFileStore(log)
    IN  sql.turns = files.turns /\ sql.missing = files.missing
=============================================================================
