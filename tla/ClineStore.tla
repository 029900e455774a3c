------------------------------- MODULE ClineStore -------------------------------
(* adapters/cline.py: a session is a file of messages, with a manifest      *)
(* beside it; a SQLite index may list them, may lag behind, may be damaged  *)
(* or missing.  The log is what Cline and the system did to them.           *)
EXTENDS Integers, Sequences, FiniteSets, SequencesExt

CONSTANTS SessionIds,
          Listed          \* listed_sessions

Latest == 0               \* no session's id

(* messages: the file is rewritten; big: too large to be decoded for a      *)
(* list.  A manifest or an index row says whose directory the session is    *)
(* of, or that it is a sub-agent's; a stale manifest names another session. *)
Records ==
    [kind : {"messages"}, id : SessionIds, what : {"text", "empty", "broken", "big"}]
        \cup [kind : {"manifest"}, id : SessionIds, what : {"own", "away", "child", "stale"}]
        \cup [kind : {"index"}, id : SessionIds, what : {"own", "away", "child"}]
        \cup [kind : {"database"}, id : {Latest}, what : {"ok", "damaged", "busy"}]

At(log, kind, id) == SelectLastInSeq(log, LAMBDA r : r.kind = kind /\ r.id = id)
Get(log, kind, id) == IF At(log, kind, id) = 0 THEN "none" ELSE log[At(log, kind, id)].what
Messages(log, id) == Get(log, "messages", id)

(* _open_connection and _require_index_schema: the index as it answers.     *)
Index(log) ==
    IF \A i \in DOMAIN log : log[i].kind \notin {"index", "database"} THEN "absent"
    ELSE IF Get(log, "database", Latest) = "none" THEN "ok" ELSE Get(log, "database", Latest)

(* sessions_dir is there when a session ever was.                           *)
HasDirectory(log) == \E i \in DOMAIN log : log[i].kind \in {"messages", "manifest"}

Newest(rows) == {r \in rows : Cardinality({o \in rows : o.time > r.time}) < Listed}
Failed(code) == [code |-> code, rows |-> {}]
Found(rows) == [code |-> "", rows |-> rows]

-----------------------------------------------------------------------------
(* _load_messages_payload, _turn_from_message                               *)
Turns(log, id) == IF Messages(log, id) \in {"text", "big"} THEN {At(log, "messages", id)} ELSE {}

(* _list_messages_soft_ok: of a big file only the ends are looked at.       *)
SoftOk(log, id) == Messages(log, id) = "big"

(* _session_has_extractable; for an exact id a damaged file is an error.    *)
Extractable(log, id) == SoftOk(log, id) \/ Turns(log, id) # {}

(* _load_optional_manifest and what _list_from_sessions_dir makes of it.    *)
Manifest(log, id) ==
    LET what == Get(log, "manifest", id) IN IF what = "stale" THEN "none" ELSE what

(* Without a directory of its own a session is of none that is asked for.   *)
ListFromSessionsDir(log, ref) ==
    LET candidates == IF ref = Latest THEN SessionIds ELSE SessionIds \cap {ref}
        present == {id \in candidates : Messages(log, id) # "none"}
        kept == {id \in present : /\ Extractable(log, id)
                                  /\ ref = Latest => Manifest(log, id) # "child"}
    IN  IF ref # Latest /\ \E id \in present : Messages(log, id) = "broken" THEN Failed("E_CORRUPT_RECORD")
        ELSE Found({[id |-> id, time |-> At(log, "manifest", id)] :
                        id \in {k \in kept : Manifest(log, k) \in {"own", "child"}}})

(* Mutant: a readable index is the only place an exact id is looked for.    *)
ListFromIndexOnly(log, ref) ==
    LET rows == {id \in SessionIds : At(log, "index", id) # 0 /\ ref \in {Latest, id}}
    IN  Found(Newest({[id |-> id, time |-> At(log, "index", id)] :
                          id \in {k \in rows : /\ Get(log, "index", k) \in {"own", "child"}
                                               /\ ref = Latest => /\ Get(log, "index", k) # "child"
                                                                  /\ Extractable(log, k)}}))

(* _list_from_index: in the order of the index, until the list is full; an  *)
(* exact id that it lacks is looked for in the directory.                   *)
ListFromIndex(log, ref) ==
    LET rows == {id \in SessionIds : At(log, "index", id) # 0 /\ ref \in {Latest, id}}
    IN  IF ref # Latest /\ rows = {} /\ HasDirectory(log) THEN ListFromSessionsDir(log, ref)
        ELSE Found(Newest({[id |-> id, time |-> At(log, "index", id)] :
                               id \in {k \in rows : /\ Get(log, "index", k) \in {"own", "child"}
                                                    /\ ref = Latest => /\ Get(log, "index", k) # "child"
                                                                       /\ Extractable(log, k)}}))

(* ClineAdapter.list, after a probe that a busy index makes unsafe.         *)
List(log, ref) ==
    CASE Index(log) = "busy" -> Failed("E_UNSAFE_PATH")
      [] Index(log) = "ok"   -> ListFromIndex(log, ref)
      [] Index(log) \in {"damaged", "absent"} /\ HasDirectory(log) ->
             [ListFromSessionsDir(log, ref) EXCEPT !.rows = Newest(@)]
      [] OTHER -> Failed("E_UNSUPPORTED_FORMAT")

(* ClineAdapter.show: where the session belongs, from the index row or else *)
(* from the manifest, whose name is not compared here.                      *)
Home(log, id) ==
    LET row == IF Index(log) = "ok" THEN Get(log, "index", id) ELSE "none"
    IN  IF row # "none" THEN row ELSE Get(log, "manifest", id)

Show(log, id) ==
    CASE Index(log) = "busy"                     -> [code |-> "E_SOURCE_BUSY", turns |-> {}]
      [] Messages(log, id) = "none"              -> [code |-> "E_NO_MATCH", turns |-> {}]
      [] Home(log, id) \notin {"own", "child", "stale"} -> [code |-> "E_NO_MATCH", turns |-> {}]
      [] Messages(log, id) = "broken"            -> [code |-> "E_CORRUPT_RECORD", turns |-> {}]
      [] OTHER -> [code |-> "", turns |-> Turns(log, id)]

-----------------------------------------------------------------------------
(* However far the index lags, and if it is damaged or gone, a session with *)
(* something to show, of the directory by what speaks for it, is found by   *)
(* its id and handed over as last written; if the index is only busy the    *)
(* answer is an error.                                                      *)
ExactIdIsFound(log) ==
    \A id \in SessionIds :
        LET answer == List(log, id)
            row == IF Index(log) = "ok" THEN Get(log, "index", id) ELSE "none"
            speaks == IF row # "none" THEN row ELSE Manifest(log, id)
        IN  /\ Turns(log, id) # {} /\ speaks \in {"own", "child"} =>
                   IF Index(log) = "busy" THEN answer.code # ""
                   ELSE /\ {r.id : r \in answer.rows} = {id}
                        /\ Show(log, id) = [code |-> "", turns |-> {At(log, "messages", id)}]
            /\ answer.code = "" /\ speaks = "away" => answer.rows = {}

(* What list offers can be handed over: show agrees with it on where the    *)
(* session is, and has a turn of it; no sub-agent's session is offered.  So *)
(* latest never hands over nothing.                                         *)
ListedIsShown(log) ==
    LET answer == List(log, Latest) IN
    answer.code = "" => \A r \in answer.rows :
        /\ Show(log, r.id).code = "" /\ Show(log, r.id).turns # {}
        /\ Home(log, r.id) # "child"
=============================================================================
