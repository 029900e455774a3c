---------------------------- MODULE CursorStores ----------------------------
(* adapters/cursor.py and cursor_live.py: Cursor keeps sessions in four     *)
(* kinds of store, which may hold the same session.  One log is what Cursor *)
(* did to the stores, another the lines it wrote of one session, a third    *)
(* the bubbles of one desktop conversation.                                 *)
EXTENDS Integers, Sequences, FiniteSets, SequencesExt

CONSTANTS SessionIds,
          DesktopCap,     \* rows the live desktop database is asked for
          RowCap,         \* transcript_records; links: normalized_turns
          TurnCap         \* normalized_turns, of a desktop conversation

Latest == 0               \* no session's id

(* In the order of their format names: metadata.json with transcripts, a    *)
(* store.db, the live desktop's database, a desktop database of fixtures.   *)
Providers == <<"cli", "store", "desktop", "vscdb">>
Rank(provider) == CHOOSE i \in DOMAIN Providers : Providers[i] = provider

(* The last record of a session in a store is what the store holds of it.   *)
Records ==
    [kind : {"cli", "vscdb"}, id : SessionIds, is : {"own", "archived"}]
        \cup [kind : {"store"}, id : SessionIds, is : {"own", "away"}]
        \cup [kind : {"desktop"}, id : SessionIds, is : {"own", "archived", "away"}]
        \cup [kind : {"state"}, id : {Latest}, is : {"ok", "busy"}]

At(log, provider, id) == SelectLastInSeq(log, LAMBDA r : r.kind = provider /\ r.id = id)
Has(log, provider, id, states) == LET i == At(log, provider, id) IN i # 0 /\ log[i].is \in states
Row(log, provider, id) == [id |-> id, provider |-> provider, time |-> At(log, provider, id)]
Busy(log) == LET i == SelectLastInSeq(log, LAMBDA r : r.kind = "state") IN i # 0 /\ log[i].is = "busy"

-----------------------------------------------------------------------------
ShownStates(ref, id) == IF ref = id THEN {"own", "archived"} ELSE {"own"}

(* _metadata_paths and _cli_summary                                         *)
CliRows(log, ref) ==
    {Row(log, "cli", id) : id \in {s \in SessionIds : ref \in {Latest, s} /\ Has(log, "cli", s, ShownStates(ref, s))}}

(* _list_live_cli_stores: of the directory's bucket, whatever id is given.  *)
StoreRows(log) == {Row(log, "store", id) : id \in {s \in SessionIds : Has(log, "store", s, {"own"})}}

(* _desktop_summaries                                                       *)
VscdbRows(log, ref) ==
    {Row(log, "vscdb", id) : id \in {s \in SessionIds : ref \in {Latest, s} /\ Has(log, "vscdb", s, ShownStates(ref, s))}}

(* _list_live_desktop: a database that cannot be read has no rows; the      *)
(* newest of all projects are asked for, then this one's are kept.          *)
DesktopRows(log) ==
    LET held == {Row(log, "desktop", id) : id \in {s \in SessionIds : Has(log, "desktop", s, {"own", "away"})}}
        newest == {r \in held : Cardinality({o \in held : o.time > r.time}) < DesktopCap}
    IN  IF Busy(log) THEN {} ELSE {r \in newest : log[r.time].is = "own"}

(* The row of the first format.                                             *)
Dedupe(rows) == {r \in rows : \A o \in rows : o.id = r.id => Rank(r.provider) <= Rank(o.provider)}

(* list: the fixtures' database is asked if there is no other row.          *)
Gathered(log, ref) ==
    LET chats == CliRows(log, ref) \cup StoreRows(log)
    IN  chats \cup DesktopRows(log) \cup (IF chats = {} THEN VscdbRows(log, ref) ELSE {})

List(log, ref) == Dedupe(Gathered(log, ref))

(* A session that two stores hold is listed once, and from the store that   *)
(* has its transcript rather than from the desktop's record of it, however  *)
(* new that is; an id given finds the session in the metadata, archived or  *)
(* not, and in a store.db or, if this directory has none, in the fixtures.  *)
TranscriptIsPreferred(log) ==
    /\ \A row \in List(log, Latest) : \A other \in List(log, Latest) : row.id = other.id => row = other
    /\ \A id \in SessionIds :
           LET rows == {r \in List(log, id) : r.id = id} IN
           /\ At(log, "cli", id) # 0 => rows = {Row(log, "cli", id)}
           /\ At(log, "cli", id) = 0 /\ Has(log, "store", id, {"own"}) => rows = {Row(log, "store", id)}
           /\ StoreRows(log) = {} /\ At(log, "vscdb", id) # 0 => rows # {}

(* Every session of this directory that is not archived is listed, unless   *)
(* all that holds it is the live desktop's database, and that is busy or    *)
(* newer sessions of other directories crowd it out, or the fixtures' one   *)
(* beside other rows; so an empty list means that there is none, but for    *)
(* the first two, of which no warning tells.  And what is listed is there.  *)
OwnIsListed(log) ==
    LET listed == {r.id : r \in List(log, Latest)}
        crowded(id) == Cardinality({s \in SessionIds : At(log, "desktop", s) > At(log, "desktop", id)}) >= DesktopCap
    IN  \A id \in SessionIds :
            /\ Has(log, "cli", id, {"own"}) \/ Has(log, "store", id, {"own"}) => id \in listed
            /\ Has(log, "desktop", id, {"own"}) => id \in listed \/ Busy(log) \/ crowded(id)
            /\ Has(log, "vscdb", id, {"own"}) => id \in listed \/ \E r \in List(log, Latest) : r.provider \in {"cli", "store"}
            /\ id \in listed => \E p \in {"cli", "store", "desktop", "vscdb"} : Has(log, p, id, {"own"})

-----------------------------------------------------------------------------
(* One session: two transcripts of which the metadata may name either, and  *)
(* a store.db.  A message may have its text in a blob, which may be lost; a *)
(* line may be damaged, and the last one torn.                              *)
TranscriptRecords ==
    [kind : {"line"}, file : {"a", "b"}, what : {"text", "lost", "system", "damaged", "torn"}]
        \cup [kind : {"link"}, file : {"a", "b"}, what : {"name"}]

Of(log, file) == SelectSeq([i \in DOMAIN log |-> [log[i] EXCEPT !.what = <<@, i>>]],
                           LAMBDA r : r.kind = "line" /\ r.file = file)
Linked(log) ==
    FoldLeft(LAMBDA out, r : IF r.kind = "link" /\ ~Contains(out, r.file) THEN Append(out, r.file) ELSE out, <<>>, log)
Exists(log, file) == \E r \in Range(log) : r.kind = "line" /\ r.file = file

(* _transcript_paths: the linked ones, in the order of the metadata, then   *)
(* those the metadata misses.                                               *)
TranscriptPaths(log) ==
    LET linked == SelectSeq(Linked(log), LAMBDA f : Exists(log, f))
        extras == SelectSeq(<<"a", "b">>, LAMBDA f : Exists(log, f) /\ ~Contains(linked, f))
    IN  [paths |-> linked \o extras,
         stale |-> extras # <<>> \/ \E i \in DOMAIN Linked(log) : ~Exists(log, Linked(log)[i])]

Parsed == [turns |-> <<>>, warnings |-> {}, code |-> "", over |-> FALSE]

(* Only an unterminated last line may be undecodable.                       *)
TranscriptLine(s, line, isLast) ==
    CASE s.code # "" \/ s.over             -> s
      [] line.what[1] = "text"             -> [s EXCEPT !.turns = Append(@, line.what[2])]
      [] line.what[1] = "lost"             -> [s EXCEPT !.warnings = @ \cup {"W_MISSING_BLOB"}]
      [] line.what[1] = "torn" /\ isLast   -> [s EXCEPT !.warnings = @ \cup {"W_PARTIAL_TAIL"}, !.over = TRUE]
      [] line.what[1] \in {"damaged", "torn"} -> [s EXCEPT !.code = "E_CORRUPT_RECORD"]
      [] OTHER                             -> s

(* _parse_transcript                                                        *)
ParseTranscript(s, lines) ==
    FoldLeft(LAMBDA r, i : TranscriptLine(r, lines[i], i = Len(lines)), [s EXCEPT !.over = FALSE],
             [i \in DOMAIN lines |-> i])

(* show, of a session with metadata.                                        *)
ShowCli(log) ==
    LET found == TranscriptPaths(log)
        read == FoldLeft(LAMBDA s, f : ParseTranscript(s, Of(log, f)), Parsed, found.paths)
    IN  [read EXCEPT !.warnings = @ \cup IF found.stale THEN {"W_STALE_INDEX"} ELSE {}]

(* _show_live_cli_store, of the same lines as rows of blobs.                *)
ShowStore(log) ==
    LET rows == Of(log, "a")
        row(s, r) == CASE r.what[1] = "text"                      -> [s EXCEPT !.turns = Append(@, r.what[2])]
                       [] r.what[1] \in {"damaged", "torn", "lost"} -> [s EXCEPT !.warnings = @ \cup {"W_BINARY_OMITTED"}]
                       [] OTHER                                   -> s
    IN  IF Len(rows) > RowCap THEN [Parsed EXCEPT !.code = "E_LIMIT_EXCEEDED"] ELSE FoldLeft(row, Parsed, rows)

(* _desktop_session, of the same lines as links to blobs (system: a blob of *)
(* another kind).                                                           *)
ShowVscdb(log) ==
    LET links == Of(log, "b")
        link(s, r) == CASE s.code # ""          -> s
                        [] r.what[1] = "text"   -> [s EXCEPT !.turns = Append(@, r.what[2])]
                        [] r.what[1] = "lost"   -> [s EXCEPT !.warnings = @ \cup {"W_MISSING_BLOB"}]
                        [] r.what[1] = "system" -> [s EXCEPT !.code = "E_UNSUPPORTED_FORMAT"]
                        [] OTHER                -> [s EXCEPT !.code = "E_CORRUPT_RECORD"]
    IN  IF Len(links) > RowCap THEN [Parsed EXCEPT !.code = "E_LIMIT_EXCEEDED"] ELSE FoldLeft(link, Parsed, links)

(* A session is shown with every message of every transcript, linked or     *)
(* not, each once and each transcript's in order, or refused; what is left  *)
(* out, a lost text or a line still being written, is warned of.            *)
ShownOrWarned(log) ==
    \A show \in {<<ShowCli(log), {"a", "b"}>>, <<ShowStore(log), {"a"}>>, <<ShowVscdb(log), {"b"}>>} :
        LET read == show[1]
            lines == {i \in DOMAIN log : log[i].kind = "line" /\ log[i].file \in show[2]}
            said == {i \in lines : log[i].what = "text"}
        IN  read.code = "" =>
                /\ Range(read.turns) = said /\ Len(read.turns) = Cardinality(said)
                /\ \A f \in show[2] :
                       LET own == SelectSeq(read.turns, LAMBDA i : log[i].file = f)
                       IN  \A i, j \in DOMAIN own : i < j => own[i] < own[j]
                /\ (\E i \in lines : log[i].what \in {"lost", "damaged", "torn"}) => read.warnings # {}

-----------------------------------------------------------------------------
(* A desktop conversation is a record in which the same bubbles may lie in  *)
(* several places, under keys that are searched in turn.                    *)
BubbleRecords ==
    {b \in [at : {"conversation", "messages", "state"}, role : {"user", "assistant", "odd"}, text : {"yes", "no", ""}] :
        /\ b.role = "odd" => b.text = "yes"
        /\ b.text = "" => b.role = "user"}
Keys == <<"conversation", "messages", "state">>

(* _append: no text twice of one role.                                      *)
AppendBubble(turns, b) ==
    IF b.role = "odd" \/ b.text = "" \/ Contains(turns, <<b.role, b.text>>) THEN turns
    ELSE Append(turns, <<b.role, b.text>>)

(* _composer_data_turns: the walk ends when there are as many turns as a    *)
(* session may have.                                                        *)
ComposerTurns(log) ==
    FoldLeft(LAMBDA turns, key :
                 FoldLeft(LAMBDA t, b : IF Len(t) >= TurnCap THEN t ELSE AppendBubble(t, b), turns,
                          SelectSeq(log, LAMBDA b : b.at = key)),
             <<>>, Keys)

(* _show_live_desktop: the graph of the bubbles is never claimed whole, and *)
(* turns beyond the ceiling would be warned of, were there any.             *)
ShowDesktop(log) ==
    LET turns == ComposerTurns(log)
    IN  [turns |-> SubSeq(turns, 1, IF Len(turns) > TurnCap THEN TurnCap ELSE Len(turns)),
         warnings |-> {"W_MISSING_BLOB"} \cup IF Len(turns) > TurnCap THEN {"W_TRUNCATED"} ELSE {}]

Doubled(log) == log \o [i \in DOMAIN log |-> [log[i] EXCEPT !.at = "state"]]

(* A conversation that lies in two places of the record is shown once, and  *)
(* no text that a person or the agent has said is missing, up to as many as *)
(* a session may have: at the price that one said twice is shown once.      *)
(* There the walk stops without W_TRUNCATED; that something may be missing  *)
(* only W_MISSING_BLOB says, which every such session carries.              *)
BubblesOnce(log) ==
    LET shown == ShowDesktop(log).turns
        said == {<<b.role, b.text>> : b \in {r \in Range(log) : r.role # "odd" /\ r.text # ""}}
    IN  /\ ShowDesktop(Doubled(log)) = ShowDesktop(log)
        /\ Range(shown) \subseteq said /\ (Len(shown) < TurnCap => said \subseteq Range(shown))
=============================================================================
