-------------------------------- MODULE Reader --------------------------------
(* The reader, src/portable_resume/reader.py with select.py, time_range.py  *)
(* and workspace.py: what list prints page by page and what show selects,   *)
(* while agents go on writing.  The log is what happened: a session was     *)
(* written, or a page was asked for.                                        *)
EXTENDS Integers, Sequences, FiniteSets, SequencesExt

CONSTANTS SessionIds,
          Window,         \* listed_sessions, 50 in the code
          Limit           \* --limit

Latest == 0               \* a reference that is no session's id

(* dated: the adapter can tell when.  own: of the queried directory; sub:   *)
(* of a directory below it in the same worktree; none: the store says not.  *)
Records ==
    [kind : {"write"}, id : SessionIds, dated : {TRUE}, cwd : {"own", "sub"}]
        \cup [kind : {"write"}, id : SessionIds, dated : {FALSE}, cwd : {"none"}] \cup [kind : {"page"}]

Modes == {"exact", "worktree"}

-----------------------------------------------------------------------------
(* summary_sort_key: dated rows first, newest first, then by id; the        *)
(* provider comes last (0 is the empty string).                             *)
Key(row) == <<IF row.dated THEN 0 ELSE 1, IF row.dated THEN -row.time ELSE 0, row.id, row.provider>>

Less(a, b) == \E i \in DOMAIN a : a[i] < b[i] /\ \A j \in 1 .. i - 1 : a[j] = b[j]
Ordered(rows) ==
    CHOOSE s \in [1 .. Cardinality(rows) -> rows] : \A i, j \in DOMAIN s : i < j => Less(Key(s[i]), Key(s[j]))

WorkspaceMatch(row, mode) ==
    CASE mode = "exact"    -> row.cwd \in {"own", "none"}
      [] mode = "worktree" -> row.cwd \in {"own", "none", "sub"}

EncodeCursor(row) == [dated |-> row.dated, time |-> row.time, id |-> row.id, provider |-> 0]

(* cursor: empty, or the marker.  It names no provider: the row it was made *)
(* from comes after it.                                                     *)
ApplyCursor(rows, cursor) == {r \in rows : \A c \in cursor : Less(Key(c), Key(r))}

PageSummaries(rows, cursor) ==
    LET after == Ordered(ApplyCursor(rows, cursor))
        page == SubSeq(after, 1, IF Len(after) < Limit THEN Len(after) ELSE Limit)
    IN  [page |-> page, next |-> IF Len(after) > Limit THEN {EncodeCursor(Last(page))} ELSE {}]

(* run, list: the newest rows of the workspace, as many as the window holds,*)
(* of which one page.                                                       *)
List(rows, mode, cursor) ==
    LET all == Ordered({r \in rows : WorkspaceMatch(r, mode)})
        kept == SubSeq(all, 1, IF Len(all) < Window THEN Len(all) ELSE Window)
        got == PageSummaries(Range(kept), cursor)
    IN  [truncated |-> Len(all) > Window, page |-> got.page, next |-> got.next]

(* select_session: the newest row, an exact id among the rows of all        *)
(* directories, or the only row whose title has the text (titled: the ids   *)
(* of those rows).  {}: no match, or an ambiguous one.                      *)
SelectSession(rows, mode, ref, titled) ==
    LET eligible == {r \in rows : WorkspaceMatch(r, mode)}
        exact == {r \in rows : r.id = ref}
        texts == {r \in eligible : r.id \in titled}
        only(set) == IF Cardinality(set) = 1 THEN set ELSE {}
    IN  IF ref = Latest THEN {r \in eligible : \A o \in eligible : ~Less(Key(o), Key(r))}
        ELSE IF exact # {} THEN only(exact) ELSE only(texts)

-----------------------------------------------------------------------------
(* The store as the adapter lists it at the end of a log, and the pages     *)
(* asked for along it, each with the cursor the one before it returned:     *)
(* seen are their rows, stable those of the start that nobody wrote since.  *)
Rows(log) ==
    LET last(id) == SelectLastInSeq(log, LAMBDA r : r.kind = "write" /\ r.id = id)
    IN  {[id |-> i, time |-> last(i), dated |-> log[last(i)].dated, cwd |-> log[last(i)].cwd, provider |-> 1]
            : i \in {j \in SessionIds : last(j) # 0}}

NotStarted == [log |-> <<>>, open |-> FALSE, cursor |-> {}, stable |-> {}, seen |-> <<>>, truncated |-> FALSE, done |-> FALSE]

AskPage(s, rows) ==
    LET got == List(rows, "exact", s.cursor)
        listed == {r \in rows : WorkspaceMatch(r, "exact")}
    IN  IF s.done THEN s
        ELSE [s EXCEPT !.open = TRUE, !.cursor = got.next,
                       !.stable = IF s.open THEN @ ELSE listed,
                       !.seen = @ \o got.page, !.truncated = @ \/ got.truncated, !.done = got.next = {}]

PassBy(s, r) ==
    LET now == [s EXCEPT !.log = Append(@, r)]
    IN  IF r.kind = "page" THEN AskPage(now, Rows(now.log)) ELSE [now EXCEPT !.stable = {o \in @ : o.id # r.id}]

Pages(log) == FoldLeft(PassBy, NotStarted, log)

(* One write of a session says all that two would until a page is asked     *)
(* for; after the last page nothing more is.                                *)
NextRecords(log) ==
    LET s == Pages(log)
    IN  {r \in Records : ~s.done /\ (r.kind = "write" /\ ~s.open => \A i \in DOMAIN log : log[i].id # r.id)}

-----------------------------------------------------------------------------
(* Whoever follows the cursors to the end has seen every session nobody     *)
(* wrote meanwhile, however the others moved, unless the pages say that the *)
(* list was truncated; and has seen them newest first.  A page never goes   *)
(* back: strictly after the cursor (time_range.py:161) come all rows but    *)
(* one, that which the page before ended with.  And when nobody writes,     *)
(* each page leaves fewer to come, so paging ends: if a page has room for a *)
(* row beside the one that comes again, which one of a single row has not.  *)
Waiting(s, rows) == ApplyCursor(rows, s.cursor)
PagesCover(log) ==
    LET s == Pages(log)
        next == AskPage(s, Rows(log))
    IN  /\ s.done /\ ~s.truncated =>
            /\ s.stable \subseteq Range(s.seen)
            /\ \A a, b \in s.stable : Less(Key(a), Key(b)) =>
                   SelectInSeq(s.seen, LAMBDA r : r = a) < SelectInSeq(s.seen, LAMBDA r : r = b)
        /\ Limit > 1 =>
            /\ \A i, j \in DOMAIN s.seen : i < j =>
                   \/ Less(Key(s.seen[i]), Key(s.seen[j]))
                   \/ j = i + 1 /\ Key(s.seen[i]) = Key(s.seen[j])
            /\ next.done \/ /\ Waiting(next, Rows(log)) \subseteq Waiting(s, Rows(log))
                            /\ Waiting(next, Rows(log)) # Waiting(s, Rows(log))

(* show latest selects the first row list prints, in either workspace mode; *)
(* show with the id of any row list prints selects that row, whatever the   *)
(* titles of the others say.                                                *)
ShowSelectsListed(log) ==
    LET rows == Rows(log)
    IN  \A mode \in Modes : LET first == List(rows, mode, {}).page IN
        /\ SelectSession(rows, mode, Latest, {}) = {first[i] : i \in DOMAIN first \cap {1}}
        /\ \A r \in Range(first), titled \in SUBSET SessionIds : SelectSession(rows, mode, r.id, titled) = {r}
=============================================================================
