--------------------------- MODULE OpenHandsEvents ---------------------------
(* adapters/openhands.py: a conversation is a directory of numbered event   *)
(* files.  One log is the events of several conversations; the other what   *)
(* happens to one directory, in which the agent writes, rewrites and        *)
(* deletes files between any two steps of a show.                           *)
EXTENDS Integers, Sequences, FiniteSets, SequencesExt

CONSTANTS SessionIds,
          Window,         \* events looked at for a public message, 64 in the code
          TitleWindow,    \* events looked at for a title, 32 in the code
          Listed          \* listed_sessions

Latest == 0               \* no session's id

(* message: of the user or the agent; control: a kind known to be private;  *)
(* odd: an unknown kind with content.                                       *)
Kinds == {"message", "control", "odd", "damaged"}
Records == [id : SessionIds, what : Kinds]
Events(log, id) == SelectSeq(log, LAMBDA r : r.id = id)

-----------------------------------------------------------------------------
(* _handle_event, of an event that _load_event_json may refuse.             *)
HandleEvent(what) ==
    CASE what = "damaged" -> "E_CORRUPT_RECORD"
      [] what = "odd"     -> "E_UNSUPPORTED_FORMAT"
      [] what = "message" -> "turn"
      [] OTHER            -> "none"

(* _has_public_turn: the first event that is not private decides.           *)
HasPublicTurn(events) ==
    LET i == SelectInSeq(SubSeq(events, 1, IF Len(events) < Window THEN Len(events) ELSE Window),
                         LAMBDA e : HandleEvent(e.what) # "none")
    IN  IF i = 0 THEN "none" ELSE HandleEvent(events[i].what)

(* _list_title_and_stamp: the first events and the last one are read.       *)
TitleAndStamp(events) ==
    IF \E i \in DOMAIN events : (i <= TitleWindow \/ i = Len(events)) /\ events[i].what = "damaged"
    THEN "E_CORRUPT_RECORD" ELSE "ok"

Admitted(log, id) ==
    LET public == HasPublicTurn(Events(log, id))
    IN  CASE Events(log, id) = <<>> -> "none"
          [] public = "turn"        -> TitleAndStamp(Events(log, id))
          [] OTHER                  -> public

Stamp(log, id) == SelectLastInSeq(log, LAMBDA r : r.id = id)

Candidates(ref) == IF ref = Latest THEN SessionIds ELSE {ref}
Ranked(log, ref) ==
    LET rows == {id \in Candidates(ref) : Admitted(log, id) = "ok"}
    IN  {r \in rows : ref # Latest \/ Cardinality({o \in rows : Stamp(log, o) > Stamp(log, r)}) < Listed}

(* list: what cannot be read is left out, unless its id is given.           *)
List(log, ref) ==
    IF ref # Latest /\ Admitted(log, ref) \notin {"ok", "none"} THEN [failed |-> TRUE, rows |-> {}]
    ELSE [failed |-> FALSE, rows |-> Ranked(log, ref)]

(* A conversation in which nothing is damaged is listed if a person or the  *)
(* agent speaks early in it and it is recent, whatever has become of the    *)
(* others; given its id, one that is damaged is refused, not left out.      *)
DamageIsIsolated(log) ==
    \A id \in SessionIds :
        LET events == Events(log, id)
            sound == \A i \in DOMAIN events : events[i].what \in {"message", "control"}
            early == \E i \in DOMAIN events : i <= Window /\ events[i].what = "message"
            newer == {o \in SessionIds : Stamp(log, o) > Stamp(log, id)}
        IN  /\ sound /\ early =>
                   /\ List(log, id) = [failed |-> FALSE, rows |-> {id}]
                   /\ Cardinality(newer) < Listed => id \in List(log, Latest).rows
            /\ events # <<>> /\ events[1].what \in {"damaged", "odd"} => List(log, id).failed

-----------------------------------------------------------------------------
(* show, while the agent works.  A step is one of the reader's: it pins the *)
(* directory, reads the next of the pinned files, or looks at all again.    *)
Places == 1 .. 2
Absent == [time |-> 0, what |-> "none"]

ReadRecords ==
    [kind : {"write"}, place : Places, what : {"message", "control"}]
        \cup {[kind |-> "write", place |-> 2, what |-> "damaged"], [kind |-> "delete", place |-> 2, what |-> "none"],
              [kind |-> "step", place |-> 0, what |-> "none"]}

Begin == [files |-> [p \in Places |-> Absent], phase |-> "pin", pinned |-> [p \in Places |-> Absent],
          left |-> <<>>, turns |-> <<>>, code |-> ""]

Names(files) == SelectSeq(<<1, 2>>, LAMBDA p : files[p] # Absent)
End(s, code) == [s EXCEPT !.phase = "end", !.code = code, !.turns = IF code = "" THEN @ ELSE <<>>]

Pin(s) ==
    IF Names(s.files) = <<>> THEN End(s, "E_NO_MATCH")
    ELSE [s EXCEPT !.phase = "read", !.pinned = s.files, !.left = Names(s.files)]

(* A file is read if it is still the pinned one.                            *)
ReadNext(s) ==
    LET p == Head(s.left) event == HandleEvent(s.files[p].what)
    IN  CASE s.files[p] = Absent             -> End(s, "E_CORRUPT_RECORD")
          [] s.files[p].time # s.pinned[p].time -> End(s, "E_SOURCE_BUSY")
          [] event = "turn"                  -> [s EXCEPT !.left = Tail(@), !.turns = Append(@, s.files[p])]
          [] event = "none"                  -> [s EXCEPT !.left = Tail(@)]
          [] OTHER                           -> End(s, event)

(* The same names as before, and each the same file.                        *)
Revalidate(s) ==
    CASE Names(s.files) # Names(s.pinned) -> End(s, "E_SOURCE_BUSY")
      [] \E p \in Places : s.pinned[p] # Absent /\ s.files[p].time # s.pinned[p].time -> End(s, "E_SOURCE_BUSY")
      [] s.turns = <<>> -> End(s, "E_NO_MATCH")
      [] OTHER          -> End(s, "")

(* show *)
Step(s) == CASE s.phase = "pin"                    -> Pin(s)
             [] s.phase = "read" /\ s.left # <<>>  -> ReadNext(s)
             [] s.phase = "read" /\ s.left = <<>>  -> Revalidate(s)
             [] OTHER                              -> s

After(log) ==
    FoldLeft(LAMBDA s, i : CASE log[i].kind = "write"  -> [s EXCEPT !.files[log[i].place] = [time |-> i, what |-> log[i].what]]
                             [] log[i].kind = "delete" -> [s EXCEPT !.files[log[i].place] = Absent]
                             [] OTHER                  -> Step(s),
             Begin, [i \in DOMAIN log |-> i])

NextReadRecords(log) == IF After(log).phase = "end" THEN {} ELSE ReadRecords

(* What show gives is the whole conversation at the moment it returns, and  *)
(* was so since it began: no message is from a file that has been rewritten *)
(* or deleted, and none that was written meanwhile is missing.              *)
ShownIsCurrent(log) ==
    LET s == After(log)
        current == [i \in DOMAIN Names(s.files) |-> s.files[Names(s.files)[i]]]
    IN  s.phase = "end" /\ s.code = "" =>
            /\ s.turns = SelectSeq(current, LAMBDA f : f.what = "message")
            /\ \A f \in Range(current) : f.what # "damaged" /\ f \in Range(s.pinned)
=============================================================================
