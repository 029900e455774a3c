-------------------------------- MODULE Budget --------------------------------
(* ReadBudget of src/portable_resume/bounds.py as the adapters use it: a    *)
(* shared budget, charged directly or through a provisional copy that a     *)
(* reader charges while it works and folds in, or drops, when it is done.   *)
(* The log is the calls made, by any number of readers in any order.        *)
EXTENDS Integers, Sequences, SequencesExt, FiniteSetsExt

CONSTANTS Readers, Limit

Fields == {"records", "transcript_records_read", "bytes_read"}
Charges == {[f \in Fields |-> IF f = g THEN 1 ELSE 0] : g \in Fields \ {"transcript_records_read"}}
               \cup {[f \in Fields |-> 1]}

Zero == [f \in Fields |-> 0]
Plus(a, b) == [f \in Fields |-> a[f] + b[f]]
Minus(a, b) == [f \in Fields |-> a[f] - b[f]]
Within(a) == \A f \in Fields : a[f] <= Limit

(* The shared counters; each reader's copy and what it was copied from.     *)
(* Beside them what the property counts for itself: what the charges were   *)
(* worth that a reader's copy took, and those that are to be in the shared  *)
(* counters.                                                                *)
Fresh == [used |-> Zero, base |-> [r \in Readers |-> Zero], copy |-> [r \in Readers |-> Zero],
          open |-> {}, worth |-> [r \in Readers |-> Zero], admitted |-> Zero]

(* _consume: raises, changing nothing, when the sum would pass the ceiling. *)
Consume(s, field, amount) ==
    LET next == [s.used EXCEPT ![field] = @ + amount]
    IN  IF Within(next) THEN [s EXCEPT !.used = next, !.admitted[field] = @ + amount]
        ELSE s

Fork(s, reader) ==
    [s EXCEPT !.base[reader] = s.used, !.copy[reader] = s.used, !.open = @ \cup {reader},
              !.worth[reader] = Zero]

Charge(s, reader, charge) ==
    LET next == Plus(s.copy[reader], charge)
    IN  IF Within(next)
        THEN [s EXCEPT !.copy[reader] = next, !.worth[reader] = Plus(@, charge)]
        ELSE s

(* A bug: the copy takes the place of the counters it was made from.        *)
CommitReplaces(s, reader) ==
    [s EXCEPT !.used = s.copy[reader], !.open = @ \ {reader}, !.admitted = Plus(@, s.worth[reader])]

(* commit_provisional: adds what the copy grew by since it was made, all    *)
(* counters or none.                                                        *)
Commit(s, reader) ==
    LET delta == Minus(s.copy[reader], s.base[reader])
        next == Plus(s.used, delta)
    IN  IF Within(next)
        THEN [s EXCEPT !.used = next, !.open = @ \ {reader}, !.admitted = Plus(@, s.worth[reader])]
        ELSE [s EXCEPT !.open = @ \ {reader}]

Call(s, c) ==
    CASE c.kind = "consume" -> Consume(s, c.field, c.amount)
      [] c.kind = "fork"    -> Fork(s, c.reader)
      [] c.kind = "charge"  -> Charge(s, c.reader, c.charge)
      [] c.kind = "commit"  -> Commit(s, c.reader)

After(log) == FoldLeft(Call, Fresh, log)

(* A direct charge is of one counter; a copy is charged by the record.  A   *)
(* copy that is dropped is one that is never committed.                     *)
NextRecords(log) ==
    LET open == After(log).open IN
    [kind : {"consume"}, field : Fields \ {"transcript_records_read"}, amount : 1 .. Limit]
        \cup [kind : {"fork"}, reader : Readers \ open] \cup [kind : {"commit"}, reader : open]
        \cup [kind : {"charge"}, reader : open, charge : Charges]

-----------------------------------------------------------------------------
(* However many copies are at work when the shared counters move, these are *)
(* in the end what the direct charges were worth and every charge to a copy *)
(* that was committed, each counted once, none of a copy that was dropped,  *)
(* and never above the ceiling (bounds.py:168).                             *)
EveryChargeOnce(log) ==
    LET s == After(log)
    IN  s.used = s.admitted /\ Within(s.used)
=============================================================================
