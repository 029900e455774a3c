-------------------------------- MODULE Sweep --------------------------------
(* The two commands that read every agent's store, discover_doctor.py       *)
(* (discover_report) and search_sessions.py (search_report).  The log is    *)
(* what happened to the stores: sessions written, failures of a store or of *)
(* one session, and repairs.                                                *)
EXTENDS Integers, Sequences, FiniteSets, SequencesExt, FiniteSetsExt

CONSTANTS SourceKeys,     \* a set of numbers, in the order of the sweep
          SessionIds,
          Candidates,     \* listed_sessions
          PerSource       \* max_sessions_per_source

(* What a store may answer: its probe is unsafe, says that it is not        *)
(* there, or raises; or its list raises.                                    *)
Troubles == {"unsafe", "unavailable", "probe raises", "list raises"}

(* said: the session's public turns hold the searched text.  in: of the     *)
(* searched period.  torn: show raises for it.                              *)
Records ==
    LET sessions == [kind : {"write"}, source : SourceKeys, id : SessionIds,
                     said : BOOLEAN, recent : BOOLEAN, torn : BOOLEAN]
        plain(r) == r.said /\ r.recent /\ ~r.torn
    IN  {r \in sessions : \/ plain(r)
                          \/ r.source = Max(SourceKeys) /\ r.id = Min(SessionIds) /\ ~(r.recent /\ r.torn)}
            \cup [kind : {"trouble"}, source : {Min(SourceKeys)}, what : Troubles]

Rows(log, source) ==
    LET last(id) == SelectLastInSeq(log, LAMBDA r : r.kind = "write" /\ r.source = source /\ r.id = id)
    IN  {[source |-> source, id |-> i, time |-> last(i), said |-> log[last(i)].said,
          recent |-> log[last(i)].recent, torn |-> log[last(i)].torn] : i \in {j \in SessionIds : last(j) # 0}}

Trouble(log, source) ==
    LET last == SelectLastInSeq(log, LAMBDA r : r.kind = "trouble" /\ r.source = source)
    IN  IF last = 0 THEN "none" ELSE log[last].what

Nothing == [kind |-> "nothing"]       \* happened

Newest(rows, n) == {r \in rows : Cardinality({o \in rows : o.time > r.time}) < n}

-----------------------------------------------------------------------------
(* _probe_source_row: every failure becomes the row of its source.          *)
ProbeSourceRow(trouble) ==
    CASE trouble \in {"unsafe", "probe raises"} -> "error"
      [] trouble = "unavailable"                -> "unavailable"
      [] trouble \in {"none", "list raises"}    -> "supported"

ListState(trouble) == IF trouble = "list raises" THEN "error" ELSE ProbeSourceRow(trouble)

(* discover_report: source by source, then the newest of what they listed.  *)
DiscoverReport(log) ==
    LET states == [s \in SourceKeys |-> ListState(Trouble(log, s))]
        listed == UNION {Rows(log, s) : s \in {t \in SourceKeys : states[t] = "supported"}}
    IN  [states |-> states, candidates |-> Newest(listed, Candidates)]

(* One source of search_report: the newest sessions of the period are       *)
(* shown and searched, one that cannot be shown is passed over; the warning *)
(* counts all sessions, those of other periods included.                    *)
SearchOne(rows) ==
    LET kept == Newest({r \in rows : r.recent}, PerSource)
    IN  [hits |-> {r \in kept : ~r.torn /\ r.said}, truncated |-> Cardinality(rows) > PerSource]

(* The cap over all hits orders them backwards: undated ones would go       *)
(* first; all are dated here.                                               *)
SearchReport(log) ==
    LET states == [s \in SourceKeys |-> ListState(Trouble(log, s))]
        one == [s \in {t \in SourceKeys : states[t] = "supported"} |-> SearchOne(Rows(log, s))]
        hits == UNION {one[s].hits : s \in DOMAIN one}
    IN  [states |-> states, hits |-> Newest(hits, Candidates),
         truncated |-> (\E s \in DOMAIN one : one[s].truncated) \/ Cardinality(hits) > Candidates]

-----------------------------------------------------------------------------
(* A source that fails, in whatever way, costs the report its own sessions  *)
(* and no other's, and says so in its row: what discover prints is what it  *)
(* would print if nothing had failed and the failing sources held nothing.  *)
FailuresAreIsolated(log) ==
    LET failing == {s \in SourceKeys : Trouble(log, s) # "none"}
        held == [i \in DOMAIN log |-> IF log[i].kind = "trouble" \/ log[i].source \in failing THEN Nothing ELSE log[i]]
        report == DiscoverReport(log)
    IN  /\ {s \in SourceKeys : report.states[s] # "supported"} = failing
        /\ report.candidates = DiscoverReport(held).candidates

(* A search that neither warns of truncation nor shows a source in error    *)
(* has found every readable session of the period that holds the text.      *)
SearchFindsAll(log) ==
    LET report == SearchReport(log)
        all == UNION {Rows(log, s) : s \in SourceKeys}
    IN  ~report.truncated /\ (\A s \in SourceKeys : report.states[s] = "supported") =>
            report.hits = {r \in all : r.said /\ r.recent /\ ~r.torn}
=============================================================================
