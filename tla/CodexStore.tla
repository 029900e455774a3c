----------------------------- MODULE CodexStore -----------------------------
(* How adapters/codex.py and codex_sqlite.py list the sessions of a Codex   *)
(* home: numbered state databases that index rollouts, and the rollout      *)
(* files themselves, active and archived.  The log is what Codex did to     *)
(* them.  All sessions are of the queried directory and of the listed age.  *)
EXTENDS Integers, Sequences, FiniteSets, SequencesExt, FiniteSetsExt

CONSTANTS SessionIds,
          Foreign,        \* sessions of sub-agents: neither cli nor vscode
          Listed,         \* listed_sessions
          WalkCap,        \* scanned_records: names a walk of sessions/ looks at
          NameCap         \* transcript_records: names an exact lookup looks at

Databases == {1, 2}       \* state_<n>.sqlite
AnyRef == 0

(* write: a rollout is made or appended to.  archive: it moves.  break: its *)
(* head is damaged.  index: a database takes over what the newest rollout   *)
(* is now.  busy: a database becomes unreadable, or readable again.         *)
Records ==
    [kind : {"write", "archive"}, id : SessionIds] \cup [kind : {"break"}, id : SessionIds \ Foreign]
        \cup [kind : {"index"}, id : SessionIds, db : Databases] \cup [kind : {"busy"}, db : Databases]

Newest(files) == {f \in files : \A g \in files : g.time <= f.time}

After(s, r, i) ==
    LET of(where) == {f \in s.files : f.id = r.id /\ f.where = where}
        head == IF r.kind = "break" THEN "broken" ELSE IF r.id \in Foreign THEN "foreign" ELSE "own"
    IN  CASE r.kind \in {"write", "break"} ->
               [s EXCEPT !.files = (@ \ of("sessions"))
                    \cup {[id |-> r.id, where |-> "sessions", time |-> i, head |-> head]}]
          [] r.kind = "archive" /\ of("sessions") # {} ->
               [s EXCEPT !.files = (@ \ (of("sessions") \cup of("archived")))
                    \cup {[f EXCEPT !.where = "archived"] : f \in of("sessions")}]
          [] r.kind = "index" ->
               [s EXCEPT !.db[r.db] = {row \in @ : row.id # r.id}
                    \cup {[id |-> f.id, where |-> f.where, time |-> f.time]
                              : f \in Newest(of("sessions") \cup of("archived"))}]
          [] r.kind = "busy" -> [s EXCEPT !.busy = SymDiff(@, {r.db})]
          [] OTHER -> s

Store(log) == FoldLeftDomain(LAMBDA s, i : After(s, log[i], i),
                             [files |-> {}, db |-> [d \in Databases |-> {}], busy |-> {}], log)

-----------------------------------------------------------------------------
(* _database_summaries: the newest rows of active sessions, or the row of   *)
(* the exact id; those whose rollout is not where they say are unresolved.  *)
DatabaseSummaries(rows, files, ref) ==
    LET eligible == {r \in rows : /\ r.id \notin Foreign
                                  /\ r.id = ref \/ (ref = AnyRef /\ r.where = "sessions")}
        top == {r \in eligible : Cardinality({o \in eligible : o.time > r.time}) < Listed}
        resolved == {r \in top : \E f \in files : f.id = r.id /\ f.where = r.where}
    IN  [rows |-> resolved, unresolved |-> resolved # top]

(* The rows whose rollout's head names them; they keep the index's time.    *)
Verified(rows, files) ==
    {r \in rows : \E f \in files : f.id = r.id /\ f.where = r.where /\ f.head = "own"}

(* _walk_rollouts with the soft limit, _walk_exact_rollouts: past the cap,  *)
(* whatever the system returned first.  Archived rollouts answer exact ids. *)
RolloutPaths(files, ref) ==
    LET active == {f \in files : f.where = "sessions"}
        names == IF ref = AnyRef THEN active ELSE files
        cap == IF ref = AnyRef THEN WalkCap ELSE NameCap
        seen == IF Cardinality(names) > cap THEN kSubset(cap, names) ELSE {names}
    IN  {[paths |-> {f \in s : ref \in {AnyRef, f.id}}, truncated |-> s # names] : s \in seen}

(* One rollout of the walk, newest first; _rollout_summary raises over a    *)
(* damaged head and passes over a foreign one.                              *)
AddRollout(s, f) ==
    IF s.corrupt \/ s.full THEN s
    ELSE IF s.added >= Listed THEN [s EXCEPT !.full = TRUE]
    ELSE IF \E r \in s.rows : r.id = f.id THEN s
    ELSE CASE f.head = "broken"  -> [s EXCEPT !.corrupt = TRUE]
           [] f.head = "foreign" -> s
           [] f.head = "own"     -> [s EXCEPT !.added = @ + 1,
                                        !.rows = @ \cup {[id |-> f.id, where |-> f.where, time |-> f.time]}]

(* Mutant: a database that answered makes the walk unnecessary.             *)
NeedFsUnlessIndexed(rows, found, degraded, ref) ==
    found.rows = {} \/ degraded \/ rows # found.rows \/ found.unresolved

NeedFs(rows, found, degraded, ref) ==
    \/ degraded \/ rows # found.rows \/ found.unresolved
    \/ ref = AnyRef \/ rows = {}

(* The end of list: the newest rows, W_TRUNCATED when any were left out; an *)
(* empty or an exact answer of a truncated search is E_LIMIT_EXCEEDED.      *)
Merge(rows, truncated, degraded, ref) ==
    LET ranked == {r \in rows : Cardinality({o \in rows : o.time > r.time}) < Listed}
        cut == truncated \/ ranked # rows
    IN  [kind |-> IF cut /\ (ranked = {} \/ ref # AnyRef) THEN "limit" ELSE "list",
         rows |-> ranked, truncated |-> cut, stale |-> degraded]

(* CodexAdapter.list: every outcome the walk's order leaves open.  The      *)
(* newest readable database is asked, an unreadable one is passed over.     *)
List(s, ref) ==
    LET usable == {d \in Databases \ s.busy : s.db[d] # {}}
        asked == IF usable = {} THEN {} ELSE {Max(usable)}
        degraded == \E d \in s.busy : s.db[d] # {} /\ \A a \in asked : d > a
        found == IF asked = {} THEN [rows |-> {}, unresolved |-> FALSE]
                 ELSE DatabaseSummaries(s.db[Max(usable)], s.files, ref)
        rows == Verified(found.rows, s.files)
        start == [rows |-> rows, added |-> 0, full |-> FALSE, corrupt |-> FALSE]
        newestFirst(paths) == SetToSortSeq(paths, LAMBDA a, b : a.time > b.time)
    IN  IF ~NeedFs(rows, found, degraded, ref) THEN {Merge(rows, FALSE, degraded, ref)}
        ELSE {LET w == FoldLeft(AddRollout, start, newestFirst(walk.paths))
              IN  IF w.corrupt THEN [kind |-> "corrupt", rows |-> {}, truncated |-> FALSE, stale |-> FALSE]
                  ELSE Merge(w.rows, walk.truncated \/ w.full, degraded, ref)
                  : walk \in RolloutPaths(s.files, ref)}

-----------------------------------------------------------------------------
(* Whatever the databases say, remember or fail to say, a list that is not  *)
(* marked W_TRUNCATED holds exactly the sessions with an active rollout.    *)
CompleteListIsExact(log) ==
    LET s == Store(log) IN
    \A out \in List(s, AnyRef) : out.kind = "list" /\ ~out.truncated =>
        {r.id : r \in out.rows} = {f.id : f \in {g \in s.files : g.where = "sessions" /\ g.head = "own"}}

(* An exact id is found, active or archived, when it has a readable rollout *)
(* and one row only; the answer is no match only if it has none at all, and *)
(* a row no database vouches for comes from a complete search.              *)
ExactIdIsSettled(log) ==
    LET s == Store(log) IN
    \A id \in SessionIds \ Foreign : \A out \in List(s, id) :
        LET own == {f \in s.files : f.id = id /\ f.head = "own"} IN
        out.kind = "list" =>
            /\ Cardinality(out.rows) <= 1
            /\ out.rows = {} <=> own = {}
            /\ \A r \in out.rows : \/ \E d \in Databases \ s.busy : r \in s.db[d]
                                   \/ Cardinality(s.files) <= NameCap
=============================================================================
