------------------------------ MODULE ProgramState ------------------------------
(* scripts/validate_program_state.py: what a state root of the sequential   *)
(* program may say.  Receipts of transitions, dependency events and         *)
(* evidence are only ever appended; pointer and manifest, rewritten after   *)
(* them, claim what they amount to.  The log is all of that, in order.      *)
EXTENDS Integers, Sequences, FiniteSets, SequencesExt

CONSTANTS Issues,         \* what a receipt may name
          Inventory,      \* the activation inventory
          Owners, Pairs,  \* the frozen pairs: issues that wait for something external
          Tried,          \* of all receipts, those of a log of receipts
          RootTried       \* and those of a state root

None == 0
Statuses == {"idle", "owned", "blocked", "complete"}
Work == {"issue-acquired", "pr-opened", "issue-released"}
Closing == {"issue-released", "program-completed"}

(* Operations of which no rule asks who writes them; bootstrap stands for   *)
(* all those that the validator does not know (transition_ops).             *)
Unguarded == {"program-blocked", "program-resumed", "dependency-updated", "bootstrap"}
Operations == Work \cup Closing \cup Unguarded

(* A receipt says what it likes: nothing but the replay looks at its        *)
(* fields.  issue is issue_number or active_issue_number, names the other   *)
(* places of issues, released_issue_number and resolved_issues.             *)
Receipts ==
    [kind : {"receipt"}, op : Operations, from : Statuses \cup {"uninitialized"}, to : Statuses,
     issue : Issues \cup {None}, owner : Owners \cup {None}, accepted : {"none", "yes", "no"}, names : SUBSET Issues]

Receipt(op, from, to, issue, owner, accepted, names) ==
    [kind |-> "receipt", op |-> op, from |-> from, to |-> to, issue |-> issue, owner |-> owner,
     accepted |-> accepted, names |-> names]

(* What else a state root holds.  Evidence is bare when it lacks provenance.*)
Papers ==
    [kind : {"event"}, pair : Pairs, class : {"unknown", "related-blocks-subject"}]
        \cup [kind : {"evidence"}, pair : Pairs, what : {"satisfied", "bare"}]
        \cup [kind : {"pointer", "manifest"}]

At(log, kind) == {i \in DOMAIN log : log[i].kind = kind}
LastOf(log, kind) == SelectLastInSeq(log, LAMBDA r : r.kind = kind)

-----------------------------------------------------------------------------
(* check_forbidden_transition                                               *)
Forbidden(view, r) ==
    \/ view.status = "complete" /\ r.op # "bootstrap"
    \/ view.status = "owned" /\ r.to = "complete"
    \/ r.op = "issue-acquired" /\ view.status # "idle"
    \/ r.op \in {"pr-opened", "issue-released"} /\
          (view.status # "owned" \/ r.issue \notin {None, view.issue} \/ r.owner \notin {None, view.owner})
    \/ r.op = "issue-released" /\
          ((IF r.accepted = "none" THEN view.accepted # "yes" ELSE r.accepted # "yes") \/ r.to # "idle")

(* The view after a receipt: a field left out keeps its value, but idle and *)
(* complete have neither issue nor owner.                                   *)
Follow(view, r) ==
    LET clears == r.to \in {"idle", "complete"} \/ r.op \in Closing
    IN  [status |-> r.to,
         issue |-> IF clears THEN None ELSE IF r.issue = None THEN view.issue ELSE r.issue,
         owner |-> IF clears THEN None ELSE IF r.owner = None THEN view.owner ELSE r.owner,
         accepted |-> IF r.accepted = "none" THEN view.accepted ELSE r.accepted]

(* No receipt has said yet where the program stands (previous_view is None);*)
(* the first one that does is believed, whatever it says.  An issue it does *)
(* not name as the active one is not seeded: the receipt is then refused if *)
(* its operation asks for that issue, and no different from one of None.    *)
Unseeded == [status |-> "uninitialized", issue |-> None, owner |-> None, accepted |-> "none"]
Seed(r) == [status |-> r.from, issue |-> r.issue, owner |-> r.owner, accepted |-> r.accepted]
Seeded(view, r) == IF view = Unseeded /\ r.from \in Statuses THEN Seed(r) ELSE view

Refused(view, r) ==
    \/ r.op # "bootstrap" /\ r.from = "uninitialized"
    \/ r.from # "uninitialized" /\ r.from # view.status
    \/ view # Unseeded /\ Forbidden(view, r)

(* The replay of the receipts, each from the status the one before left.    *)
ReplayOne(s, r) ==
    LET view == Seeded(s.view, r)
    IN  IF r.kind # "receipt" THEN s
        ELSE IF ~s.ok \/ Refused(view, r) THEN [s EXCEPT !.ok = FALSE]
        ELSE IF view = Unseeded THEN s
        ELSE [s EXCEPT !.view = Follow(view, r)]

Replay(log) == FoldLeft(ReplayOne, [ok |-> TRUE, view |-> Unseeded], log)

(* After a receipt that is refused, or evidence that is, nothing more is of *)
(* interest; nor is anything but a receipt said twice without a change.     *)
NextReceipts(log) == IF Replay(log).ok THEN Tried ELSE {}

-----------------------------------------------------------------------------
(* project_dependency_status, of a pair whose other side is external.       *)
Status(class, satisfied) ==
    CASE class = "unknown" -> "unresolved"
      [] class = "none"    -> "nonblocking"
      [] OTHER             -> IF satisfied THEN "satisfied" ELSE "blocking"

(* _derive_external_satisfied_ids                                           *)
External(log) == {log[i].pair : i \in {e \in At(log, "evidence") : log[e].what = "satisfied"}}
Fabricated(log) == \E i \in At(log, "evidence") : log[i].what = "bare"

(* _derive_terminal_issues_from_receipts                                    *)
Closings(log) == {r \in At(log, "receipt") : log[r].op \in Closing}
TerminalOfAny(log) == UNION {log[r].names \cup ({log[r].issue} \ {None}) : r \in At(log, "receipt")}  \* a bug: of any receipt
Terminal(log) == UNION {log[r].names \cup ({log[r].issue} \ {None}) : r \in Closings(log)}

(* projection_from_events: of a pair's events the last.                     *)
Class(log, pair) ==
    LET last == SelectLastInSeq(log, LAMBDA r : r.kind = "event" /\ r.pair = pair)
    IN  IF last = 0 THEN "absent" ELSE log[last].class

NextRecords(log) ==
    IF Replay(log).ok /\ ~Fabricated(log)
    THEN RootTried \cup {r \in Papers :
             CASE r.kind = "event"    -> Class(log, r.pair) # r.class
               [] r.kind = "evidence" -> r \notin Range(log)
               [] OTHER               -> log # <<>> /\ Last(log) # r}
    ELSE {}

(* build_dependency_projection: a row for every pair that has an event.     *)
Projection(log) ==
    {[pair |-> p, status |-> Status(Class(log, p), p \in External(log))] :
         p \in {q \in Pairs : \E i \in At(log, "event") : log[i].pair = q}}

(* What the pointer and the manifest claim, as they are written.            *)
PointerClaims(log) ==
    [last_receipt |-> LastOf(log, "receipt"), view |-> [Replay(log).view EXCEPT !.accepted = "none"]]
ManifestClaims(log) ==
    [last_receipt |-> LastOf(log, "receipt"), last_event |-> LastOf(log, "event"),
     resolved |-> Terminal(log), projection |-> Projection(log),
     pointer |-> LastOf(log, "pointer")]

(* validate_pointer                                                         *)
PointerOk(log) ==
    /\ LastOf(log, "pointer") # 0
    /\ PointerClaims(SubSeq(log, 1, LastOf(log, "pointer"))) = PointerClaims(log)
    /\ PointerClaims(log).last_receipt >= 1

(* validate_manifest_shape and the comparisons of its tips and counts: a    *)
(* manifest that names the frozen pairs needs an event for each.            *)
ManifestOk(log) ==
    LET at == LastOf(log, "manifest") IN
    /\ at # 0
    /\ ManifestClaims(SubSeq(log, 1, at)) = ManifestClaims(log)
    /\ \A p \in Pairs : Class(log, p) # "absent"

(* The permanent sink.                                                      *)
CompleteOk(log) ==
    /\ Terminal(log) = Inventory
    /\ \A row \in Projection(log) : row.status \notin {"unresolved", "blocking"}

(* validate_state_root                                                      *)
Valid(log) ==
    /\ PointerOk(log)
    /\ ManifestOk(log)
    /\ Replay(log).ok
    /\ ~Fabricated(log)
    /\ Replay(log).view.status = "complete" => CompleteOk(log)

-----------------------------------------------------------------------------
(* Work on one issue at a time, by one owner: if two receipts of the work   *)
(* name different issues or owners, the program was idle and the second was *)
(* acquired in between, unless a receipt of an unguarded kind names another *)
(* owner or issue; and no issue is released while the last that was said of *)
(* acceptance is no, or nothing was ever said of it.                        *)
Accepted(log, r) ==
    \E e \in At(log, "receipt") :
        /\ e <= r /\ log[e].accepted = "yes"
        /\ \A k \in At(log, "receipt") : e < k /\ k <= r => log[k].accepted = "none"

OneOwnerAtATime(log) ==
    LET receipts == At(log, "receipt")
        work == {i \in receipts : log[i].op \in Work}
        differs(i, j) ==
            \/ log[i].owner # log[j].owner /\ None \notin {log[i].owner, log[j].owner}
            \/ log[i].issue # log[j].issue /\ None \notin {log[i].issue, log[j].issue}
    IN  Replay(log).ok =>
        /\ \A i, j \in work : i < j /\ differs(i, j) =>
               \/ \E k, l \in receipts : /\ i <= l /\ l < k /\ k <= j
                                         /\ log[l].to = "idle"
                                         /\ log[k].op = "issue-acquired"
               \/ \E k \in receipts : i < k /\ k < j /\ log[k].op \in Unguarded /\ {log[k].owner, log[k].issue} # {None}
        /\ \A j \in receipts : log[j].op = "issue-released" => Accepted(log, j)

(* How an issue comes to be held: a receipt acquires it, or is of a kind no *)
(* rule guards, or is the first to say where the program stands.            *)
SaysFirst(log, a) ==
    log[a].from \in Statuses /\ \A b \in At(log, "receipt") : b < a => log[b].from = "uninitialized"
Enters(log, a, i) ==
    log[a].issue = i /\ (log[a].op \in {"issue-acquired"} \cup Unguarded \/ SaysFirst(log, a))

(* What is accepted as complete is: every issue of the inventory was held   *)
(* and later released under that number, the last that was said of          *)
(* acceptance being yes, unless a closing receipt merely lists it (a        *)
(* completion in any of its fields); and the last word on every pair is     *)
(* that it blocks nothing, or evidence with provenance says what it waited  *)
(* for is done.                                                             *)
CompleteIsEarned(log) ==
    Valid(log) /\ Replay(log).view.status = "complete" =>
        /\ \A i \in Inventory :
               \/ \E a, r \in At(log, "receipt") :
                      /\ a <= r /\ Enters(log, a, i)
                      /\ log[r].op = "issue-released" /\ log[r].issue = i /\ Accepted(log, r)
               \/ \E r \in Closings(log) :
                      i \in log[r].names \/ (log[r].op = "program-completed" /\ log[r].issue = i)
        /\ \A p \in Pairs : \/ Class(log, p) = "none"
                            \/ p \in External(log) /\ Class(log, p) # "unknown"

(* A transition that was cut short is refused: whatever was appended after  *)
(* the pointer or the manifest, or between the two, is in their claims or   *)
(* the root is invalid; only evidence that changes nothing may follow.      *)
HalfWrittenIsRefused(log) ==
    Valid(log) =>
        LET p == LastOf(log, "pointer")
            m == LastOf(log, "manifest")
        IN  /\ p < m
            /\ \A i \in DOMAIN log : log[i].kind = "receipt" => i < p
            /\ \A i \in DOMAIN log : log[i].kind = "event" => i < m
            /\ Projection(SubSeq(log, 1, m)) = Projection(log)
=============================================================================
