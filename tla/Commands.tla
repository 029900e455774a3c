------------------------------ MODULE Commands ------------------------------
(* What the commands and the project's own scripts do, one thing at a time, *)
(* and what must hold of it after any number of steps: the reader's pages   *)
(* and its choice of a session, the sweeps over every source, the budget    *)
(* they share, the handoff they end in, the Windows installer, the scripts  *)
(* that judge evidence and the program's state.  Each has a module of its   *)
(* own; this one feeds it.                                                  *)
EXTENDS Integers, Sequences, FiniteSets, SequencesExt,
        WindowsInstall      \* keeps its names, for the proofs about it

CONSTANTS SessionIds,
          Sources, Issues, Inventory, Owners, Pairs,
          Tried, RootTried,
          Cap,            \* sessions and rows at most
          Turns, Content, ToolOutput, Framing, Output,  \* the ceilings of a handoff
          MaxRead, MaxSweep, MaxCharge, MaxTurns,       \* bounds: steps of each
          MaxReceipts, MaxProgram, MaxOutput, MaxFacts, \* command
          MaxInstalls

VARIABLES command,        \* what is done
          log             \* its steps, oldest first

vars == <<command, log>>

MaxSteps ==
    [read |-> MaxRead, sweep |-> MaxSweep, charge |-> MaxCharge, handoff |-> MaxTurns,
     receipts |-> MaxReceipts, program |-> MaxProgram, activation |-> MaxOutput,
     evidence |-> MaxFacts, windows |-> MaxInstalls]

-----------------------------------------------------------------------------
Read     == INSTANCE Reader WITH Window <- Cap + 1, Limit <- Cap
Sweeps   == INSTANCE Sweep WITH SourceKeys <- Sources, Candidates <- Cap, PerSource <- Cap
Charges  == INSTANCE Budget WITH Readers <- Sources, Limit <- Cap
Hand     == INSTANCE Handoff
Program  == INSTANCE ProgramState
Evidence == INSTANCE NativeEvidence

(* Ids are numbered from 1, for their order; 0 names no session and no      *)
(* issue.  A page has a row at least, as the reader demands of --limit.     *)
ASSUME IdAssumption == SessionIds \subseteq Nat \ {0} /\ IsFiniteSet(SessionIds) /\ IsFiniteSet(Sources) /\ 0 \notin Inventory
ASSUME ReceiptAssumption == Tried \cup RootTried \subseteq Program!Receipts
ASSUME CeilingAssumption == Cap \in Nat \ {0} /\ {Turns, Content, ToolOutput, Framing, Output} \subseteq Nat

(* The receipts the runs try.  For logs of receipts: the work, by two       *)
(* owners, with fields left out; what no rule guards, with the names that   *)
(* matter; the start of a program and its end.  For state roots: an issue   *)
(* that is acquired, or resumed, and released; a list of issues that no     *)
(* other receipt names, and a way out of the work without a release.        *)
SomeReceipts ==
    LET R(op, froms, tos, issues, owners, accepted) ==
            {Program!Receipt(op, from, to, i, o, a, {}) :
                 from \in froms, to \in tos, i \in issues, o \in owners, a \in accepted}
    IN  R("issue-acquired", {"idle", "owned"}, {"owned"}, Issues, Owners, {"none", "no"})
            \cup R("pr-opened", {"owned"}, {"owned"}, Issues \cup {0}, Owners \cup {0}, {"none", "yes"})
            \cup R("pr-opened", {"owned"}, {"idle"}, {0}, {0}, {"none"})
            \cup R("issue-released", {"owned"}, {"idle"}, Issues \cup {0}, {0}, {"none", "yes", "no"})
            \cup R("issue-released", {"owned"}, {"idle"}, {0}, Owners, {"yes"})
            \cup R("program-blocked", {"idle", "owned"}, {"blocked"}, {0}, {0}, {"none"})
            \cup R("program-resumed", {"blocked"}, {"idle", "owned"}, {0}, {0}, {"none"})
            \cup R("dependency-updated", {"owned"}, {"owned"}, Issues, {0}, {"none"})
            \cup R("dependency-updated", {"owned"}, {"owned"}, {0}, Owners, {"none"})
            \cup R("program-completed", {"idle"}, {"complete"}, {0}, {0}, {"none"})
            \cup R("bootstrap", {"uninitialized", "complete"}, {"idle"}, {0}, {0}, {"none"})

SomeRootReceipts ==
    LET owner == CHOOSE o \in Owners : TRUE
    IN  {Program!Receipt("issue-acquired", "idle", "owned", i, owner, "no", {}) : i \in Inventory}
            \cup {Program!Receipt("program-resumed", "idle", "owned", i, owner, "none", {}) : i \in Inventory}
            \cup {Program!Receipt("issue-released", "owned", "idle", i, 0, "yes", {}) : i \in Inventory}
            \cup {Program!Receipt("program-resumed", "owned", "idle", 0, 0, "none", {})}
            \cup {Program!Receipt("program-completed", "idle", "complete", 0, 0, "none", n) : n \in {{}, Inventory}}

Steps ==
    CASE command = "read" -> Read!NextRecords(log)
      [] command = "sweep" -> Sweeps!Records
      [] command = "charge" -> Charges!NextRecords(log)
      [] command = "handoff" -> Hand!Records
      [] command = "receipts" -> Program!NextReceipts(log)
      [] command = "program" -> Program!NextRecords(log)
      [] command = "activation" -> Evidence!Lines
      [] command = "evidence" -> Evidence!Facts
      [] command = "windows" -> NextRecords(log)

Init == command \in DOMAIN MaxSteps /\ log = <<>>
Next == /\ Len(log) < MaxSteps[command]
        /\ \E r \in Steps : log' = Append(log, r)
        /\ UNCHANGED command
Spec == Init /\ [][Next]_vars

-----------------------------------------------------------------------------
(* What is answered is complete, or says that it is not: whoever pages to   *)
(* the end has seen all that stood still, newest first (of pages of more    *)
(* than one row, none goes back, but for the row the page before ended      *)
(* with, and they end), show selects what list prints, a source that fails  *)
(* costs its own sessions, charges made at once are each counted once, and  *)
(* of the turns it is given a handoff keeps the newest and marks every cut. *)
AnswersAreComplete ==
    /\ command = "read" => Read!PagesCover(log) /\ Read!ShowSelectsListed(log)
    /\ command = "sweep" => Sweeps!FailuresAreIsolated(log) /\ Sweeps!SearchFindsAll(log)
    /\ command = "charge" => Charges!EveryChargeOnce(log)
    /\ command = "handoff" => Hand!HandoffIsHonest(log)

(* What is claimed is earned, as far as the validator asks: two receipts of *)
(* the work name one issue and one owner, or between them the program was   *)
(* idle or an unguarded receipt said otherwise; a program is complete when  *)
(* nothing blocks and each issue was held (acquired, named by an unguarded  *)
(* receipt, or by the first that says where the program stands, which is    *)
(* believed) and released as accepted, or is listed by a closing receipt; a *)
(* transition cut short is refused, a handoff quoted in another one proves  *)
(* nothing, and what a host lacks is not recorded as its failure.           *)
ClaimsAreEarned ==
    /\ command = "receipts" => Program!OneOwnerAtATime(log)
    /\ command = "program" => Program!CompleteIsEarned(log) /\ Program!HalfWrittenIsRefused(log)
    /\ command = "activation" => Evidence!ProofIsBound(log)
    /\ command = "evidence" => Evidence!FailureIsNoPrerequisite(log)

(* The installer on Windows: an install that dies or fails was done, or is  *)
(* undone by recover, a completed one is one that verify accepts, and on    *)
(* the way a user's file is not removed and no file left without an owner.  *)
WindowsRootIsSafe ==
    command = "windows" =>
        /\ InstallIsAllOrNothing(log)
        /\ UserFileIsNotRemoved(log)
        /\ NothingLeftOwnerless(log)
        /\ InstallRepairs(log)
=============================================================================
