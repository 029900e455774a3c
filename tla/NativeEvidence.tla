----------------------------- MODULE NativeEvidence -----------------------------
(* scripts/native_evidence.py: what may be recorded as evidence that a host *)
(* has run the owned reader on the synthetic session.  The host's output is *)
(* free text, and the history that a handoff quotes may itself look like a  *)
(* handoff.  The log is the output, line by line, or what went wrong.       *)
EXTENDS Integers, Sequences, FiniteSets, SequencesExt

(* A line's depth is that of its quote marks.  A handoff or a no-match      *)
(* starts with a heading; identity names the expected source and session;   *)
(* section is the heading of recovered content, text the expected content.  *)
(* An envelope is a closed JSON object, of which a field may be wrong.      *)
Lines ==
    [kind : {"handoff", "identity", "section", "text"}, depth : {0, 1}]
        \cup [kind : {"no_match"}, depth : {0}]
        \cup [kind : {"envelope"}, depth : {0}, lacks : {"nothing", "identity", "content"}]

(* What may go wrong around the host; output is that of a handoff, whole.   *)
Facts == [kind : {"no_binary", "no_version", "no_fixture", "wrong_package", "timeout", "unsupported",
                  "exit", "login", "refusal", "output", "disabled"}]

Handoff == <<[kind |-> "handoff", depth |-> 0], [kind |-> "identity", depth |-> 0],
             [kind |-> "section", depth |-> 0], [kind |-> "text", depth |-> 1]>>

Happened(log, kinds) == \E r \in Range(log) : r.kind \in kinds
At(log, kinds) == {i \in DOMAIN log : log[i].kind \in kinds}
Heads(log) == At(log, {"handoff", "no_match"})

-----------------------------------------------------------------------------
(* _split_handoff_blocks: a heading deeper than the block it is in is text  *)
(* of that block; so none starts a block after one further out.             *)
Starts(log) == {i \in Heads(log) : \A o \in Heads(log) : o < i => log[i].depth <= log[o].depth}

Block(log, start) ==
    LET later == {i \in Starts(log) : i > start}
    IN  SubSeq(log, start, IF later = {} THEN Len(log) ELSE (CHOOSE i \in later : \A o \in later : i <= o) - 1)

(* _identity_header_text: the block's own lines before its first section.   *)
Identified(block) ==
    \E i \in At(block, {"identity"}) :
        /\ block[i].depth = block[1].depth
        /\ \A s \in At(block, {"section"}) : block[s].depth = block[1].depth => i < s
        /\ \A h \in Heads(block) : h \in 2 .. i => block[h].depth # block[1].depth

(* _extract_markdown_recovered_content: the lines after a section's heading *)
(* at the depth of the outermost heading, until the next such heading.      *)
Recovered(block) ==
    LET headings == At(block, {"handoff", "no_match", "section"})
        structural == block[CHOOSE i \in headings : \A o \in headings : block[i].depth <= block[o].depth].depth
        own == {i \in headings : block[i].depth = structural}
    IN  {t \in At(block, {"text"}) :
            \E s \in own : /\ s < t /\ block[s].kind = "section" /\ block[t].depth >= structural
                           /\ \A o \in own : o < t => o <= s}

(* Trace C: a block is looked at if it is no refusal to match and has a     *)
(* heading of recovered content at its depth.                               *)
HandoffBlocks(log) ==
    {b \in {Block(log, s) : s \in Starts(log)} :
        /\ ~Happened(b, {"no_match"})
        /\ \E i \in At(b, {"section"}) : b[i].depth = b[1].depth}

(* Trace B: every envelope in the output, wherever it is nested.            *)
Envelopes(log) == {log[i] : i \in At(log, {"envelope"})}

Observed(log) == Envelopes(log) # {} \/ HandoffBlocks(log) # {}

(* All three from one session object, or from one handoff.                  *)
FixtureRead(log) ==
    \/ \E e \in Envelopes(log) : e.lacks = "nothing"
    \/ \E b \in HandoffBlocks(log) : Identified(b) /\ Recovered(b) # {}

(* evaluate_explicit_activation                                             *)
Evaluate(log, out) ==
    IF Happened(log, {"login"}) THEN "auth_required"
    ELSE IF Happened(log, {"exit"}) THEN "exit_code"
    ELSE IF out = <<>> THEN "empty_output"
    ELSE IF ~Observed(out) THEN IF Happened(log, {"refusal"}) THEN "refusal" ELSE "not_observed"
    ELSE IF ~FixtureRead(out) THEN "fixture_verification_failed"
    ELSE "passed"

-----------------------------------------------------------------------------
Printed(log) == IF Happened(log, {"output"}) THEN Handoff ELSE <<>>

(* The activation command, run and judged.                                  *)
Activate(log) ==
    IF Happened(log, {"timeout", "unsupported"}) \/ Evaluate(log, Printed(log)) = "auth_required" THEN "not-run"
    ELSE IF Evaluate(log, Printed(log)) = "passed" THEN "current"
    ELSE "failed"

(* collect_explicit_activation_evidence: what the host lacks is not run,    *)
(* what it does wrong has failed.                                           *)
CollectActivation(log) ==
    IF Happened(log, {"no_binary", "no_version", "no_fixture"}) THEN "not-run"
    ELSE IF Happened(log, {"wrong_package"}) THEN "failed"
    ELSE Activate(log)

(* _direct_native_discovery: the expected name in the listing, enabled.     *)
Discovered(log) == Happened(log, {"output"}) /\ ~Happened(log, {"disabled"})

(* The discovery command; the package is checked once it was seen.          *)
Discover(log) ==
    IF Happened(log, {"timeout", "unsupported", "login"}) THEN "not-run"
    ELSE IF Happened(log, {"exit"}) THEN "failed"
    ELSE IF ~Discovered(log) THEN "not-run"
    ELSE IF Happened(log, {"wrong_package"}) THEN "failed"
    ELSE "current"

(* collect_local_discovery_evidence                                         *)
CollectDiscovery(log) == IF Happened(log, {"no_binary", "no_version"}) THEN "not-run" ELSE Discover(log)

-----------------------------------------------------------------------------
(* An activation passes only on the expected source, session and content    *)
(* together: of one envelope, or of one handoff, its own identity and its   *)
(* own recovered text (or a section further out that follows it).  Neither  *)
(* two outputs that lack each something nor a handoff that is quoted in the *)
(* recovered text of another one pass.                                      *)
ProofIsBound(log) ==
    Evaluate(<<>>, log) = "passed" =>
        \/ \E r \in Range(log) : r.kind = "envelope" /\ r.lacks = "nothing"
        \/ \E h, i, s, t \in DOMAIN log :
               /\ h < i /\ h < s /\ s < t
               /\ log[h].kind = "handoff" /\ log[i].kind = "identity"
               /\ log[s].kind = "section" /\ log[t].kind = "text"
               /\ log[i].depth = log[h].depth /\ log[s].depth <= log[h].depth
               /\ \A o \in h + 1 .. t : log[o].kind \in {"handoff", "no_match"} => log[o].depth > log[h].depth
               /\ \A o \in 1 .. h : log[o].kind \in {"handoff", "no_match"} => log[o].depth >= log[h].depth

(* A host that lacks a prerequisite is recorded as not run and never as     *)
(* failed, and evidence is current only if nothing went wrong: so failed    *)
(* always says something of the package or of what the host made of it.     *)
FailureIsNoPrerequisite(log) ==
    LET prerequisites == {"no_binary", "no_version", "timeout", "unsupported", "login"} IN
    /\ CollectActivation(log) = "failed" =>
           ~Happened(log, prerequisites) \/ Happened(log, {"wrong_package"})
    /\ CollectDiscovery(log) = "failed" => ~Happened(log, prerequisites)
    /\ "current" \in {CollectActivation(log), CollectDiscovery(log)} =>
           Happened(log, {"output"}) /\ ~Happened(log, prerequisites \cup {"wrong_package", "exit"})
=============================================================================
