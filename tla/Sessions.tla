------------------------------ MODULE Sessions ------------------------------
(* What the session adapters make of what agents leave on disk: a store is  *)
(* taken at random and written one line, row or file at a time, and after   *)
(* each what the adapter would list and show is compared with what was      *)
(* written.  Each adapter has a module of its own; this one feeds it.       *)
EXTENDS Integers, Sequences, SequencesExt

CONSTANTS SessionIds, Ids,
          Foreign,        \* sessions that are not of the queried directory's kind
          Cap,            \* rows a store may give at most
          MaxLines        \* store |-> how much is written to it

VARIABLES store,          \* whose store it is, and which part of it
          log             \* what was written, oldest first

vars == <<store, log>>

-----------------------------------------------------------------------------
Codex       == INSTANCE CodexRollout WITH HeadRecords <- Cap
Claude      == INSTANCE ClaudeTranscript
Gemini      == INSTANCE GeminiChat WITH MessageIds <- Ids
Qwen        == INSTANCE QwenChat
Kimi        == INSTANCE KimiStore WITH SessionIds <- SessionIds \ Foreign
Pi          == INSTANCE PiSession
Copilot     == INSTANCE CopilotEvents
OpenClaw    == INSTANCE OpenClawBranch
Grok        == INSTANCE GrokUpdates WITH MaxTurns <- Cap, MaxPieces <- Cap
CodexHome   == INSTANCE CodexStore WITH Listed <- Cap, WalkCap <- Cap, NameCap <- Cap
ClaudeHome  == INSTANCE ClaudeStore WITH SessionIds <- SessionIds \ Foreign, Window <- 1
OpenCode    == INSTANCE OpenCodeStore WITH SessionIds <- SessionIds \ Foreign
Antigravity == INSTANCE AntigravityBrain WITH SessionIds <- SessionIds \ Foreign, HistoryLines <- Cap
Sql         == INSTANCE SqlSessions WITH Elsewhere <- Foreign, Scanned <- Cap, Listed <- Cap
Cline       == INSTANCE ClineStore WITH SessionIds <- SessionIds \ Foreign, Listed <- 1
Cursor      == INSTANCE CursorStores WITH SessionIds <- SessionIds \ Foreign, DesktopCap <- 1, RowCap <- Cap, TurnCap <- 3
OpenHands   == INSTANCE OpenHandsEvents WITH Window <- Cap, TitleWindow <- 1, Listed <- Cap

Writes ==
    CASE store = "codex" -> Codex!Records
      [] store = "codex_home" -> CodexHome!Records
      [] store = "claude" -> Claude!NextRecords(log)
      [] store = "claude_tools" -> Claude!ItemRecords
      [] store = "claude_home" -> ClaudeHome!Records
      [] store = "gemini" -> Gemini!Records
      [] store = "qwen" -> Qwen!NextRecords(log)
      [] store = "kimi" -> Kimi!WireRecords
      [] store = "kimi_index" -> Kimi!Records
      [] store = "pi" -> Pi!NextRecords(log)
      [] store = "copilot" -> Copilot!NextRecords(log)
      [] store = "openclaw" -> OpenClaw!NextRecords(log)
      [] store = "grok" -> Grok!Records
      [] store = "opencode" -> OpenCode!Records
      [] store = "opencode_parts" -> OpenCode!PartRecords
      [] store = "antigravity" -> Antigravity!Records
      [] store = "antigravity_turns" -> Antigravity!TurnRecords
      [] store = "cline" -> Cline!Records
      [] store = "cursor" -> Cursor!Records
      [] store = "cursor_chat" -> Cursor!TranscriptRecords
      [] store = "cursor_bubbles" -> Cursor!BubbleRecords
      [] store = "openhands" -> OpenHands!Records
      [] store = "openhands_show" -> OpenHands!NextReadRecords(log)
      [] store \in {"crush", "goose", "hermes"} -> Sql!Records(store)

(* A last line that is only half there is written to its end; otherwise a   *)
(* further line follows.                                                    *)
Torn == log # <<>> /\ "kind" \in DOMAIN Last(log) /\ Last(log).kind = "torn"
More == Len(log) < MaxLines[store]

WriteNext(r) == More /\ ~Torn /\ log' = Append(log, r)
FinishLine(r) == More /\ Torn /\ log' = Append(Front(log), r)

Init == store \in DOMAIN MaxLines /\ log = <<>>
Next == (\E r \in Writes : WriteNext(r) \/ FinishLine(r)) /\ UNCHANGED store
Spec == Init /\ [][Next]_vars

-----------------------------------------------------------------------------
(* The conversation shown is the one that its last entry continues: a fork, *)
(* a rewind or a sub-agent's entry in between neither loses a turn of it    *)
(* nor brings back one of a branch that was left, and what was rolled back  *)
(* or replaced by a checkpoint is gone.                                     *)
ShownBranchIsLive ==
    /\ store = "codex" => Codex!RollbackUndoes(log)
    /\ store = "claude" => Claude!BranchFollowsTip(log)
    /\ store = "gemini" => Gemini!RewindRestores(log)
    /\ store = "qwen" => Qwen!ReplyFollowsParent(log)
    /\ store = "pi" => Pi!BranchFollowsTip(log)
    /\ store = "copilot" => Copilot!BranchFollowsTip(log)
    /\ store = "openclaw" => OpenClaw!BranchFollowsTip(log)
    /\ store = "grok" => Grok!ResumesFromCheckpoint(log)

(* Each message is shown once, whole, in its place and as it is now, though *)
(* agents write it in pieces, again, to two files or in two places of one;  *)
(* of Gemini's, which a dump may repeat, as often as it was dumped and once *)
(* more.  That a session of two stores is one session is not claimed here:  *)
(* OpenCode's is listed from each of them, and its id is then ambiguous.    *)
ShownIsFaithful ==
    /\ store = "claude" => Claude!ReplayIsIdle(log)
    /\ store = "claude_tools" => Claude!EveryCallOnce(log)
    /\ store = "gemini" => Gemini!ShownOnceInPlace(log)
    /\ store = "qwen" => Qwen!FragmentIsIdle(log)
    /\ store = "kimi" => Kimi!PartsAreJoined(log)
    /\ store = "opencode_parts" => OpenCode!SameFromEither(log)
    /\ store = "antigravity_turns" => Antigravity!ConversationInOrder(log)
    /\ store = "cursor_bubbles" => Cursor!BubblesOnce(log)
    /\ store = "openhands_show" => OpenHands!ShownIsCurrent(log)

(* Nothing is left out in silence: of a transcript a ceiling cuts the       *)
(* oldest and what it cuts is marked, what is damaged costs itself and no   *)
(* other session, and a store that cannot be read hides none of another.    *)
(* For an empty one it is taken where the code says nothing of it: Cursor's *)
(* live desktop when busy (or crowded out by other directories' sessions),  *)
(* and OpenCode's unreadable database beside one that can be read, of which *)
(* only its probe tells.  A desktop conversation cut at its ceiling, which  *)
(* is not marked either, is in ShownIsFaithful.                             *)
NothingIsHidden ==
    /\ store = "codex" => Codex!TailIsSuffix(log)
    /\ store = "claude" => Claude!TailIsSuffix(log)
    /\ store = "claude_home" => ClaudeHome!DamageIsIsolated(log)
    /\ store = "grok" => Grok!NothingCutSilently(log)
    /\ store = "opencode" => OpenCode!EmptyMeansNone(log)
    /\ store = "cursor" => Cursor!OwnIsListed(log)
    /\ store = "cursor_chat" => Cursor!ShownOrWarned(log)
    /\ store = "openhands" => OpenHands!DamageIsIsolated(log)

(* An id finds its session, whatever the index lags behind, the list leaves *)
(* out or another directory holds under the same name: of the stores that   *)
(* look up an id apart from the list.  Cursor's is in ListIsTrue, OpenCode  *)
(* and Copilot are not covered.                                             *)
ExactIdIsFound ==
    /\ store = "codex_home" => CodexHome!ExactIdIsSettled(log)
    /\ store = "claude_home" => ClaudeHome!ExactIdIsFound(log)
    /\ store = "kimi_index" => Kimi!ExactFindsListed(log)
    /\ store = "antigravity" => Antigravity!ExactIdIsFound(log)
    /\ store \in {"crush", "goose", "hermes"} => Sql!ExactFindsHidden(store, log)
    /\ store = "cline" => Cline!ExactIdIsFound(log)

(* A list tells the truth: what it offers can be shown, or it is known why  *)
(* not (of Copilot: every request is on a branch that was left), its newest *)
(* session is the newest with a user's text, a deleted one does not come    *)
(* back, of Cursor's stores of one session it takes the transcript, and     *)
(* unless it says so Codex's is complete.                                   *)
ListIsTrue ==
    /\ store = "codex" => Codex!ListedIsShown(log)
    /\ store = "codex_home" => CodexHome!CompleteListIsExact(log)
    /\ store = "gemini" => Gemini!ListedIsShown(log)
    /\ store = "kimi_index" => Kimi!DeletedStaysDeleted(log)
    /\ store = "copilot" => Copilot!ListedIsShown(log)
    /\ store \in {"crush", "goose", "hermes"} => Sql!LatestIsNewest(store, log)
    /\ store = "cline" => Cline!ListedIsShown(log)
    /\ store = "cursor" => Cursor!TranscriptIsPreferred(log)

-----------------------------------------------------------------------------
(* The instance for TLC: the length of each store's log is the shortest at  *)
(* which the cases its properties tell apart occur.                         *)
Lines ==
    [codex |-> 4, codex_home |-> 4, claude |-> 5, claude_tools |-> 5, claude_home |-> 4,
     gemini |-> 3, qwen |-> 5, kimi |-> 5, kimi_index |-> 4, pi |-> 4, copilot |-> 4, openclaw |-> 4,
     grok |-> 4, opencode |-> 4, opencode_parts |-> 4, antigravity |-> 4,
     antigravity_turns |-> 4, crush |-> 4, goose |-> 4, hermes |-> 4, cline |-> 3, cursor |-> 3,
     cursor_chat |-> 4, cursor_bubbles |-> 4, openhands |-> 4, openhands_show |-> 6]
=============================================================================
