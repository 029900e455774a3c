------------------------------- MODULE Handoff -------------------------------
(* What of a session reaches the reader of a handoff: sanitize.py           *)
(* (sanitize_session) cuts the turns to the recovered-content ceilings, and *)
(* handoff.py (render_session) cuts the document to its own.  The log is    *)
(* the turns an adapter recovered; a text is its size, a line of framing    *)
(* counts 1.                                                                *)
EXTENDS Integers, Sequences, SequencesExt, FiniteSetsExt

CONSTANTS Turns,          \* normalized_turns
          Content,        \* normalized_content_bytes
          ToolOutput,     \* tool_output_chars
          Framing,        \* the fixed lines of a handoff
          Output          \* handoff_output_bytes

Records == [role : {"user", "assistant", "tool"}, size : {1, 3}] \cup {[role |-> "system", size |-> 1]}

Least(a, b) == IF a < b THEN a ELSE b
LastOf(turns, roles) == SelectLastInSeq(turns, LAMBDA t : t.role \in roles)
SizeOf(turns, roles) == LET i == LastOf(turns, roles) IN IF i = 0 THEN 0 ELSE turns[i].size

-----------------------------------------------------------------------------
(* One turn of the loop; the loop ends once the ceiling is reached.         *)
TakeTurn(s, t) ==
    IF s.total >= Content \/ t.role = "system" THEN s
    ELSE LET cleaned == IF t.role = "tool" THEN Least(t.size, ToolOutput) ELSE t.size
             kept == Least(cleaned, Content - s.total)
         IN  [s EXCEPT !.total = @ + kept, !.warned = @ \/ kept < t.size,
                       !.turns = Append(@, [role |-> t.role, size |-> kept, truncated |-> kept < t.size])]

(* sanitize_session: the two latest texts count against the same ceiling    *)
(* before the first turn does.                                              *)
SanitizeSession(turns) ==
    LET user == Least(SizeOf(turns, {"user"}), Content)
        assistant == Least(SizeOf(turns, {"assistant"}), Content - user)
        s == FoldLeft(TakeTurn, [total |-> user + assistant, turns |-> <<>>, warned |-> FALSE],
                      SubSeq(turns, 1, Least(Turns, Len(turns))))
    IN  [user |-> user, assistant |-> assistant, turns |-> s.turns,
         warned |-> \/ s.warned \/ Len(turns) > Len(s.turns)
                    \/ user + assistant < SizeOf(turns, {"user"}) + SizeOf(turns, {"assistant"})]

-----------------------------------------------------------------------------
Quote(size) == IF size = 0 THEN 1 ELSE size           \* or "(not persisted)"
Block(turn) == 1 + Quote(turn.size) + (IF turn.truncated THEN 1 ELSE 0)
AddBlock(n, turn) == n + 1 + Block(turn)
Cost(turns) == FoldLeft(AddBlock, 0, turns)
Newest(turns, n) == SubSeq(turns, Len(turns) - n + 1, Len(turns))
LatestRecordedAction(turns) == LastOf(turns, {"assistant", "tool"})
Action(turns) ==
    LET i == LatestRecordedAction(turns) IN IF i = 0 THEN 1 ELSE Block(turns[i])

Line(shown) == IF shown THEN 1 ELSE 0

(* _assemble: the three prominent texts of the size given, the newest n     *)
(* turns, and the notices; warned: the document says W_TRUNCATED.           *)
Assemble(session, n, texts, cut) ==
    LET kept == Newest(session.turns, n)
        dropped == n < Len(session.turns)
        i == LatestRecordedAction(session.turns)
        body == cut \/ (\E t \in Range(kept) : t.truncated) \/ (i # 0 /\ session.turns[i].truncated)
        warned == session.warned \/ dropped \/ body
    IN  [turns |-> kept, warned |-> warned, whole |-> ~cut,
         size |-> Framing + Line(warned) + 2 * Line(dropped) + Line(body) + texts + Cost(kept)]

(* The three texts whole: the latest request, the latest result, the action.*)
Texts(session) == <<Quote(session.user), Quote(session.assistant), Action(session.turns)>>
Whole(session, n, texts) == Assemble(session, n, texts[1] + texts[2] + texts[3], FALSE)

Fits(document) == document.size <= Output

(* The binary search for how many of all turns fit, fits[n] saying whether  *)
(* n do; best is 0 when not even none does.  Its loop ends in all + 1 turns.*)
Halve(s, turn) ==
    LET mid == (s.lo + s.hi) \div 2
    IN  IF s.lo > s.hi THEN s
        ELSE IF s.fits[mid] THEN [s EXCEPT !.best = mid, !.lo = mid + 1]
        ELSE [s EXCEPT !.hi = mid - 1]

NewestThatFit(fits, all) ==
    FoldLeft(Halve, [fits |-> fits, lo |-> 0, hi |-> all, best |-> 0], [turn \in 1 .. all + 1 |-> turn]).best

(* What fits of a text, or one line that says it was cut.                   *)
Quoted(cost, budget) == Max({1, Least(cost, budget)})

(* The same of the action: its label, what fits of its text, and the mark   *)
(* if there is room for it take all of the budget, or the one line.         *)
BlockQuoted(cost, budget) == IF cost <= budget THEN cost ELSE Max({1, budget})

(* Every turn, the newest that fit, no turn and as much of the texts as     *)
(* fits, no turn and a line for each text: the first of these that fits.    *)
RenderSession(session) ==
    LET all == Len(session.turns)
        texts == Texts(session)
        whole == [n \in 0 .. all |-> Whole(session, n, texts)]
        structure == Assemble(session, 0, 0, TRUE)
        holding(size) == [structure EXCEPT !.size = @ + size]
        left == Output - structure.size
        user == Quoted(texts[1], left \div 3)
        assistant == Quoted(texts[2], (left - user) \div 2)
        action == BlockQuoted(texts[3], left - user - assistant)
        tries == <<whole[all], whole[NewestThatFit([n \in 0 .. all |-> Fits(whole[n])], all)],
                   holding(user + assistant + action), holding(2 + Least(2, texts[3]))>>
        first == SelectInSeq(tries, Fits)
    IN  IF first = 0 THEN [size |-> 0, turns |-> <<>>, warned |-> TRUE, whole |-> FALSE] ELSE tries[first]

-----------------------------------------------------------------------------
(* A handoff that does not say W_TRUNCATED shows every turn, each of them   *)
(* whole, whichever of the two modules would have cut it.                   *)
NothingCutSilently(log, document) ==
    ~document.warned =>
        document.whole /\ [i \in DOMAIN document.turns |-> [role |-> document.turns[i].role,
                                                           size |-> document.turns[i].size]] = log

(* Whenever the prominent texts fit, the document holds as many of the      *)
(* sanitised turns as its ceiling admits, and they are the newest; no       *)
(* document passes it.                                                      *)
NewestTurnsKept(session, document) ==
    /\ Fits(document)
    /\ document.whole =>
          LET n == Len(document.turns)
          IN  /\ document.turns = Newest(session.turns, n)
              /\ \A more \in n + 1 .. Len(session.turns) : ~Fits(Whole(session, more, Texts(session)))

(* Both, of the handoff the whole way from the log gives.                   *)
HandoffIsHonest(log) ==
    LET session == SanitizeSession(log)
        document == RenderSession(session)
    IN  NothingCutSilently(log, document) /\ NewestTurnsKept(session, document)
=============================================================================
