----------------------------- MODULE CommandProofs ----------------------------
(* That answers are complete and claims are earned, for logs of any length  *)
(* and any values of the constants.  What a command makes of its log is     *)
(* mostly a fold; FoldLemmas says what one more record does to it.          *)
(* In order: the budget, native evidence, receipts, the state root and the  *)
(* first theorem; the sweeps, the handoff, the reader and the second one;   *)
(* the installer on Windows, of which WindowsProofs has the rest.           *)
EXTENDS Commands, WindowsProofs, SequenceTheorems, FiniteSetTheorems, WellFoundedInduction, TLAPS

CallFold == INSTANCE FoldLemmas WITH Op <- Charges!Call

Counters == [Charges!Fields -> Int]

(* A budget as it should be: what is used was admitted, within limits, and  *)
(* a copy differs from its base by what it was charged.                     *)
Budgets == [used : Counters, base : [Sources -> Counters], copy : [Sources -> Counters],
            open : SUBSET Sources, worth : [Sources -> Counters], admitted : Counters]
Balanced(s) == \A r \in Sources : s.copy[r] = Charges!Plus(s.base[r], s.worth[r])
BudgetInv(s) ==
    /\ s \in Budgets
    /\ s.used = s.admitted
    /\ Balanced(s)
    /\ Charges!Within(s.used)

(* What the log of a budget consists of, for any amounts.                   *)
Calls ==
    [kind : {"consume"}, field : Charges!Fields, amount : Nat]
        \cup [kind : {"fork", "commit"}, reader : Sources]
        \cup [kind : {"charge"}, reader : Sources, charge : Counters]

(* After is a fold of Call over the log.                                    *)
LEMMA AfterIsFold == \A l : Charges!After(l) = CallFold!Fold(Charges!Fresh, l)
BY DEF Charges!After, CallFold!Fold, CallFold!Unfolds, Charges!FoldLeft, Charges!MapThenFoldSet, Charges!Max, CallFold!Max

LEMMA AfterAppend ==
    ASSUME NEW l \in Seq(Calls), NEW r \in Calls
    PROVE  Charges!After(Append(l, r)) = Charges!Call(Charges!After(l), r)
BY CallFold!FoldAppend, AfterIsFold

LEMMA AfterEmpty == Charges!After(<<>>) = Charges!Fresh
BY CallFold!FoldEmpty, AfterIsFold

(* No call makes a budget what it should not be.                            *)
LEMMA CallKeeps ==
    ASSUME NEW s, BudgetInv(s), NEW r \in Calls
    PROVE  BudgetInv(Charges!Call(s, r))
<1>0. s \in Budgets /\ s.used = s.admitted /\ Balanced(s) /\ Charges!Within(s.used)
  BY DEF BudgetInv
<1>z. Charges!Zero \in Counters /\ \A c \in Counters : Charges!Plus(c, Charges!Zero) = c
  BY DEF Charges!Zero, Charges!Plus, Counters
<1>p. \A a, b \in Counters : Charges!Plus(a, b) \in Counters /\ Charges!Minus(a, b) \in Counters
  BY DEF Charges!Plus, Charges!Minus, Counters
<1>1. CASE r.kind = "consume"
  <2>1. PICK t : t = Charges!Call(s, r)
    OBVIOUS
  <2>2. PICK next : next = [s.used EXCEPT ![r.field] = @ + r.amount]
    OBVIOUS
  <2>3. r.field \in Charges!Fields /\ r.amount \in Nat
    BY <1>1 DEF Calls
  <2>4. next \in Counters /\ next = [s.admitted EXCEPT ![r.field] = @ + r.amount]
    BY <1>0, <2>2, <2>3 DEF Counters, Budgets
  <2>5. t = IF Charges!Within(next) THEN [s EXCEPT !.used = next, !.admitted = next] ELSE s
    BY <1>0, <1>1, <2>1, <2>2, <2>4 DEF Charges!Call, Charges!Consume, Budgets
  <2>6. CASE Charges!Within(next)
    <3>1. t = [s EXCEPT !.used = next, !.admitted = next]
      BY <2>5, <2>6
    <3>2. t \in Budgets /\ t.used = next /\ t.admitted = next /\ t.copy = s.copy /\ t.base = s.base /\ t.worth = s.worth
      BY <1>0, <2>4, <3>1, ZenonT(60) DEF Budgets
    <3> QED
      BY <1>0, <2>1, <2>6, <3>2 DEF BudgetInv, Balanced
  <2> QED
    BY <2>1, <2>5, <2>6
<1>2. CASE r.kind = "fork"
  <2>1. PICK t : t = Charges!Call(s, r)
    OBVIOUS
  <2>2. r.reader \in Sources
    BY <1>2 DEF Calls
  <2>3. /\ t = [s EXCEPT !.base = [@ EXCEPT ![r.reader] = s.used], !.copy = [@ EXCEPT ![r.reader] = s.used],
                         !.open = @ \cup {r.reader}, !.worth = [@ EXCEPT ![r.reader] = Charges!Zero]]
        /\ s.used \in Counters
    BY <1>0, <1>2, <2>1 DEF Charges!Call, Charges!Fork, Budgets
  <2>4. t \in Budgets /\ t.used = s.used /\ t.admitted = s.admitted
    BY <1>0, <1>z, <2>2, <2>3 DEF Budgets
  <2>5. ASSUME NEW q \in Sources
        PROVE  t.copy[q] = Charges!Plus(t.base[q], t.worth[q])
    <3>1. CASE q = r.reader
      <4>1. t.copy[q] = s.used /\ t.base[q] = s.used /\ t.worth[q] = Charges!Zero
        BY <1>0, <2>3, <3>1 DEF Budgets
      <4> QED
        BY <1>z, <2>3, <4>1
    <3>2. CASE q # r.reader
      <4>1. t.copy[q] = s.copy[q] /\ t.base[q] = s.base[q] /\ t.worth[q] = s.worth[q]
        BY <1>0, <2>3, <3>2 DEF Budgets
      <4> QED
        BY <1>0, <4>1 DEF Balanced
    <3> QED
      BY <3>1, <3>2
  <2> QED
    BY <1>0, <2>1, <2>4, <2>5 DEF BudgetInv, Balanced
<1>3. CASE r.kind = "charge"
  <2>1. PICK next : next = Charges!Plus(s.copy[r.reader], r.charge)
    OBVIOUS
  <2>2. PICK sum : sum = Charges!Plus(s.worth[r.reader], r.charge)
    OBVIOUS
  <2>3. r.reader \in Sources /\ r.charge \in Counters
    BY <1>3 DEF Calls
  <2>4. next \in Counters /\ sum \in Counters
    BY <1>0, <1>p, <2>1, <2>2, <2>3 DEF Budgets
  <2>5. PICK t : t = [s EXCEPT !.copy = [@ EXCEPT ![r.reader] = next], !.worth = [@ EXCEPT ![r.reader] = sum]]
    OBVIOUS
  <2>6. Charges!Call(s, r) = IF Charges!Within(next) THEN t ELSE s
    BY <1>0, <1>3, <2>1, <2>2, <2>3, <2>5 DEF Charges!Call, Charges!Charge, Budgets
  <2>7. t \in Budgets /\ t.used = s.used /\ t.admitted = s.admitted
    BY <1>0, <2>3, <2>4, <2>5 DEF Budgets
  <2>8. ASSUME NEW q \in Sources
        PROVE  t.copy[q] = Charges!Plus(t.base[q], t.worth[q])
    <3>1. CASE q = r.reader
      <4>1. t.copy[q] = next /\ t.base[q] = s.base[q] /\ t.worth[q] = sum
        BY <1>0, <2>5, <3>1 DEF Budgets
      <4>2. s.base[q] \in Counters /\ s.worth[q] \in Counters /\ s.copy[q] = Charges!Plus(s.base[q], s.worth[q])
        BY <1>0 DEF Budgets, Balanced
      <4>3. \A a, b, c \in Counters :
               Charges!Plus(Charges!Plus(a, b), c) = Charges!Plus(a, Charges!Plus(b, c))
        BY DEF Charges!Plus, Counters
      <4> QED
        BY <2>1, <2>2, <2>3, <3>1, <4>1, <4>2, <4>3
    <3>2. CASE q # r.reader
      <4>1. t.copy[q] = s.copy[q] /\ t.base[q] = s.base[q] /\ t.worth[q] = s.worth[q]
        BY <1>0, <2>5, <3>2 DEF Budgets
      <4> QED
        BY <1>0, <4>1 DEF Balanced
    <3> QED
      BY <3>1, <3>2
  <2> QED
    BY <1>0, <2>6, <2>7, <2>8 DEF BudgetInv, Balanced
<1>4. CASE r.kind = "commit"
  <2>1. PICK delta : delta = Charges!Minus(s.copy[r.reader], s.base[r.reader])
    OBVIOUS
  <2>2. PICK next : next = Charges!Plus(s.used, delta)
    OBVIOUS
  <2>3. r.reader \in Sources
    BY <1>4 DEF Calls
  <2>4. delta = s.worth[r.reader]
    <3>1. /\ s.base[r.reader] \in Counters /\ s.worth[r.reader] \in Counters
          /\ s.copy[r.reader] = Charges!Plus(s.base[r.reader], s.worth[r.reader])
      BY <1>0, <2>3 DEF Budgets, Balanced
    <3>2. \A a, b \in Counters : Charges!Minus(Charges!Plus(a, b), a) = b
      BY DEF Charges!Plus, Charges!Minus, Counters
    <3> QED
      BY <2>1, <3>1, <3>2
  <2>5. next \in Counters /\ next = Charges!Plus(s.admitted, s.worth[r.reader])
    BY <1>0, <1>p, <2>2, <2>3, <2>4 DEF Budgets
  <2>6. Charges!Call(s, r) = IF Charges!Within(next)
                             THEN [s EXCEPT !.used = next, !.open = @ \ {r.reader}, !.admitted = next]
                             ELSE [s EXCEPT !.open = @ \ {r.reader}]
    BY <1>0, <1>4, <2>1, <2>2, <2>5 DEF Charges!Call, Charges!Commit, Budgets
  <2>7. Charges!Within(next) => BudgetInv([s EXCEPT !.used = next, !.open = @ \ {r.reader}, !.admitted = next])
    BY <1>0, <2>5 DEF BudgetInv, Budgets, Balanced
  <2>8. BudgetInv([s EXCEPT !.open = @ \ {r.reader}])
    BY <1>0 DEF BudgetInv, Budgets, Balanced
  <2> QED
    BY <2>6, <2>7, <2>8
<1> QED
  BY <1>1, <1>2, <1>3, <1>4 DEF Calls

-----------------------------------------------------------------------------
(* The scripts that judge evidence.                                        *)
LEMMA LeastOf ==
    ASSUME NEW T \in SUBSET Nat, T # {}
    PROVE  \E x \in T : \A y \in T : x <= y
<1>1. PICK x \in T : \A y \in T : ~(<<y, x>> \in OpToRel(<, Nat))
  BY NatLessThanWellFounded, WFMin
<1>2. ASSUME NEW y \in T PROVE x <= y
  <2>1. ~(y < x)
    BY <1>1 DEF OpToRel
  <2> QED
    BY <2>1
<1> QED
  BY <1>2

(* A line of output has a place, a kind and a depth.                        *)
LEMMA LineShape ==
    \A r \in Evidence!Lines : /\ r.depth \in {0, 1}
                              /\ r.kind = "envelope" \/ r.kind = "no_match" \/ r.kind \in {"handoff", "identity", "section", "text"}
BY DEF Evidence!Lines

(* Between a start and the end of its block every heading is deeper.       *)
LEMMA BlockIsNested ==
    ASSUME NEW l \in Seq(Evidence!Lines), NEW h \in Evidence!Starts(l)
    PROVE  \E e \in h .. Len(l) :
               /\ Evidence!Block(l, h) = SubSeq(l, h, e)
               /\ \A o \in h + 1 .. e : o \in Evidence!Heads(l) => l[o].depth > l[h].depth
<1> DEFINE later == {i \in Evidence!Starts(l) : i > h}
<1>0. Evidence!Heads(l) \in SUBSET DOMAIN l /\ Evidence!Starts(l) \in SUBSET Evidence!Heads(l) /\ h \in 1 .. Len(l)
      /\ Len(l) \in Nat
  BY DEF Evidence!Heads, Evidence!At, Evidence!Starts
<1>1. PICK e \in h .. Len(l) : Evidence!Block(l, h) = SubSeq(l, h, e) /\ \A o \in later : o > e
  <2>1. CASE later = {}
    BY <1>0, <2>1 DEF Evidence!Block
  <2>2. CASE later # {}
    <3>1. later \in SUBSET Nat
      BY <1>0
    <3>2. PICK x \in later : x = (CHOOSE i \in later : \A o \in later : i <= o) /\ \A o \in later : x <= o
      BY <2>2, <3>1, LeastOf
    <3>3. x - 1 \in h .. Len(l) /\ \A o \in later : o > x - 1
      BY <1>0, <3>1, <3>2
    <3>4. Evidence!Block(l, h) = SubSeq(l, h, x - 1)
      BY <2>2, <3>2 DEF Evidence!Block
    <3> QED
      BY <3>3, <3>4
  <2> QED
    BY <2>1, <2>2
<1>2. \A i \in DOMAIN l : l[i].depth \in {0, 1}
  BY LineShape
<1>3. ASSUME NEW o \in h + 1 .. e, o \in Evidence!Heads(l), ~(l[o].depth > l[h].depth) PROVE FALSE
  <2>1. o \in DOMAIN l /\ o \notin Evidence!Starts(l) /\ o > h
    BY <1>0, <1>1, <1>3
  <2>2. PICK p \in Evidence!Heads(l) : p < o /\ ~(l[o].depth <= l[p].depth)
    BY <1>3, <2>1 DEF Evidence!Starts
  <2>3. l[p].depth = 0 /\ l[o].depth = 1 /\ l[h].depth = 1
    BY <1>0, <1>2, <1>3, <2>1, <2>2
  <2>4. \A q \in Evidence!Heads(l) : q < h => l[h].depth <= l[q].depth
    BY DEF Evidence!Starts
  <2>5. p > h
    BY <1>0, <2>2, <2>3, <2>4
  <2>6. p \in Evidence!Starts(l)
    BY <1>0, <1>2, <2>3 DEF Evidence!Starts
  <2> QED
    BY <1>0, <1>1, <2>2, <2>5, <2>6
<1> QED
  BY <1>1, <1>3

(* The outermost heading of a block is no deeper than its start.           *)
LEMMA OutermostHeading ==
    ASSUME NEW b \in Seq(Evidence!Lines), NEW H \in SUBSET DOMAIN b, 1 \in H
    PROVE  LET i == CHOOSE i \in H : \A o \in H : b[i].depth <= b[o].depth
           IN  i \in H /\ b[i].depth <= b[1].depth
<1> DEFINE T == {b[i].depth : i \in H}
<1>1. \A i \in H : b[i].depth \in {0, 1}
  BY LineShape
<1>2. T \in SUBSET Nat /\ T # {}
  BY <1>1
<1>3. PICK x \in T : \A y \in T : x <= y
  BY <1>2, LeastOf
<1>4. PICK j \in H : b[j].depth = x
  OBVIOUS
<1>5. \E i \in H : \A o \in H : b[i].depth <= b[o].depth
  BY <1>3, <1>4
<1> QED
  BY <1>5

(* What a block proves is bound to its first heading.                      *)
LEMMA BlockBinds ==
    ASSUME NEW l \in Seq(Evidence!Lines), NEW h \in Evidence!Starts(l),
           Evidence!Block(l, h) \in Evidence!HandoffBlocks(l),
           Evidence!Identified(Evidence!Block(l, h)), Evidence!Recovered(Evidence!Block(l, h)) # {}
    PROVE  Evidence!ProofIsBound(l)
<1>0. h \in 1 .. Len(l) /\ Len(l) \in Nat /\ l[h].kind \in {"handoff", "no_match"}
      /\ \A o \in 1 .. h : l[o].kind \in {"handoff", "no_match"} => l[o].depth >= l[h].depth
  <2>1. h \in 1 .. Len(l) /\ Len(l) \in Nat /\ l[h].kind \in {"handoff", "no_match"}
    BY DEF Evidence!Heads, Evidence!At, Evidence!Starts
  <2>2. \A i \in DOMAIN l : l[i].depth \in {0, 1}
    BY LineShape
  <2>3. ASSUME NEW o \in 1 .. h, l[o].kind \in {"handoff", "no_match"} PROVE l[o].depth >= l[h].depth
    <3>1. o \in Evidence!Heads(l) /\ o \in DOMAIN l
      BY <2>1, <2>3 DEF Evidence!Heads, Evidence!At
    <3>2. o < h => l[h].depth <= l[o].depth
      BY <3>1 DEF Evidence!Starts
    <3> QED
      BY <2>1, <2>2, <3>1, <3>2
  <2> QED
    BY <2>1, <2>3
<1>1. PICK e \in h .. Len(l) :
         /\ Evidence!Block(l, h) = SubSeq(l, h, e)
         /\ \A o \in h + 1 .. e : o \in Evidence!Heads(l) => l[o].depth > l[h].depth
  BY BlockIsNested
<1>2. PICK b : b = SubSeq(l, h, e)
  OBVIOUS
<1>3. b \in Seq(Evidence!Lines) /\ Len(b) = e - h + 1 /\ e \in Nat /\ \A i \in 1 .. e - h + 1 : b[i] = l[h + i - 1]
  BY <1>0, <1>1, <1>2
<1>4. b[1] = l[h] /\ 1 \in DOMAIN b
  BY <1>0, <1>1, <1>3
<1>5. l[h].kind = "handoff"
  <2>1. ~Evidence!Happened(b, {"no_match"})
    BY <1>1, <1>2 DEF Evidence!HandoffBlocks
  <2>2. b[1].kind # "no_match"
    BY <1>4, <2>1 DEF Evidence!Happened, Evidence!Range
  <2> QED
    BY <1>0, <1>4, <2>2
<1>6. PICK i \in DOMAIN b : b[i].kind = "identity" /\ b[i].depth = b[1].depth
  BY <1>1, <1>2 DEF Evidence!Identified, Evidence!At
<1> DEFINE H == Evidence!At(b, {"handoff", "no_match", "section"})
           top == CHOOSE k \in H : \A o \in H : b[k].depth <= b[o].depth
<1>7. top \in H /\ b[top].depth <= b[1].depth
  <2>1. H \in SUBSET DOMAIN b /\ 1 \in H
    BY <1>4, <1>5 DEF Evidence!At
  <2> QED
    BY <1>3, <2>1, OutermostHeading
<1>8. PICK t \in DOMAIN b, s \in DOMAIN b :
         b[t].kind = "text" /\ b[s].kind = "section" /\ s < t /\ b[s].depth = b[top].depth
  <2>1. PICK t \in Evidence!Recovered(b) : TRUE
    BY <1>1, <1>2
  <2>2. t \in Evidence!At(b, {"text"}) /\ \E s \in {k \in H : b[k].depth = b[top].depth} : s < t /\ b[s].kind = "section"
    BY <2>1 DEF Evidence!Recovered
  <2> QED
    BY <2>2 DEF Evidence!At
<1>9. DOMAIN b = 1 .. e - h + 1
  BY <1>3
<1>10. PICK hi, hs, ht \in DOMAIN l : /\ hi = h + i - 1 /\ hs = h + s - 1 /\ ht = h + t - 1 /\ ht <= e
                                       /\ l[hi] = b[i] /\ l[hs] = b[s] /\ l[ht] = b[t]
  <2>1. i \in 1 .. e - h + 1 /\ s \in 1 .. e - h + 1 /\ t \in 1 .. e - h + 1
    BY <1>9
  <2>2. \A k \in 1 .. e - h + 1 : h + k - 1 \in 1 .. Len(l) /\ h + k - 1 <= e
    BY <1>0, e \in h .. Len(l)
  <2>3. h + i - 1 \in DOMAIN l /\ h + s - 1 \in DOMAIN l /\ h + t - 1 \in DOMAIN l /\ h + t - 1 <= e
    BY <2>1, <2>2
  <2> QED
    BY <1>3, <2>1, <2>3
<1>11. h < hi /\ h < hs /\ hs < ht
  <2>1. i # 1 /\ s # 1
    BY <1>4, <1>5, <1>6, <1>8
  <2>2. i \in Int /\ s \in Int /\ t \in Int /\ h \in Int /\ i >= 1 /\ s >= 1 /\ s < t
    BY <1>3, <1>0, <1>8, <1>9
  <2>3. hi = h + i - 1 /\ hs = h + s - 1 /\ ht = h + t - 1
    BY <1>10
  <2> QED
    BY <2>1, <2>2, <2>3
<1>12. l[hi].depth = l[h].depth /\ l[hs].depth <= l[h].depth
  BY <1>4, <1>6, <1>7, <1>8, <1>10
<1>13. \A o \in h + 1 .. ht : l[o].kind \in {"handoff", "no_match"} => l[o].depth > l[h].depth
  <2>1. \A o \in h + 1 .. ht : o \in h + 1 .. e /\ o \in DOMAIN l
    BY <1>0, <1>1, <1>10
  <2> QED
    BY <1>1, <2>1 DEF Evidence!Heads, Evidence!At
<1>14. h \in DOMAIN l /\ l[hi].kind = "identity" /\ l[hs].kind = "section" /\ l[ht].kind = "text"
  BY <1>0, <1>6, <1>8, <1>10
<1> QED
  BY <1>0, <1>5, <1>10, <1>11, <1>12, <1>13, <1>14 DEF Evidence!ProofIsBound

(* A handoff quoted in another one, or cut, proves no activation.           *)
LEMMA ActivationIsBound ==
    ASSUME NEW l \in Seq(Evidence!Lines)
    PROVE  Evidence!ProofIsBound(l)
<1>1. SUFFICES ASSUME Evidence!Evaluate(<<>>, l) = "passed" PROVE Evidence!ProofIsBound(l)
  BY DEF Evidence!ProofIsBound
<1>2. Evidence!FixtureRead(l)
  BY <1>1 DEF Evidence!Evaluate, Evidence!Happened
<1>3. CASE \E r \in Evidence!Envelopes(l) : r.lacks = "nothing"
  <2>1. \E r \in Evidence!Range(l) : r.kind = "envelope" /\ r.lacks = "nothing"
    BY <1>3 DEF Evidence!Envelopes, Evidence!At, Evidence!Range
  <2> QED
    BY <2>1 DEF Evidence!ProofIsBound
<1>4. CASE \E b \in Evidence!HandoffBlocks(l) : Evidence!Identified(b) /\ Evidence!Recovered(b) # {}
  <2>1. PICK b \in Evidence!HandoffBlocks(l) : Evidence!Identified(b) /\ Evidence!Recovered(b) # {}
    BY <1>4
  <2>2. PICK h \in Evidence!Starts(l) : b = Evidence!Block(l, h)
    BY <2>1 DEF Evidence!HandoffBlocks
  <2> QED
    BY <2>1, <2>2, BlockBinds
<1> QED
  BY <1>2, <1>3, <1>4 DEF Evidence!FixtureRead

(* What is failed, and what is current, for every list of what happened.   *)
LEMMA FailureSaysMore == \A l : Evidence!FailureIsNoPrerequisite(l)
<1> TAKE l
<1> DEFINE K == {r.kind : r \in Evidence!Range(l)}
<1>0. \A S : Evidence!Happened(l, S) <=> K \cap S # {}
  BY DEF Evidence!Happened
<1> HIDE DEF K
<1>1. Evidence!Evaluate(l, Evidence!Printed(l)) = "passed" => "output" \in K /\ "login" \notin K /\ "exit" \notin K
  BY <1>0 DEF Evidence!Evaluate, Evidence!Printed
<1>2. "login" \in K => Evidence!Evaluate(l, Evidence!Printed(l)) = "auth_required"
  <2>1. "login" \in K => Evidence!Happened(l, {"login"})
    BY <1>0
  <2> QED
    BY <2>1 DEF Evidence!Evaluate
<1>3. Evidence!CollectActivation(l) = "failed" =>
         "wrong_package" \in K \/ K \cap {"no_binary", "no_version", "timeout", "unsupported", "login"} = {}
  BY <1>0, <1>2 DEF Evidence!CollectActivation, Evidence!Activate
<1>4. Evidence!CollectDiscovery(l) = "failed" => K \cap {"no_binary", "no_version", "timeout", "unsupported", "login"} = {}
  BY <1>0 DEF Evidence!CollectDiscovery, Evidence!Discover
<1>5. Evidence!CollectActivation(l) = "current" =>
         "output" \in K /\ K \cap {"no_binary", "no_version", "timeout", "unsupported", "login", "wrong_package", "exit"} = {}
  BY <1>0, <1>1 DEF Evidence!CollectActivation, Evidence!Activate
<1>6. Evidence!CollectDiscovery(l) = "current" =>
         "output" \in K /\ K \cap {"no_binary", "no_version", "timeout", "unsupported", "login", "wrong_package", "exit"} = {}
  BY <1>0 DEF Evidence!CollectDiscovery, Evidence!Discover, Evidence!Discovered
<1> QED
  BY <1>0, <1>3, <1>4, <1>5, <1>6 DEF Evidence!FailureIsNoPrerequisite

-----------------------------------------------------------------------------
(* The program state: the receipts, replayed.                              *)
ReplayFold == INSTANCE FoldLemmas WITH Op <- Program!ReplayOne

(* Replay is a fold of ReplayOne over the log.                              *)
LEMMA ReplayIsFold == \A l : Program!Replay(l) = ReplayFold!Fold([ok |-> TRUE, view |-> Program!Unseeded], l)
BY DEF Program!Replay, ReplayFold!Fold, ReplayFold!Unfolds, Program!FoldLeft, Program!MapThenFoldSet, Program!Max,
       ReplayFold!Max

LEMMA ReplayAppend ==
    \A S : \A l \in Seq(S), r \in S : Program!Replay(Append(l, r)) = Program!ReplayOne(Program!Replay(l), r)
BY ReplayFold!FoldAppend, ReplayIsFold

LEMMA ReplayEmpty == Program!Replay(<<>>) = [ok |-> TRUE, view |-> Program!Unseeded]
BY ReplayFold!FoldEmpty, ReplayIsFold

(* What a longer log holds at its places.                                   *)
LEMMA AppendedAt ==
    ASSUME NEW S, NEW l \in Seq(S), NEW r \in S
    PROVE  /\ Append(l, r) \in Seq(S) /\ Len(l) \in Nat /\ Len(Append(l, r)) = Len(l) + 1
           /\ DOMAIN l = 1 .. Len(l) /\ DOMAIN Append(l, r) = 1 .. Len(l) + 1
           /\ Append(l, r)[Len(l) + 1] = r
           /\ \A i \in 1 .. Len(l) : Append(l, r)[i] = l[i]
OBVIOUS

(* All that can be written to a state root.                                 *)
Writings == Program!Receipts \cup Program!Papers

LEMMA WrittenShape ==
    ASSUME NEW r \in Writings
    PROVE  /\ r.kind = "receipt" => /\ r.op \in Program!Operations /\ r.accepted \in {"none", "yes", "no"}
                                    /\ r.from \in Program!Statuses \cup {"uninitialized"} /\ r.to \in Program!Statuses
           /\ r.kind = "event" => r.class \in {"unknown", "related-blocks-subject"}
           /\ r \in Program!Receipts => r.kind = "receipt"
BY DEF Writings, Program!Receipts, Program!Papers

(* Where the receipts of a log are.                                         *)
Rec(l) == Program!At(l, "receipt")

Grown(l, r, m, n) ==
    /\ n \in Nat /\ Len(m) = n + 1 /\ m[n + 1] = r /\ m \in Seq(Writings)
    /\ Rec(l) \subseteq 1 .. n /\ \A i \in Rec(l) : i \in Rec(m) /\ m[i] = l[i] /\ m[i].kind = "receipt"
    /\ \A i \in Rec(m) : i \in Rec(l) \/ (i = n + 1 /\ r.kind = "receipt")
    /\ r.kind = "receipt" => n + 1 \in Rec(m)

LEMMA RecAppended ==
    ASSUME NEW l \in Seq(Writings), NEW r \in Writings, NEW m, m = Append(l, r), NEW n, n = Len(l)
    PROVE  Grown(l, r, m, n)
<1>1. /\ n \in Nat /\ Len(m) = n + 1 /\ m[n + 1] = r /\ m \in Seq(Writings)
      /\ DOMAIN l = 1 .. n /\ DOMAIN m = 1 .. n + 1 /\ \A i \in 1 .. n : m[i] = l[i]
  BY AppendedAt
<1>2. \A i \in 1 .. n + 1 : i \in 1 .. n \/ i = n + 1
  BY <1>1
<1> QED
  BY <1>1, <1>2 DEF Grown, Rec, Program!At

(* From i to n the program became idle and acquired work after; or a        *)
(* receipt of an unguarded kind named an owner or an issue.                 *)
Separated(l, i, n) ==
    \E j, k \in Rec(l) : i <= j /\ j < k /\ k <= n /\ l[j].to = "idle" /\ l[k].op = "issue-acquired"
Names(r) == {r.owner, r.issue} # {Program!None}
Excused(l, i, n) == \E k \in Rec(l) : i < k /\ k <= n /\ l[k].op \in Program!Unguarded /\ Names(l[k])

(* The view names what the receipt names, or nothing.                      *)
Same(v, r) == /\ v.owner = Program!None \/ r.owner = Program!None \/ v.owner = r.owner
              /\ v.issue = Program!None \/ r.issue = Program!None \/ v.issue = r.issue

(* What the view says of the receipts it is made from.                      *)
ViewInv(l, v) ==
    /\ v = Program!Unseeded => \A i \in Rec(l) : l[i].op = "bootstrap" /\ l[i].from = "uninitialized"
    /\ v # Program!Unseeded => \E e \in Rec(l) : v.status = l[e].to /\ \A i \in Rec(l) : i <= e
    /\ \A i \in Rec(l) : l[i].op \in Program!Work => Separated(l, i, Len(l)) \/ Excused(l, i, Len(l)) \/ Same(v, l[i])
    /\ v.accepted = "yes" => Program!Accepted(l, Len(l))
    /\ v.issue # Program!None => \E a \in Rec(l) : Program!Enters(l, a, v.issue)

(* And what the receipts that were allowed say of each other.               *)
PastInv(l) ==
    /\ \A i, j \in Rec(l) : i < j /\ l[i].op \in Program!Work /\ l[j].op \in Program!Work =>
           Separated(l, i, j) \/ Excused(l, i, j - 1) \/ Same(l[i], l[j])
    /\ \A j \in Rec(l) : l[j].op = "issue-released" =>
           /\ Program!Accepted(l, j)
           /\ l[j].issue # Program!None => \E a \in Rec(l) : a <= j /\ Program!Enters(l, a, l[j].issue)

ReplayInv(l) == Program!Replay(l).ok => ViewInv(l, Program!Replay(l).view) /\ PastInv(l)

(* What is true of a log stays true of a longer one.                        *)
LEMMA StaysTrue ==
    ASSUME NEW l \in Seq(Writings), NEW r \in Writings, NEW m, m = Append(l, r), NEW n, n = Len(l)
    PROVE  /\ \A i, k : k \in Int /\ Separated(l, i, k) => Separated(m, i, k) /\ Separated(m, i, k + 1)
           /\ \A i, k : k \in Int /\ Excused(l, i, k) => Excused(m, i, k) /\ Excused(m, i, k + 1)
           /\ \A k \in 1 .. n : Program!Accepted(l, k) => Program!Accepted(m, k)
           /\ Program!Accepted(l, n) /\ (r.kind = "receipt" => r.accepted = "none") => Program!Accepted(m, n + 1)
           /\ \A i : \A a \in Rec(l) : Program!Enters(l, a, i) => Program!Enters(m, a, i)
<1>g. Grown(l, r, m, n)
  BY RecAppended
<1>0. /\ n \in Nat /\ m[n + 1] = r
      /\ Rec(l) \subseteq 1 .. n /\ \A i \in Rec(l) : i \in Rec(m) /\ m[i] = l[i]
      /\ \A i \in Rec(m) : i \in Rec(l) \/ (i = n + 1 /\ r.kind = "receipt")
  BY <1>g DEF Grown
<1>n. \A i \in Rec(l) : i \in Int /\ i <= n /\ i # n + 1 /\ ~(n + 1 <= i)
  BY <1>0
<1>1. ASSUME NEW i, NEW k \in Int, Separated(l, i, k) PROVE Separated(m, i, k) /\ Separated(m, i, k + 1)
  <2>1. PICK a, b \in Rec(l) : i <= a /\ a < b /\ b <= k /\ l[a].to = "idle" /\ l[b].op = "issue-acquired"
    BY <1>1 DEF Separated
  <2>2. b <= k + 1
    BY <1>n, <2>1
  <2> QED
    BY <1>0, <2>1, <2>2 DEF Separated
<1>2. ASSUME NEW i, NEW k \in Int, Excused(l, i, k) PROVE Excused(m, i, k) /\ Excused(m, i, k + 1)
  <2>1. PICK b \in Rec(l) : i < b /\ b <= k /\ l[b].op \in Program!Unguarded /\ Names(l[b])
    BY <1>2 DEF Excused
  <2>2. b <= k + 1
    BY <1>n, <2>1
  <2> QED
    BY <1>0, <2>1, <2>2 DEF Excused
<1>3. ASSUME NEW k \in 1 .. n, Program!Accepted(l, k) PROVE Program!Accepted(m, k)
  <2>1. PICK e \in Rec(l) : e <= k /\ l[e].accepted = "yes" /\ \A x \in Rec(l) : e < x /\ x <= k => l[x].accepted = "none"
    BY <1>3 DEF Program!Accepted, Rec
  <2>2. \A x \in Rec(m) : e < x /\ x <= k => x \in Rec(l)
    <3>1. ~(n + 1 <= k)
      BY <1>0
    <3> QED
      BY <1>0, <3>1
  <2>3. e \in Rec(m) /\ m[e].accepted = "yes" /\ \A x \in Rec(m) : e < x /\ x <= k => m[x].accepted = "none"
    BY <1>0, <2>1, <2>2
  <2> QED
    BY <2>1, <2>3 DEF Program!Accepted, Rec
<1>4. ASSUME Program!Accepted(l, n), r.kind = "receipt" => r.accepted = "none" PROVE Program!Accepted(m, n + 1)
  <2>1. PICK e \in Rec(l) : e <= n /\ l[e].accepted = "yes" /\ \A x \in Rec(l) : e < x /\ x <= n => l[x].accepted = "none"
    BY <1>4 DEF Program!Accepted, Rec
  <2>2. e <= n + 1 /\ e \in Rec(m) /\ m[e].accepted = "yes"
    BY <1>0, <2>1
  <2>3. \A x \in Rec(m) : e < x => m[x].accepted = "none"
    <3>1. \A x \in Rec(l) : e < x => m[x].accepted = "none"
      BY <1>0, <1>n, <2>1
    <3> QED
      BY <1>0, <1>4, <3>1
  <2> QED
    BY <2>2, <2>3 DEF Program!Accepted, Rec
<1>5. ASSUME NEW a \in Rec(l), NEW i, Program!Enters(l, a, i) PROVE Program!Enters(m, a, i)
  <2>1. m[a] = l[a] /\ \A b \in Rec(m) : b < a => b \in Rec(l) /\ m[b] = l[b]
    <3>1. ~(n + 1 < a)
      BY <1>n, <1>0
    <3> QED
      BY <1>0, <3>1
  <2>2. Program!SaysFirst(l, a) => Program!SaysFirst(m, a)
    BY <2>1 DEF Program!SaysFirst, Rec
  <2> QED
    BY <1>5, <2>1, <2>2 DEF Program!Enters
<1> QED
  BY <1>1, <1>2, <1>3, <1>4, <1>5

(* What the code lets a receipt of the work be, in a view.                 *)
LEMMA Allowed ==
    ASSUME NEW v, NEW r, ~Program!Forbidden(v, r)
    PROVE  /\ r.op = "issue-acquired" => v.status = "idle"
           /\ r.op \in {"pr-opened", "issue-released"} =>
                  /\ r.owner # Program!None => v.owner = r.owner
                  /\ r.issue # Program!None => v.issue = r.issue
           /\ r.op = "issue-released" => r.accepted = "yes" \/ (r.accepted = "none" /\ v.accepted = "yes")
BY DEF Program!Forbidden

(* Where the fields of the next view come from.                             *)
LEMMA FollowFields ==
    ASSUME NEW v, NEW r
    PROVE  /\ Program!Follow(v, r).status = r.to
           /\ Program!Follow(v, r).issue \in {Program!None, r.issue, v.issue}
           /\ r.issue # Program!None => Program!Follow(v, r).issue \in {Program!None, r.issue}
           /\ Program!Follow(v, r).owner \in {Program!None, r.owner, v.owner}
           /\ r.owner # Program!None => Program!Follow(v, r).owner \in {Program!None, r.owner}
           /\ Program!Follow(v, r).accepted = IF r.accepted = "none" THEN v.accepted ELSE r.accepted
           /\ r.op \in Program!Closing => Program!Follow(v, r).issue = Program!None /\ Program!Follow(v, r).owner = Program!None
BY DEF Program!Follow

(* The view a receipt is judged by, seeded or not: before it, what holds of *)
(* the work so far.                                                         *)
Beforehand(l, m, n, r, u) ==
    /\ \A i \in Rec(l) : l[i].op \in Program!Work =>
           /\ Separated(l, i, n) \/ Excused(l, i, n) \/ Same(u, l[i])
           /\ u.status = "idle" => \E e \in Rec(l) : i <= e /\ l[e].to = "idle"
    /\ u.accepted = "yes" => Program!Accepted(l, n) \/ r.accepted = "yes"
    /\ u.issue # Program!None => \/ \E a \in Rec(l) : Program!Enters(l, a, u.issue)
                                 \/ Program!SaysFirst(m, n + 1) /\ r.issue = u.issue

LEMMA BeforeHolds ==
    ASSUME NEW l \in Seq(Writings), NEW r \in Writings, r.kind = "receipt", NEW m, m = Append(l, r), NEW n, n = Len(l),
           NEW v, ViewInv(l, v), NEW u, u = Program!Seeded(v, r), u # Program!Unseeded
    PROVE  Beforehand(l, m, n, r, u)
<1>g. Grown(l, r, m, n)
  BY RecAppended
<1>0. /\ n \in Nat /\ m[n + 1] = r /\ Rec(l) \subseteq 1 .. n /\ \A i \in Rec(l) : m[i] = l[i]
      /\ \A i \in Rec(m) : i \in Rec(l) \/ (i = n + 1 /\ r.kind = "receipt")
  BY <1>g DEF Grown
<1>1. CASE v # Program!Unseeded
  <2>1. u = v
    BY <1>1 DEF Program!Seeded
  <2>2. PICK e \in Rec(l) : v.status = l[e].to /\ \A i \in Rec(l) : i <= e
    BY <1>1 DEF ViewInv
  <2> QED
    BY <2>1, <2>2 DEF Beforehand, ViewInv
<1>2. CASE v = Program!Unseeded
  <2>1. u = Program!Seed(r) /\ r.from \in Program!Statuses
    BY <1>2 DEF Program!Seeded
  <2>2. \A i \in Rec(l) : l[i].op = "bootstrap" /\ l[i].from = "uninitialized"
    BY <1>2 DEF ViewInv
  <2>3. Program!SaysFirst(m, n + 1)
    <3>1. \A b \in Rec(m) : b < n + 1 => m[b].from = "uninitialized"
      <4>1. ~(n + 1 < n + 1)
        BY <1>0
      <4> QED
        BY <1>0, <2>2, <4>1
    <3> QED
      BY <1>0, <2>1, <3>1 DEF Program!SaysFirst, Rec
  <2>4. \A i \in Rec(l) : l[i].op \notin Program!Work
    BY <2>2 DEF Program!Work
  <2> QED
    BY <2>1, <2>3, <2>4 DEF Beforehand, Program!Seed
<1> QED
  BY <1>1, <1>2

(* A receipt that is allowed keeps the view true.                           *)
LEMMA ViewKept ==
    ASSUME NEW l \in Seq(Writings), NEW r \in Writings, r.kind = "receipt", NEW m, m = Append(l, r), NEW n, n = Len(l),
           NEW u, Beforehand(l, m, n, r, u), ~Program!Forbidden(u, r), NEW w, w = Program!Follow(u, r)
    PROVE  ViewInv(m, w)
<1>g. Grown(l, r, m, n)
  BY RecAppended
<1>0. /\ n \in Nat /\ Len(m) = n + 1 /\ m[n + 1] = r
      /\ Rec(l) \subseteq 1 .. n /\ \A i \in Rec(l) : i \in Rec(m) /\ m[i] = l[i]
      /\ \A i \in Rec(m) : i \in Rec(l) \/ i = n + 1
      /\ n + 1 \in Rec(m)
  BY <1>g DEF Grown
<1>n. \A i \in Rec(l) : i \in Int /\ i <= n /\ i < n + 1
  BY <1>0
<1>r. r.op \in Program!Operations /\ r.accepted \in {"none", "yes", "no"} /\ r.to \in Program!Statuses
  BY WrittenShape
<1>f. /\ w.status = r.to
      /\ w.issue \in {Program!None, r.issue, u.issue}
      /\ r.issue # Program!None => w.issue \in {Program!None, r.issue}
      /\ w.owner \in {Program!None, r.owner, u.owner}
      /\ r.owner # Program!None => w.owner \in {Program!None, r.owner}
      /\ w.accepted = IF r.accepted = "none" THEN u.accepted ELSE r.accepted
      /\ r.op \in Program!Closing => w.issue = Program!None /\ w.owner = Program!None
  BY FollowFields
<1>1. w # Program!Unseeded
  BY <1>f, <1>r DEF Program!Unseeded, Program!Statuses
<1>2. w.status = m[n + 1].to /\ \A i \in Rec(m) : i <= n + 1
  BY <1>0, <1>n, <1>f
<1>3. ASSUME NEW i \in Rec(m), m[i].op \in Program!Work
      PROVE  Separated(m, i, n + 1) \/ Excused(m, i, n + 1) \/ Same(w, m[i])
  <2>1. CASE i = n + 1
    <3>1. r.op \in {"pr-opened", "issue-released"} =>
              (r.owner # Program!None => u.owner = r.owner) /\ (r.issue # Program!None => u.issue = r.issue)
      BY Allowed
    <3>2. Same(w, r)
      BY <1>f DEF Same
    <3> QED
      BY <1>0, <2>1, <3>2
  <2>2. CASE i \in Rec(l)
    <3>1. m[i] = l[i] /\ l[i].op \in Program!Work
      BY <1>0, <1>3, <2>2
    <3>2. Separated(l, i, n) \/ Excused(l, i, n) \/ Same(u, l[i])
      BY <2>2, <3>1 DEF Beforehand
    <3>3. n \in Int
      BY <1>0
    <3>4. Separated(l, i, n) => Separated(m, i, n + 1)
      BY <3>3, StaysTrue
    <3>5. Excused(l, i, n) => Excused(m, i, n + 1)
      BY <3>3, StaysTrue
    <3>6. CASE Same(u, l[i]) /\ r.op = "issue-acquired"
      <4>1. u.status = "idle"
        BY <3>6, Allowed
      <4>2. PICK e \in Rec(l) : i <= e /\ l[e].to = "idle"
        BY <2>2, <3>1, <4>1 DEF Beforehand
      <4>3. e \in Rec(m) /\ e < n + 1 /\ m[e].to = "idle" /\ n + 1 <= n + 1 /\ m[n + 1].op = "issue-acquired"
        BY <1>0, <1>n, <3>6, <4>2
      <4> QED
        BY <1>0, <4>2, <4>3 DEF Separated
    <3>7. CASE Same(u, l[i]) /\ r.op \in Program!Unguarded /\ Names(r)
      <4>1. i < n + 1 /\ n + 1 <= n + 1
        BY <1>0, <1>n, <2>2
      <4> QED
        BY <1>0, <3>7, <4>1 DEF Excused
    <3>8. CASE Same(u, l[i]) /\ r.op \in Program!Unguarded /\ ~Names(r)
      <4>1. r.owner = Program!None /\ r.issue = Program!None
        BY <3>8 DEF Names
      <4> QED
        BY <1>f, <3>1, <3>8, <4>1 DEF Same
    <3>9. CASE Same(u, l[i]) /\ r.op \in {"pr-opened", "issue-released"}
      <4>1. (r.owner # Program!None => u.owner = r.owner) /\ (r.issue # Program!None => u.issue = r.issue)
        BY <3>9, Allowed
      <4>2. w.owner \in {Program!None, u.owner} /\ w.issue \in {Program!None, u.issue}
        BY <1>f, <4>1
      <4> QED
        BY <3>1, <3>9, <4>2 DEF Same
    <3>10. CASE Same(u, l[i]) /\ r.op = "program-completed"
      BY <1>f, <3>10 DEF Same, Program!Closing
    <3>11. r.op \in {"issue-acquired", "pr-opened", "issue-released", "program-completed"} \cup Program!Unguarded
      BY <1>r DEF Program!Operations, Program!Work, Program!Closing
    <3> QED
      BY <3>2, <3>4, <3>5, <3>6, <3>7, <3>8, <3>9, <3>10, <3>11
  <2> QED
    BY <1>0, <2>1, <2>2
<1>4. ASSUME w.accepted = "yes" PROVE Program!Accepted(m, n + 1)
  <2>1. CASE r.accepted = "yes"
    <3>1. n + 1 <= n + 1 /\ m[n + 1].accepted = "yes" /\ \A x \in Rec(m) : ~(n + 1 < x)
      BY <1>0, <1>n, <2>1
    <3> QED
      BY <1>0, <3>1 DEF Program!Accepted, Rec
  <2>2. CASE r.accepted # "yes"
    <3>1. r.accepted = "none" /\ u.accepted = "yes"
      BY <1>4, <1>f, <1>r, <2>2
    <3>2. Program!Accepted(l, n)
      BY <3>1 DEF Beforehand
    <3> QED
      BY <3>1, <3>2, StaysTrue
  <2> QED
    BY <2>1, <2>2
<1>5. ASSUME w.issue # Program!None PROVE \E a \in Rec(m) : Program!Enters(m, a, w.issue)
  <2>1. r.op \notin Program!Closing
    BY <1>5, <1>f
  <2>2. CASE w.issue = r.issue /\ r.op \in {"issue-acquired"} \cup Program!Unguarded
    <3>1. Program!Enters(m, n + 1, w.issue)
      BY <1>0, <2>2 DEF Program!Enters
    <3> QED
      BY <1>0, <3>1
  <2>3. CASE w.issue = u.issue
    <3>1. CASE Program!SaysFirst(m, n + 1) /\ r.issue = u.issue
      <4>1. Program!Enters(m, n + 1, w.issue)
        BY <1>0, <2>3, <3>1 DEF Program!Enters
      <4> QED
        BY <1>0, <4>1
    <3>2. CASE \E a \in Rec(l) : Program!Enters(l, a, u.issue)
      <4>1. PICK a \in Rec(l) : Program!Enters(l, a, u.issue)
        BY <3>2
      <4>2. Program!Enters(m, a, u.issue)
        BY <4>1, StaysTrue
      <4> QED
        BY <1>0, <2>3, <4>2
    <3> QED
      BY <1>5, <2>3, <3>1, <3>2 DEF Beforehand
  <2>4. r.op = "pr-opened" => w.issue = u.issue
    <3>1. r.op = "pr-opened" /\ r.issue # Program!None => u.issue = r.issue
      BY Allowed
    <3> QED
      BY <1>5, <1>f, <3>1
  <2>5. r.op \in {"issue-acquired", "pr-opened"} \cup Program!Unguarded
    BY <1>r, <2>1 DEF Program!Operations, Program!Work, Program!Closing
  <2> QED
    BY <1>5, <1>f, <2>2, <2>3, <2>4, <2>5
<1> QED
  BY <1>0, <1>1, <1>2, <1>3, <1>4, <1>5 DEF ViewInv

(* And what the receipts say of each other.                                 *)
LEMMA PastKept ==
    ASSUME NEW l \in Seq(Writings), NEW r \in Writings, r.kind = "receipt", NEW m, m = Append(l, r), NEW n, n = Len(l),
           NEW u, Beforehand(l, m, n, r, u), ~Program!Forbidden(u, r), PastInv(l), NEW w, w = Program!Follow(u, r),
           ViewInv(m, w)
    PROVE  PastInv(m)
<1>g. Grown(l, r, m, n)
  BY RecAppended
<1>0. /\ n \in Nat /\ Len(m) = n + 1 /\ m[n + 1] = r
      /\ Rec(l) \subseteq 1 .. n /\ \A i \in Rec(l) : i \in Rec(m) /\ m[i] = l[i]
      /\ \A i \in Rec(m) : i \in Rec(l) \/ i = n + 1
      /\ n + 1 \in Rec(m)
  BY <1>g DEF Grown
<1>n. \A i \in Rec(l) : i \in Int /\ i \in 1 .. n /\ i <= n /\ i < n + 1 /\ ~(n + 1 < i) /\ i - 1 \in Int
  BY <1>0
<1>1. ASSUME NEW i \in Rec(m), NEW j \in Rec(m), i < j, m[i].op \in Program!Work, m[j].op \in Program!Work
      PROVE  Separated(m, i, j) \/ Excused(m, i, j - 1) \/ Same(m[i], m[j])
  <2>1. CASE j \in Rec(l)
    <3>1. i \in Rec(l) /\ m[i] = l[i] /\ m[j] = l[j]
      BY <1>0, <1>1, <1>n, <2>1
    <3>2. Separated(l, i, j) \/ Excused(l, i, j - 1) \/ Same(l[i], l[j])
      BY <1>1, <2>1, <3>1 DEF PastInv
    <3>3. j \in Int /\ j - 1 \in Int
      BY <1>n, <2>1
    <3>4. (Separated(l, i, j) => Separated(m, i, j)) /\ (Excused(l, i, j - 1) => Excused(m, i, j - 1))
      BY <3>3, StaysTrue
    <3> QED
      BY <3>1, <3>2, <3>4
  <2>2. CASE j = n + 1
    <3>1. i \in Rec(l) /\ m[i] = l[i] /\ m[j] = r /\ j - 1 = n /\ l[i].op \in Program!Work /\ n \in Int
      <4>1. n \in Int /\ m[j] = r /\ j - 1 = n /\ i # n + 1
        BY <1>0, <1>1, <2>2
      <4>2. i \in Rec(l)
        BY <1>0, <4>1
      <4> QED
        BY <1>0, <1>1, <4>1, <4>2
    <3>2. Separated(l, i, n) \/ Excused(l, i, n) \/ Same(u, l[i])
      <4>1. Beforehand(l, m, n, r, u)
        OBVIOUS
      <4> QED
        BY ONLY <3>1, <4>1 DEF Beforehand
    <3>3. (Separated(l, i, n) => Separated(m, i, n + 1)) /\ (Excused(l, i, n) => Excused(m, i, n))
      BY <3>1, StaysTrue
    <3>4. CASE r.op = "issue-acquired"
      <4>1. u.status = "idle"
        BY <3>4, Allowed
      <4>2. PICK e \in Rec(l) : i <= e /\ l[e].to = "idle"
        BY <3>1, <4>1 DEF Beforehand
      <4>3. e \in Rec(m) /\ e < n + 1 /\ m[e].to = "idle" /\ n + 1 <= n + 1 /\ m[n + 1].op = "issue-acquired"
        BY <1>0, <1>n, <3>4, <4>2
      <4> QED
        BY <1>0, <2>2, <4>2, <4>3 DEF Separated
    <3>5. CASE Same(u, l[i]) /\ r.op \in {"pr-opened", "issue-released"}
      <4>1. (r.owner # Program!None => u.owner = r.owner) /\ (r.issue # Program!None => u.issue = r.issue)
        BY <3>5, Allowed
      <4>2. Same(l[i], r)
        BY <3>5, <4>1 DEF Same
      <4> QED
        BY <3>1, <4>2
    <3> QED
      BY <1>1, <2>2, <3>1, <3>2, <3>3, <3>4, <3>5 DEF Program!Work
  <2> QED
    BY <1>0, <2>1, <2>2
<1>2. ASSUME NEW j \in Rec(m), m[j].op = "issue-released"
      PROVE  /\ Program!Accepted(m, j)
             /\ m[j].issue # Program!None => \E a \in Rec(m) : a <= j /\ Program!Enters(m, a, m[j].issue)
  <2>1. CASE j \in Rec(l)
    <3>1. m[j] = l[j] /\ j \in 1 .. n
      BY <1>0, <1>n, <2>1
    <3>2. /\ Program!Accepted(l, j)
          /\ l[j].issue # Program!None => \E a \in Rec(l) : a <= j /\ Program!Enters(l, a, l[j].issue)
      BY <1>2, <2>1, <3>1 DEF PastInv
    <3>3. Program!Accepted(m, j)
      BY <3>1, <3>2, StaysTrue
    <3>4. \A a \in Rec(l) : Program!Enters(l, a, l[j].issue) => Program!Enters(m, a, l[j].issue)
      BY StaysTrue
    <3> QED
      BY <1>0, <3>1, <3>2, <3>3, <3>4
  <2>2. CASE j = n + 1
    <3>1. m[j] = r /\ r.op = "issue-released"
      BY <1>0, <1>2, <2>2
    <3>2. r.accepted = "yes" \/ (r.accepted = "none" /\ u.accepted = "yes")
      BY <3>1, Allowed
    <3>3. w.accepted = "yes"
      BY <3>2, FollowFields
    <3>4. Program!Accepted(m, j)
      BY <1>0, <2>2, <3>3 DEF ViewInv
    <3>5. ASSUME r.issue # Program!None PROVE \E a \in Rec(m) : a <= j /\ Program!Enters(m, a, r.issue)
      <4>1. u.issue = r.issue
        BY <3>1, <3>5, Allowed
      <4>2. CASE Program!SaysFirst(m, n + 1)
        <5>1. Program!Enters(m, n + 1, r.issue) /\ n + 1 <= j
          BY <1>0, <2>2, <4>2 DEF Program!Enters
        <5> QED
          BY <1>0, <5>1
      <4>3. CASE \E a \in Rec(l) : Program!Enters(l, a, u.issue)
        <5>1. PICK a \in Rec(l) : Program!Enters(l, a, u.issue)
          BY <4>3
        <5>2. Program!Enters(m, a, u.issue)
          BY <5>1, StaysTrue
        <5>3. a \in Rec(m) /\ a <= j
          BY <1>0, <1>n, <2>2, <5>1
        <5> QED
          BY <4>1, <5>2, <5>3
      <4> QED
        BY <3>5, <4>1, <4>2, <4>3 DEF Beforehand
    <3> QED
      BY <3>1, <3>4, <3>5
  <2> QED
    BY <1>0, <2>1, <2>2
<1> QED
  BY <1>1, <1>2 DEF PastInv

(* Before anything is written both hold.                                    *)
LEMMA ReplayInit == ReplayInv(<<>>) /\ DOMAIN Program!Replay(<<>>) = {"ok", "view"}
<1>1. Program!Replay(<<>>).view = Program!Unseeded /\ DOMAIN Program!Replay(<<>>) = {"ok", "view"}
  BY ReplayEmpty
<1>2. Rec(<<>>) = {}
  BY DEF Rec, Program!At
<1>3. ViewInv(<<>>, Program!Unseeded)
  BY <1>2 DEF ViewInv, Program!Unseeded, Program!None
<1>4. PastInv(<<>>)
  BY <1>2 DEF PastInv
<1> QED
  BY <1>1, <1>3, <1>4 DEF ReplayInv

(* A record that leaves the view alone keeps both.                          *)
LEMMA QuietKept ==
    ASSUME NEW l \in Seq(Writings), NEW r \in Writings, NEW m, m = Append(l, r), NEW v, ViewInv(l, v), PastInv(l),
           r.kind # "receipt" \/ (v = Program!Unseeded /\ r.op = "bootstrap" /\ r.from = "uninitialized")
    PROVE  ViewInv(m, v) /\ PastInv(m)
<1> DEFINE n == Len(l)
<1>g. Grown(l, r, m, n)
  BY RecAppended
<1>0. /\ n \in Nat /\ Len(m) = n + 1 /\ m[n + 1] = r /\ n \in Int
      /\ Rec(l) \subseteq 1 .. n /\ \A i \in Rec(l) : i \in Rec(m) /\ m[i] = l[i]
      /\ \A i \in Rec(m) : i \in Rec(l) \/ (i = n + 1 /\ r.kind = "receipt")
  BY <1>g DEF Grown
<1>n. \A i \in Rec(l) : i \in Int /\ i \in 1 .. n /\ i - 1 \in Int
  BY <1>0
<1> HIDE DEF n
<1>1. CASE r.kind # "receipt"
  <2>1. \A i \in Rec(m) : i \in Rec(l)
    BY <1>0, <1>1
  <2>2. \A i : (Separated(l, i, n) => Separated(m, i, n + 1)) /\ (Excused(l, i, n) => Excused(m, i, n + 1))
    BY <1>0, StaysTrue DEF n
  <2>3. Program!Accepted(l, n) => Program!Accepted(m, n + 1)
    BY <1>1, StaysTrue DEF n
  <2>4. \A i : \A a \in Rec(l) : Program!Enters(l, a, i) => Program!Enters(m, a, i)
    BY StaysTrue
  <2>5. ViewInv(m, v)
    BY <1>0, <2>1, <2>2, <2>3, <2>4 DEF ViewInv, n
  <2>6. \A i, j \in Rec(l) : (Separated(l, i, j) => Separated(m, i, j)) /\ (Excused(l, i, j - 1) => Excused(m, i, j - 1))
    BY <1>n, StaysTrue
  <2>7. \A j \in Rec(l) : Program!Accepted(l, j) => Program!Accepted(m, j)
    BY <1>n, StaysTrue DEF n
  <2>8. PastInv(m)
    BY <1>0, <2>1, <2>4, <2>6, <2>7 DEF PastInv
  <2> QED
    BY <2>5, <2>8
<1>2. CASE v = Program!Unseeded /\ r.op = "bootstrap" /\ r.from = "uninitialized"
  <2>1. \A i \in Rec(m) : m[i].op = "bootstrap" /\ m[i].from = "uninitialized"
    BY <1>0, <1>2 DEF ViewInv
  <2>2. \A i \in Rec(m) : m[i].op \notin Program!Work /\ m[i].op # "issue-released"
    BY <2>1 DEF Program!Work
  <2>3. v.accepted # "yes" /\ v.issue = Program!None
    BY <1>2 DEF Program!Unseeded
  <2> QED
    BY <1>2, <2>1, <2>2, <2>3 DEF ViewInv, PastInv
<1> QED
  BY <1>1, <1>2

(* Every record keeps it.                                                   *)
LEMMA ReplayStep ==
    ASSUME NEW l \in Seq(Writings), NEW r \in Writings, ReplayInv(l), DOMAIN Program!Replay(l) = {"ok", "view"}
    PROVE  ReplayInv(Append(l, r)) /\ DOMAIN Program!Replay(Append(l, r)) = {"ok", "view"}
<1>1. PICK s : s = Program!Replay(l)
  OBVIOUS
<1>2. PICK m : m = Append(l, r)
  OBVIOUS
<1>3. PICK t : t = Program!ReplayOne(s, r)
  OBVIOUS
<1>4. PICK u : u = Program!Seeded(s.view, r)
  OBVIOUS
<1>5. Program!Replay(m) = t
  BY <1>1, <1>2, <1>3, ReplayAppend
<1>6. DOMAIN s = {"ok", "view"} /\ (s.ok => ViewInv(l, s.view) /\ PastInv(l))
  BY <1>1 DEF ReplayInv
<1>7. /\ r.kind # "receipt" => t = s
      /\ r.kind = "receipt" /\ (~s.ok \/ Program!Refused(u, r)) => t = [s EXCEPT !.ok = FALSE]
      /\ r.kind = "receipt" /\ s.ok /\ ~Program!Refused(u, r) /\ u = Program!Unseeded => t = s
      /\ r.kind = "receipt" /\ s.ok /\ ~Program!Refused(u, r) /\ u # Program!Unseeded =>
             t = [s EXCEPT !.view = Program!Follow(u, r)]
  BY <1>3, <1>4 DEF Program!ReplayOne
<1>8. DOMAIN t = {"ok", "view"}
  BY <1>6, <1>7
<1>9. ASSUME t.ok PROVE ViewInv(m, t.view) /\ PastInv(m)
  <2>1. CASE r.kind # "receipt"
    <3>1. t = s
      BY <1>7, <2>1
    <3> QED
      BY <1>2, <1>6, <1>9, <2>1, <3>1, QuietKept
  <2>2. CASE r.kind = "receipt" /\ s.ok /\ ~Program!Refused(u, r) /\ u = Program!Unseeded
    <3>1. t = s
      BY <1>7, <2>2
    <3>2. s.view = Program!Unseeded /\ r.from \notin Program!Statuses
      BY <1>4, <2>2 DEF Program!Seeded, Program!Seed, Program!Unseeded, Program!Statuses
    <3>3. r.from = "uninitialized"
      BY <2>2, <3>2, WrittenShape
    <3>4. r.op = "bootstrap"
      BY <2>2, <3>3 DEF Program!Refused
    <3> QED
      BY <1>2, <1>6, <2>2, <3>1, <3>2, <3>3, <3>4, QuietKept
  <2>3. CASE r.kind = "receipt" /\ s.ok /\ ~Program!Refused(u, r) /\ u # Program!Unseeded
    <3>1. t.view = Program!Follow(u, r) /\ ~Program!Forbidden(u, r)
      BY <1>6, <1>7, <2>3 DEF Program!Refused
    <3>2. PICK n : n = Len(l)
      OBVIOUS
    <3>3. Beforehand(l, m, n, r, u)
      BY <1>2, <1>4, <1>6, <2>3, <3>2, BeforeHolds
    <3>4. ViewInv(m, t.view)
      BY <1>2, <2>3, <3>1, <3>2, <3>3, ViewKept
    <3>5. PastInv(m)
      BY <1>2, <1>6, <2>3, <3>1, <3>2, <3>3, <3>4, PastKept
    <3> QED
      BY <3>4, <3>5
  <2>4. r.kind = "receipt" => s.ok /\ ~Program!Refused(u, r)
    BY <1>6, <1>7, <1>9
  <2> QED
    BY <2>1, <2>2, <2>3, <2>4
<1> QED
  BY <1>2, <1>5, <1>8, <1>9 DEF ReplayInv

(* It implies what a log of receipts promises.                              *)
LEMMA ReceiptsPromise ==
    ASSUME NEW l \in Seq(Writings), ReplayInv(l)
    PROVE  Program!OneOwnerAtATime(l)
<1>1. SUFFICES ASSUME Program!Replay(l).ok, PastInv(l) PROVE Program!OneOwnerAtATime(l)
  BY DEF ReplayInv, Program!OneOwnerAtATime
<1>0. \A i \in Rec(l) : i \in Int
  BY DEF Rec, Program!At
<1> DEFINE differs(i, j) ==
            \/ l[i].owner # l[j].owner /\ Program!None \notin {l[i].owner, l[j].owner}
            \/ l[i].issue # l[j].issue /\ Program!None \notin {l[i].issue, l[j].issue}
<1>2. ASSUME NEW i \in Rec(l), NEW j \in Rec(l), l[i].op \in Program!Work, l[j].op \in Program!Work, i < j, differs(i, j)
      PROVE  \/ \E k, e \in Rec(l) : /\ i <= e /\ e < k /\ k <= j
                                     /\ l[e].to = "idle" /\ l[k].op = "issue-acquired"
             \/ \E k \in Rec(l) : i < k /\ k < j /\ l[k].op \in Program!Unguarded /\ {l[k].owner, l[k].issue} # {Program!None}
  <2>1. Separated(l, i, j) \/ Excused(l, i, j - 1) \/ Same(l[i], l[j])
    BY <1>1, <1>2 DEF PastInv
  <2>2. ~Same(l[i], l[j])
    BY <1>2 DEF Same
  <2>3. CASE Separated(l, i, j)
    BY <2>3 DEF Separated
  <2>4. CASE Excused(l, i, j - 1)
    <3>1. PICK k \in Rec(l) : i < k /\ k <= j - 1 /\ l[k].op \in Program!Unguarded /\ Names(l[k])
      BY <2>4 DEF Excused
    <3>2. k < j
      BY <1>0, <3>1
    <3> QED
      BY <3>1, <3>2 DEF Names
  <2> QED
    BY <2>1, <2>2, <2>3, <2>4
<1>3. \A j \in Rec(l) : l[j].op = "issue-released" => Program!Accepted(l, j)
  BY <1>1 DEF PastInv
<1> DEFINE work == {i \in Rec(l) : l[i].op \in Program!Work}
<1>4. \A i, j \in work : i < j /\ differs(i, j) =>
          \/ \E k, e \in Rec(l) : i <= e /\ e < k /\ k <= j /\ l[e].to = "idle" /\ l[k].op = "issue-acquired"
          \/ \E k \in Rec(l) : i < k /\ k < j /\ l[k].op \in Program!Unguarded /\ {l[k].owner, l[k].issue} # {Program!None}
  <2> HIDE DEF differs
  <2> QED
    BY <1>2, Zenon
<1> QED
  BY <1>3, <1>4, Zenon DEF Program!OneOwnerAtATime, Rec

-----------------------------------------------------------------------------
(* The program state: what pointer and manifest claim.                     *)
LEMMA GreatestAt ==
    ASSUME NEW n \in Nat, NEW t \in SUBSET (1 .. n), t # {}
    PROVE  Program!Max(t) \in t /\ \A y \in t : y <= Program!Max(t)
<1>1. \A u : Program!Max(u) = ReplayFold!Max(u)
  BY DEF Program!Max, ReplayFold!Max
<1> QED
  BY <1>1, ReplayFold!GreatestOf

(* LastOf is the greatest place of that kind, or 0.                         *)
LEMMA LastOfIs ==
    ASSUME NEW S, NEW l \in Seq(S), NEW kind
    PROVE  /\ Program!LastOf(l, kind) \in 0 .. Len(l)
           /\ Program!LastOf(l, kind) # 0 => l[Program!LastOf(l, kind)].kind = kind
           /\ \A i \in 1 .. Len(l) : l[i].kind = kind => i <= Program!LastOf(l, kind)
<1> DEFINE I == {i \in 1 .. Len(l) : l[i].kind = kind}
<1>1. Program!LastOf(l, kind) = IF I # {} THEN Program!Max(I) ELSE 0
  BY DEF Program!LastOf, Program!SelectLastInSeq
<1>2. I # {} => Program!Max(I) \in I /\ \A y \in I : y <= Program!Max(I)
  <2>1. I \in SUBSET (1 .. Len(l)) /\ Len(l) \in Nat
    OBVIOUS
  <2> QED
    BY <2>1, GreatestAt
<1>3. Len(l) \in Nat /\ \A i \in I : i \in 1 .. Len(l) /\ l[i].kind = kind
  OBVIOUS
<1>4. \A i \in 1 .. Len(l) : l[i].kind = kind => i \in I
  OBVIOUS
<1> HIDE DEF I
<1>5. CASE I = {}
  BY <1>1, <1>3, <1>4, <1>5
<1>6. CASE I # {}
  BY <1>1, <1>2, <1>3, <1>4, <1>6
<1> QED
  BY <1>5, <1>6

(* A pointer or manifest older than the receipt is refused.                 *)
LEMMA HalfIsRefused ==
    ASSUME NEW l \in Seq(Writings)
    PROVE  Program!HalfWrittenIsRefused(l)
<1> DEFINE p == Program!LastOf(l, "pointer")
           m == Program!LastOf(l, "manifest")
<1>1. SUFFICES ASSUME Program!PointerOk(l), Program!ManifestOk(l)
               PROVE  /\ p < m
                      /\ \A i \in DOMAIN l : l[i].kind = "receipt" => i < p
                      /\ \A i \in DOMAIN l : l[i].kind = "event" => i < m
                      /\ Program!Projection(SubSeq(l, 1, m)) = Program!Projection(l)
  BY DEF Program!Valid, Program!HalfWrittenIsRefused
<1>2. /\ p \in 1 .. Len(l) /\ m \in 1 .. Len(l) /\ Len(l) \in Nat
      /\ l[p].kind = "pointer" /\ l[m].kind = "manifest"
  BY <1>1, LastOfIs DEF Program!PointerOk, Program!ManifestOk
<1>3. SubSeq(l, 1, p) \in Seq(Writings) /\ SubSeq(l, 1, m) \in Seq(Writings)
      /\ Len(SubSeq(l, 1, p)) = p /\ Len(SubSeq(l, 1, m)) = m
  BY <1>2
<1>4. \A kind : Program!LastOf(SubSeq(l, 1, p), kind) \in 0 .. p /\ Program!LastOf(SubSeq(l, 1, m), kind) \in 0 .. m
  BY <1>3, LastOfIs
<1>5. Program!LastOf(l, "receipt") = Program!LastOf(SubSeq(l, 1, p), "receipt")
  BY <1>1 DEF Program!PointerOk, Program!PointerClaims
<1>6. /\ Program!LastOf(l, "event") = Program!LastOf(SubSeq(l, 1, m), "event")
      /\ p = Program!LastOf(SubSeq(l, 1, m), "pointer")
      /\ Program!Projection(SubSeq(l, 1, m)) = Program!Projection(l)
  BY <1>1 DEF Program!ManifestOk, Program!ManifestClaims
<1>7. ASSUME NEW i \in DOMAIN l, l[i].kind = "receipt" PROVE i < p
  <2>1. i \in 1 .. Len(l) /\ i <= Program!LastOf(l, "receipt")
    BY <1>7, LastOfIs
  <2>2. i # p
    BY <1>2, <1>7
  <2> QED
    BY <1>2, <1>4, <1>5, <2>1, <2>2
<1>8. ASSUME NEW i \in DOMAIN l, l[i].kind = "event" PROVE i < m
  <2>1. i \in 1 .. Len(l) /\ i <= Program!LastOf(l, "event")
    BY <1>8, LastOfIs
  <2>2. i # m
    BY <1>2, <1>8
  <2> QED
    BY <1>2, <1>4, <1>6, <2>1, <2>2
<1>9. p < m
  <2>1. p \in 0 .. m /\ p # m
    BY <1>2, <1>4, <1>6
  <2> QED
    BY <1>2, <2>1
<1> QED
  BY <1>6, <1>7, <1>8, <1>9

(* No issue to be done is the one that means none.                          *)
LEMMA NoneIsNoIssue == Program!None \notin Inventory
BY IdAssumption DEF Program!None

(* The class of a pair is one that an event gave it.                        *)
LEMMA ClassIs ==
    ASSUME NEW l \in Seq(Writings), NEW p, Program!Class(l, p) # "absent"
    PROVE  \E i \in 1 .. Len(l) : l[i].kind = "event" /\ l[i].pair = p /\ Program!Class(l, p) = l[i].class
<1> DEFINE I == {i \in 1 .. Len(l) : l[i].kind = "event" /\ l[i].pair = p}
           last == IF I # {} THEN Program!Max(I) ELSE 0
<1>1. Program!Class(l, p) = IF last = 0 THEN "absent" ELSE l[last].class
  BY DEF Program!Class, Program!SelectLastInSeq
<1>2. last # 0 => last \in I
  <2>1. I \in SUBSET (1 .. Len(l)) /\ Len(l) \in Nat
    OBVIOUS
  <2> HIDE DEF I
  <2> QED
    BY <2>1, GreatestAt
<1> QED
  BY <1>1, <1>2

(* A valid root that says complete is complete.                             *)
LEMMA CompletionIsEarned ==
    ASSUME NEW l \in Seq(Writings), ReplayInv(l), Program!None \notin Inventory
    PROVE  Program!CompleteIsEarned(l)
<1>1. SUFFICES ASSUME Program!Valid(l), Program!Replay(l).view.status = "complete" PROVE Program!CompleteIsEarned(l)
  BY DEF Program!CompleteIsEarned
<1>2. Program!ManifestOk(l) /\ Program!Replay(l).ok /\ Program!CompleteOk(l)
  BY <1>1 DEF Program!Valid
<1>3. ASSUME NEW i \in Inventory
      PROVE  \/ \E a, r \in Program!At(l, "receipt") :
                    /\ a <= r /\ Program!Enters(l, a, i)
                    /\ l[r].op = "issue-released" /\ l[r].issue = i /\ Program!Accepted(l, r)
             \/ \E r \in Program!Closings(l) :
                    i \in l[r].names \/ (l[r].op = "program-completed" /\ l[r].issue = i)
  <2>1. PICK r \in Program!Closings(l) : i \in l[r].names \cup ({l[r].issue} \ {Program!None})
    BY <1>2, <1>3 DEF Program!CompleteOk, Program!Terminal
  <2>2. r \in Rec(l) /\ l[r].op \in {"issue-released", "program-completed"}
    BY <2>1 DEF Program!Closings, Program!Closing, Rec
  <2>3. CASE l[r].op = "issue-released" /\ l[r].issue = i /\ i # Program!None
    <3>1. /\ Program!Accepted(l, r)
          /\ \E a \in Rec(l) : a <= r /\ Program!Enters(l, a, l[r].issue)
      BY <1>2, <2>2, <2>3 DEF ReplayInv, PastInv
    <3> QED
      BY <2>2, <2>3, <3>1 DEF Rec
  <2> QED
    BY <2>1, <2>2, <2>3
<1>4. ASSUME NEW p \in Pairs
      PROVE  Program!Class(l, p) = "none" \/ (p \in Program!External(l) /\ Program!Class(l, p) # "unknown")
  <2>1. PICK i \in 1 .. Len(l) : l[i].kind = "event" /\ l[i].pair = p /\ Program!Class(l, p) = l[i].class
    BY <1>2, ClassIs DEF Program!ManifestOk
  <2>2. Program!Class(l, p) \in {"unknown", "related-blocks-subject"}
    BY <2>1, WrittenShape
  <2>3. [pair |-> p, status |-> Program!Status(Program!Class(l, p), p \in Program!External(l))] \in Program!Projection(l)
    BY <2>1 DEF Program!Projection, Program!At
  <2>4. Program!Status(Program!Class(l, p), p \in Program!External(l)) \notin {"unresolved", "blocking"}
    BY <1>2, <2>3 DEF Program!CompleteOk
  <2>5. Program!Class(l, p) # "unknown"
    BY <2>4 DEF Program!Status
  <2>6. p \in Program!External(l)
    BY <2>2, <2>4, <2>5 DEF Program!Status
  <2> QED
    BY <2>5, <2>6
<1> QED
  BY <1>3, <1>4 DEF Program!CompleteIsEarned

-----------------------------------------------------------------------------
(* The commands, and their logs.                                           *)
ClaimsInv ==
    /\ command \in {"receipts", "program"} =>
           log \in Seq(Writings) /\ ReplayInv(log) /\ DOMAIN Program!Replay(log) = {"ok", "view"}
    /\ command = "activation" => log \in Seq(Evidence!Lines)

(* The empty log is one of any records.                                     *)
LEMMA EmptyLog == \A S : <<>> \in Seq(S)
OBVIOUS

(* A step appends one of the command's records.                            *)
LEMMA StepIs ==
    ASSUME Next
    PROVE  /\ command' = command
           /\ command \in {"receipts", "program"} => \E r \in Writings : log' = Append(log, r)
           /\ command = "activation" => \E r \in Evidence!Lines : log' = Append(log, r)
           /\ command = "charge" => \E r \in Charges!NextRecords(log) : log' = Append(log, r)
           /\ command = "sweep" => \E r \in Sweeps!Records : log' = Append(log, r)
           /\ command = "handoff" => \E r \in Hand!Records : log' = Append(log, r)
           /\ command = "read" => \E r \in Read!Records : log' = Append(log, r)
           /\ command = "windows" => \E r \in NextRecords(log) : log' = Append(log, r)
<1>1. PICK r \in Steps : log' = Append(log, r) /\ command' = command
  BY DEF Next
<1>2. command = "receipts" => r \in Writings
  BY ReceiptAssumption DEF Steps, Program!NextReceipts, Writings
<1>3. command = "program" => r \in Writings
  BY ReceiptAssumption DEF Steps, Program!NextRecords, Writings
<1>4. command = "activation" => r \in Evidence!Lines
  BY DEF Steps
<1>5. command = "charge" => r \in Charges!NextRecords(log)
  BY DEF Steps
<1>6. command = "sweep" => r \in Sweeps!Records
  BY DEF Steps
<1>7. command = "handoff" => r \in Hand!Records
  BY DEF Steps
<1>8. command = "read" => r \in Read!Records
  <2>1. Read!NextRecords(log) \subseteq Read!Records
    BY DEF Read!NextRecords
  <2> QED
    BY <2>1 DEF Steps
<1>9. command = "windows" => r \in NextRecords(log)
  BY DEF Steps
<1> QED
  BY <1>1, <1>2, <1>3, <1>4, <1>5, <1>6, <1>7, <1>8, <1>9

(* It holds at the start.                                                   *)
LEMMA ClaimsInit == Init => ClaimsInv
BY EmptyLog, ReplayInit DEF Init, ClaimsInv

(* Every step keeps it.                                                     *)
LEMMA ClaimsStep == ClaimsInv /\ [Next]_vars => ClaimsInv'
<1> SUFFICES ASSUME ClaimsInv, [Next]_vars PROVE ClaimsInv'
  OBVIOUS
<1>1. CASE Next
  <2>0. command' = command
    BY <1>1, StepIs
  <2>1. ASSUME command \in {"receipts", "program"}
        PROVE  log' \in Seq(Writings) /\ ReplayInv(log') /\ DOMAIN Program!Replay(log') = {"ok", "view"}
    <3>1. PICK r \in Writings : log' = Append(log, r)
      BY <1>1, <2>1, StepIs
    <3>2. log \in Seq(Writings) /\ ReplayInv(log) /\ DOMAIN Program!Replay(log) = {"ok", "view"}
      BY <2>1 DEF ClaimsInv
    <3> QED
      BY <3>1, <3>2, ReplayStep, AppendedAt
  <2>3. ASSUME command = "activation" PROVE log' \in Seq(Evidence!Lines)
    <3>1. PICK r \in Evidence!Lines : log' = Append(log, r)
      BY <1>1, <2>3, StepIs
    <3>2. log \in Seq(Evidence!Lines)
      BY <2>3 DEF ClaimsInv
    <3> QED
      BY <3>1, <3>2, AppendedAt
  <2>4. ReplayInv(log)' = ReplayInv(log') /\ (DOMAIN Program!Replay(log))' = DOMAIN Program!Replay(log')
    BY DEF ReplayInv
  <2> QED
    BY <2>0, <2>1, <2>3, <2>4 DEF ClaimsInv
<1>2. CASE UNCHANGED vars
  BY <1>2 DEF vars, ClaimsInv, ReplayInv
<1> QED
  BY <1>1, <1>2

(* It implies what is claimed.                                              *)
LEMMA ClaimsHold == ClaimsInv => ClaimsAreEarned
<1> SUFFICES ASSUME ClaimsInv PROVE ClaimsAreEarned
  OBVIOUS
<1>1. command = "receipts" => Program!OneOwnerAtATime(log)
  BY ReceiptsPromise DEF ClaimsInv
<1>2. command = "program" => Program!CompleteIsEarned(log) /\ Program!HalfWrittenIsRefused(log)
  BY CompletionIsEarned, HalfIsRefused, NoneIsNoIssue DEF ClaimsInv
<1>3. command = "activation" => Evidence!ProofIsBound(log)
  BY ActivationIsBound DEF ClaimsInv
<1>4. command = "evidence" => Evidence!FailureIsNoPrerequisite(log)
  BY FailureSaysMore
<1> QED
  BY <1>1, <1>2, <1>3, <1>4 DEF ClaimsAreEarned

(* What is claimed is earned: however many receipts, events, pieces of      *)
(* evidence and lines of output there are.                                  *)
THEOREM ClaimsEarned == Spec => []ClaimsAreEarned
<1>1. Spec => []ClaimsInv
  BY ClaimsInit, ClaimsStep, PTL DEF Spec
<1> QED
  BY <1>1, ClaimsHold, PTL

-----------------------------------------------------------------------------
(* The budget, and its log.                                                *)
LEMMA ChargeStep ==
    ASSUME NEW l \in Seq(Calls), BudgetInv(Charges!After(l)), NEW r \in Charges!NextRecords(l)
    PROVE  Append(l, r) \in Seq(Calls) /\ BudgetInv(Charges!After(Append(l, r)))
<1>1. Charges!After(l).open \in SUBSET Sources
  BY DEF BudgetInv, Budgets
<1>2. \A c \in Charges!Charges : c \in Counters
  BY DEF Charges!Charges, Counters
<1>3. \A n \in 1 .. Cap : n \in Nat
  BY CeilingAssumption
<1>4. r \in Calls
  BY <1>1, <1>2, <1>3 DEF Charges!NextRecords, Calls
<1> QED
  BY <1>4, AfterAppend, CallKeeps

(* A fresh budget is as it should be.                                       *)
LEMMA ChargeInit == BudgetInv(Charges!After(<<>>))
<1>1. 0 <= Cap
  BY CeilingAssumption
<1> QED
  BY <1>1, AfterEmpty DEF BudgetInv, Budgets, Balanced, Charges!Plus, Charges!Fresh, Charges!Zero, Charges!Within, Counters

-----------------------------------------------------------------------------
(* The sweeps.                                                             *)

(* Cardinality is the same operator in every module.                        *)
LEMMA SweepCardinality == \A T : Sweeps!Cardinality(T) = Cardinality(T)
BY DEF Sweeps!Cardinality, Cardinality

(* Of no more rows than the ceiling the newest are all.                    *)
LEMMA NewestIsAll ==
    ASSUME NEW rows, IsFiniteSet(rows), NEW n \in Nat, Cardinality(rows) <= n, \A r \in rows : r.time \in Int
    PROVE  Sweeps!Newest(rows, n) = rows
<1>1. ASSUME NEW r \in rows PROVE Cardinality({o \in rows : o.time > r.time}) < n
  <2> DEFINE T == {o \in rows : o.time > r.time}
  <2>1. T \in SUBSET rows /\ T # rows
    <3>1. r \notin T
      BY <1>1
    <3> QED
      BY <3>1
  <2>2. IsFiniteSet(T) /\ Cardinality(T) <= Cardinality(rows) /\ Cardinality(T) # Cardinality(rows)
    BY <2>1, FS_Subset
  <2>3. Cardinality(T) \in Nat /\ Cardinality(rows) \in Nat
    BY <2>2, FS_CardinalityType
  <2> HIDE DEF T
  <2>4. Cardinality(T) < n
    BY <2>2, <2>3
  <2> QED
    BY <2>4 DEF T
<1> QED
  BY <1>1, SweepCardinality DEF Sweeps!Newest

(* The last write of a session.                                            *)
Writes(l, source, id) == {i \in 1 .. Len(l) : l[i].kind = "write" /\ l[i].source = source /\ l[i].id = id}
LastWrite(l, source, id) == IF Writes(l, source, id) # {} THEN Sweeps!Max(Writes(l, source, id)) ELSE 0
RowOf(l, source, id) ==
    [source |-> source, id |-> id, time |-> LastWrite(l, source, id), said |-> l[LastWrite(l, source, id)].said,
     recent |-> l[LastWrite(l, source, id)].recent, torn |-> l[LastWrite(l, source, id)].torn]

(* The rows of a source are its last writes.                                *)
LEMMA RowsAre ==
    \A l, source : Sweeps!Rows(l, source) = {RowOf(l, source, i) : i \in {j \in SessionIds : LastWrite(l, source, j) # 0}}
BY DEF Sweeps!Rows, RowOf, LastWrite, Writes, Sweeps!SelectLastInSeq

(* The greatest of some numbers is one of them.                             *)
LEMMA SweepGreatest ==
    ASSUME NEW n \in Nat, NEW t \in SUBSET (1 .. n), t # {}
    PROVE  Sweeps!Max(t) \in t /\ \A y \in t : y <= Sweeps!Max(t)
<1>1. \A u : Sweeps!Max(u) = ReplayFold!Max(u)
  BY DEF Sweeps!Max, ReplayFold!Max
<1> QED
  BY <1>1, ReplayFold!GreatestOf

(* The last write is a write.                                               *)
LEMMA LastWriteIs ==
    ASSUME NEW S, NEW l \in Seq(S), NEW source, NEW id
    PROVE  LastWrite(l, source, id) \in Int
           /\ (LastWrite(l, source, id) # 0 => LastWrite(l, source, id) \in Writes(l, source, id))
<1>1. Writes(l, source, id) \in SUBSET (1 .. Len(l)) /\ Len(l) \in Nat
  BY DEF Writes
<1>2. Writes(l, source, id) # {} => Sweeps!Max(Writes(l, source, id)) \in Writes(l, source, id)
  BY <1>1, SweepGreatest
<1>3. Writes(l, source, id) \in SUBSET Int
  BY <1>1
<1> QED
  BY <1>2, <1>3 DEF LastWrite

(* A source has finitely many rows.                                         *)
LEMMA RowsFinite ==
    ASSUME NEW S, NEW l \in Seq(S), NEW source
    PROVE  IsFiniteSet(Sweeps!Rows(l, source)) /\ \A r \in Sweeps!Rows(l, source) : r.time \in Int
<1> DEFINE J == {j \in SessionIds : LastWrite(l, source, j) # 0}
<1>1. IsFiniteSet(J)
  BY IdAssumption, FS_Subset, J \in SUBSET SessionIds
<1>2. IsFiniteSet({RowOf(l, source, i) : i \in J})
  <2> DEFINE T == {RowOf(l, source, i) : i \in J}
             f == [i \in J |-> RowOf(l, source, i)]
  <2>1. f \in Surjection(J, T)
    BY DEF Surjection
  <2> QED
    BY <1>1, <2>1, FS_Surjection
<1>3. \A i \in J : RowOf(l, source, i).time \in Int
  BY LastWriteIs DEF RowOf
<1> QED
  BY <1>2, <1>3, RowsAre

(* The last trouble of a store is one of the troubles.                     *)
Ills(l, source) == {i \in 1 .. Len(l) : l[i].kind = "trouble" /\ l[i].source = source}

(* The trouble of a source is one that it met, or none.                     *)
LEMMA TroubleIs ==
    ASSUME NEW l \in Seq(Sweeps!Records), NEW source
    PROVE  Sweeps!Trouble(l, source) \in Sweeps!Troubles \cup {"none"}
<1> DEFINE last == IF Ills(l, source) # {} THEN Sweeps!Max(Ills(l, source)) ELSE 0
<1>1. Sweeps!Trouble(l, source) = IF last = 0 THEN "none" ELSE l[last].what
  BY DEF Sweeps!Trouble, Ills, Sweeps!SelectLastInSeq
<1>2. Ills(l, source) \in SUBSET (1 .. Len(l)) /\ Len(l) \in Nat
  BY DEF Ills
<1>3. last # 0 => last \in Ills(l, source)
  BY <1>2, SweepGreatest
<1>4. \A r \in Sweeps!Records : r.kind = "trouble" => r.what \in Sweeps!Troubles
  BY DEF Sweeps!Records
<1>5. last # 0 => l[last].what \in Sweeps!Troubles
  BY <1>3, <1>4 DEF Ills
<1> QED
  BY <1>1, <1>5

(* A source is supported exactly when it has no trouble.                    *)
LEMMA StateIs ==
    ASSUME NEW l \in Seq(Sweeps!Records), NEW source
    PROVE  Sweeps!ListState(Sweeps!Trouble(l, source)) = "supported" <=> Sweeps!Trouble(l, source) = "none"
BY TroubleIs DEF Sweeps!ListState, Sweeps!ProbeSourceRow, Sweeps!Troubles

(* A source that fails takes no other one's sessions with it.               *)
LEMMA FailuresIsolated ==
    ASSUME NEW l \in Seq(Sweeps!Records)
    PROVE  Sweeps!FailuresAreIsolated(l)
<1> DEFINE failing == {s \in Sources : Sweeps!Trouble(l, s) # "none"}
           held == [i \in DOMAIN l |-> IF l[i].kind = "trouble" \/ l[i].source \in failing THEN Sweeps!Nothing ELSE l[i]]
           fine == {t \in Sources : Sweeps!ListState(Sweeps!Trouble(l, t)) = "supported"}
           still == {t \in Sources : Sweeps!ListState(Sweeps!Trouble(held, t)) = "supported"}
<1>1. fine = Sources \ failing
  BY StateIs
<1>2. Len(held) = Len(l) /\ DOMAIN held = 1 .. Len(l)
  OBVIOUS
<1>3. \A i \in 1 .. Len(l) : held[i] = IF l[i].kind = "trouble" \/ l[i].source \in failing THEN Sweeps!Nothing ELSE l[i]
  OBVIOUS
<1> HIDE DEF held, failing
<1>4. still = Sources
  <2>1. ASSUME NEW s PROVE Ills(held, s) = {}
    BY <1>2, <1>3 DEF Ills, Sweeps!Nothing
  <2>2. \A s : Sweeps!Trouble(held, s) = "none"
    BY <2>1 DEF Sweeps!Trouble, Ills, Sweeps!SelectLastInSeq
  <2> QED
    BY <2>2 DEF Sweeps!ListState, Sweeps!ProbeSourceRow
<1>5. ASSUME NEW s \in failing PROVE Sweeps!Rows(held, s) = {}
  <2>1. \A id : Writes(held, s, id) = {}
    BY <1>2, <1>3, <1>5 DEF Writes, Sweeps!Nothing
  <2> QED
    BY <2>1, RowsAre DEF LastWrite
<1>6. ASSUME NEW s \in Sources \ failing PROVE Sweeps!Rows(held, s) = Sweeps!Rows(l, s)
  <2>1. \A id : Writes(held, s, id) = Writes(l, s, id)
    BY <1>2, <1>3, <1>6 DEF Writes, Sweeps!Nothing
  <2>2. \A id : LastWrite(held, s, id) = LastWrite(l, s, id)
    BY <2>1 DEF LastWrite
  <2>3. ASSUME NEW id, LastWrite(l, s, id) # 0 PROVE held[LastWrite(l, s, id)] = l[LastWrite(l, s, id)]
    <3>1. LastWrite(l, s, id) \in Writes(l, s, id)
      BY <2>3, LastWriteIs
    <3>2. \A i \in Writes(l, s, id) : i \in 1 .. Len(l) /\ l[i].kind = "write" /\ l[i].source = s
      BY DEF Writes
    <3> QED
      BY <1>3, <1>6, <3>1, <3>2
  <2>4. \A id : LastWrite(l, s, id) # 0 => RowOf(held, s, id) = RowOf(l, s, id)
    BY <2>2, <2>3 DEF RowOf
  <2> QED
    BY <2>2, <2>4, RowsAre
<1>7. UNION {Sweeps!Rows(held, s) : s \in Sources} = UNION {Sweeps!Rows(l, s) : s \in fine}
  BY <1>1, <1>5, <1>6, failing \in SUBSET Sources DEF failing
<1>8. Sweeps!DiscoverReport(l).candidates = Sweeps!Newest(UNION {Sweeps!Rows(l, s) : s \in fine}, Cap)
  BY DEF Sweeps!DiscoverReport
<1>9. Sweeps!DiscoverReport(held).candidates = Sweeps!Newest(UNION {Sweeps!Rows(held, s) : s \in Sources}, Cap)
  BY <1>4 DEF Sweeps!DiscoverReport
<1>10. {s \in Sources : Sweeps!DiscoverReport(l).states[s] # "supported"} = failing
  BY <1>1 DEF Sweeps!DiscoverReport, failing
<1>11. Sweeps!DiscoverReport(l).candidates = Sweeps!DiscoverReport(held).candidates
  BY <1>7, <1>8, <1>9
<1> QED
  BY <1>10, <1>11 DEF Sweeps!FailuresAreIsolated, held, failing

(* A search shows what matches, the newest if there are too many.           *)
LEMMA SearchFinds ==
    ASSUME NEW l \in Seq(Sweeps!Records)
    PROVE  Sweeps!SearchFindsAll(l)
<1> DEFINE fine == {t \in Sources : Sweeps!ListState(Sweeps!Trouble(l, t)) = "supported"}
           one == [s \in fine |-> Sweeps!SearchOne(Sweeps!Rows(l, s))]
           hits == UNION {one[s].hits : s \in DOMAIN one}
           found == UNION {{r \in Sweeps!Rows(l, s) : r.recent /\ ~r.torn /\ r.said} : s \in Sources}
           report == Sweeps!SearchReport(l)
<1>1. report.hits = Sweeps!Newest(hits, Cap)
      /\ report.truncated = ((\E s \in DOMAIN one : one[s].truncated) \/ Cardinality(hits) > Cap)
      /\ report.states = [s \in Sources |-> Sweeps!ListState(Sweeps!Trouble(l, s))]
  BY SweepCardinality DEF Sweeps!SearchReport
<1>2. SUFFICES ASSUME ~report.truncated, \A s \in Sources : report.states[s] = "supported"
               PROVE  report.hits = {r \in UNION {Sweeps!Rows(l, s) : s \in Sources} : r.said /\ r.recent /\ ~r.torn}
  BY DEF Sweeps!SearchFindsAll
<1>3. fine = Sources
  BY <1>1, <1>2
<1>4. ASSUME NEW s \in Sources
      PROVE  one[s].hits = {r \in Sweeps!Rows(l, s) : r.recent /\ ~r.torn /\ r.said}
  <2> DEFINE rows == Sweeps!Rows(l, s)
             recent == {r \in rows : r.recent}
  <2>1. ~one[s].truncated /\ one[s] = Sweeps!SearchOne(rows)
    <3>1. s \in DOMAIN one /\ one[s] = Sweeps!SearchOne(rows)
      BY <1>3
    <3> HIDE DEF one
    <3> QED
      BY <1>1, <1>2, <3>1
  <2>2. ~(Cardinality(rows) > Cap)
    <3>1. Sweeps!SearchOne(rows).truncated = (Sweeps!Cardinality(rows) > Cap)
      BY DEF Sweeps!SearchOne
    <3>2. ~Sweeps!SearchOne(rows).truncated
      <4> HIDE DEF one
      <4> QED
        BY <2>1
    <3> HIDE DEF rows
    <3> QED
      BY <3>1, <3>2, SweepCardinality
  <2>3. IsFiniteSet(rows) /\ \A r \in rows : r.time \in Int
    BY RowsFinite
  <2>4. /\ IsFiniteSet(recent) /\ Cardinality(recent) <= Cardinality(rows)
        /\ Cardinality(recent) \in Nat /\ Cardinality(rows) \in Nat
    BY <2>3, FS_Subset, FS_CardinalityType, recent \in SUBSET rows
  <2>5. Cap \in Nat /\ Cardinality(recent) <= Cap /\ \A r \in recent : r.time \in Int
    BY <2>2, <2>3, <2>4, CeilingAssumption
  <2>6. Sweeps!Newest(recent, Cap) = recent
    <3> HIDE DEF recent
    <3> QED
      BY <2>4, <2>5, NewestIsAll
  <2>7. Sweeps!SearchOne(rows).hits = {r \in Sweeps!Newest(recent, Cap) : ~r.torn /\ r.said}
    BY DEF Sweeps!SearchOne
  <2>8. {r \in recent : ~r.torn /\ r.said} = {r \in rows : r.recent /\ ~r.torn /\ r.said}
    OBVIOUS
  <2> QED
    BY <2>1, <2>6, <2>7, <2>8
<1>5. hits = found
  BY <1>3, <1>4, ZenonT(60)
<1>6. IsFiniteSet(found) /\ \A r \in found : r.time \in Int
  <2> DEFINE part(s) == {r \in Sweeps!Rows(l, s) : r.recent /\ ~r.torn /\ r.said}
             parts == {part(s) : s \in Sources}
             f == [s \in Sources |-> part(s)]
  <2>1. f \in Surjection(Sources, parts)
    BY DEF Surjection
  <2>2. IsFiniteSet(parts)
    BY <2>1, FS_Surjection, IdAssumption
  <2>3. ASSUME NEW s \in Sources PROVE IsFiniteSet(part(s)) /\ \A r \in part(s) : r.time \in Int
    BY RowsFinite, FS_Subset, part(s) \in SUBSET Sweeps!Rows(l, s)
  <2>4. \A T \in parts : IsFiniteSet(T)
    BY <2>3
  <2>5. IsFiniteSet(UNION parts)
    BY <2>2, <2>4, FS_UNION
  <2> QED
    BY <2>3, <2>5
<1>7. Cardinality(hits) <= Cap /\ Cap \in Nat
  <2>1. ~(Cardinality(hits) > Cap)
    BY <1>1, <1>2
  <2>2. Cardinality(hits) \in Nat
    BY <1>5, <1>6, FS_CardinalityType
  <2> QED
    BY <2>1, <2>2, CeilingAssumption
<1>8. Sweeps!Newest(found, Cap) = found
  <2> HIDE DEF found, hits
  <2> QED
    BY <1>5, <1>6, <1>7, NewestIsAll
<1>9. found = {r \in UNION {Sweeps!Rows(l, s) : s \in Sources} : r.said /\ r.recent /\ ~r.torn}
  OBVIOUS
<1> QED
  BY <1>1, <1>5, <1>8, <1>9

-----------------------------------------------------------------------------
(* The handoff: what sanitize_session keeps.                               *)
TurnFold == INSTANCE FoldLemmas WITH Op <- Hand!TakeTurn
CostFold == INSTANCE FoldLemmas WITH Op <- Hand!AddBlock
HalveFold == INSTANCE FoldLemmas WITH Op <- Hand!Halve

(* The folds of a handoff are those of its operators.                       *)
LEMMA HandFolds ==
    /\ \A b, l : Hand!FoldLeft(Hand!TakeTurn, b, l) = TurnFold!Fold(b, l)
    /\ \A l : Hand!Cost(l) = CostFold!Fold(0, l)
    /\ \A b, l : Hand!FoldLeft(Hand!Halve, b, l) = HalveFold!Fold(b, l)
<1>1. \A b, l : Hand!FoldLeft(Hand!TakeTurn, b, l) = TurnFold!Fold(b, l)
  BY DEF TurnFold!Fold, TurnFold!Unfolds, Hand!FoldLeft, Hand!MapThenFoldSet, Hand!Max, TurnFold!Max
<1>2. \A l : Hand!Cost(l) = CostFold!Fold(0, l)
  BY DEF Hand!Cost, CostFold!Fold, CostFold!Unfolds, Hand!FoldLeft, Hand!MapThenFoldSet, Hand!Max, CostFold!Max
<1>3. \A b, l : Hand!FoldLeft(Hand!Halve, b, l) = HalveFold!Fold(b, l)
  BY DEF HalveFold!Fold, HalveFold!Unfolds, Hand!FoldLeft, Hand!MapThenFoldSet, Hand!Max, HalveFold!Max
<1> QED
  BY <1>1, <1>2, <1>3

TurnRecords == [role : {"user", "assistant", "tool", "system"}, size : Nat]
SaneTurns == [role : {"user", "assistant", "tool", "system"}, size : Nat, truncated : BOOLEAN]

(* After k turns of the log: unless one was left out all are there, and    *)
(* unless it warned each of them whole.                                    *)
SaneInv(s, l, k) ==
    /\ s \in [total : 0 .. Content, turns : Seq(SaneTurns), warned : BOOLEAN]
    /\ Len(s.turns) <= k
    /\ Len(s.turns) = k => \A i \in 1 .. k : /\ s.turns[i].role = l[i].role
                                             /\ ~s.warned => s.turns[i].size = l[i].size

(* TakeTurn keeps the turns sane.                                           *)
LEMMA TurnTaken ==
    ASSUME NEW l \in Seq(TurnRecords), NEW k \in 0 .. Len(l) - 1, NEW s, SaneInv(s, l, k)
    PROVE  SaneInv(Hand!TakeTurn(s, l[k + 1]), l, k + 1)
<1> DEFINE t == l[k + 1]
<1>1. t \in TurnRecords /\ k \in Nat /\ k + 1 \in 1 .. Len(l)
  OBVIOUS
<1>2. /\ s \in [total : 0 .. Content, turns : Seq(SaneTurns), warned : BOOLEAN]
      /\ s.turns \in Seq(SaneTurns) /\ Len(s.turns) \in Nat /\ Len(s.turns) <= k /\ Content \in Nat /\ ToolOutput \in Nat
  BY CeilingAssumption DEF SaneInv
<1> HIDE DEF t
<1>3. CASE s.total >= Content \/ t.role = "system"
  <2>1. Hand!TakeTurn(s, t) = s
    BY <1>3 DEF Hand!TakeTurn
  <2>2. Len(s.turns) <= k + 1 /\ Len(s.turns) # k + 1
    BY <1>1, <1>2, SMTT(30)
  <2> QED
    BY <1>2, <2>1, <2>2 DEF SaneInv, t
<1>4. CASE ~(s.total >= Content \/ t.role = "system")
  <2> DEFINE cleaned == IF t.role = "tool" THEN Hand!Least(t.size, ToolOutput) ELSE t.size
             kept == Hand!Least(cleaned, Content - s.total)
             e == [role |-> t.role, size |-> kept, truncated |-> kept < t.size]
  <2>1. t.size \in Nat /\ s.total \in 0 .. Content /\ s.total < Content
    BY <1>1, <1>2, <1>4 DEF TurnRecords
  <2>2. cleaned \in Nat /\ cleaned <= t.size
    BY <1>2, <2>1 DEF Hand!Least
  <2>3. kept \in Nat /\ kept <= cleaned /\ kept <= Content - s.total
    BY <1>2, <2>1, <2>2 DEF Hand!Least
  <2>4. Hand!TakeTurn(s, t) = [s EXCEPT !.total = @ + kept, !.warned = @ \/ kept < t.size, !.turns = Append(@, e)]
    BY <1>4 DEF Hand!TakeTurn
  <2> HIDE DEF kept, cleaned
  <2>5. e \in SaneTurns
    BY <1>1, <2>3 DEF SaneTurns, TurnRecords
  <2>6. s.total + kept \in 0 .. Content
    BY <1>2, <2>1, <2>3
  <2>7. /\ Append(s.turns, e) \in Seq(SaneTurns) /\ Len(Append(s.turns, e)) = Len(s.turns) + 1
        /\ Append(s.turns, e)[Len(s.turns) + 1] = e /\ \A i \in 1 .. Len(s.turns) : Append(s.turns, e)[i] = s.turns[i]
    BY <1>2, <2>5, AppendedAt
  <2> DEFINE w == Hand!TakeTurn(s, t)
  <2>8. w.total = s.total + kept /\ w.warned = (s.warned \/ kept < t.size) /\ w.turns = Append(s.turns, e)
        /\ w \in [total : 0 .. Content, turns : Seq(SaneTurns), warned : BOOLEAN]
    BY <1>2, <2>4, <2>6, <2>7
  <2> HIDE DEF w
  <2>9. ASSUME Len(w.turns) = k + 1, NEW i \in 1 .. k + 1
        PROVE  w.turns[i].role = l[i].role /\ (~w.warned => w.turns[i].size = l[i].size)
    <3>1. Len(s.turns) = k
      BY <1>1, <1>2, <2>7, <2>8, <2>9
    <3>2. CASE i = k + 1
      <4>1. w.turns[i] = e /\ l[i] = t
        BY <2>7, <2>8, <3>1, <3>2 DEF t
      <4>2. ~w.warned => kept = t.size
        BY <2>1, <2>2, <2>3, <2>8, SMTT(30)
      <4> QED
        BY <4>1, <4>2
    <3>3. CASE i # k + 1
      <4>1. i \in 1 .. k /\ w.turns[i] = s.turns[i]
        BY <1>1, <2>7, <2>8, <3>1, <3>3
      <4> QED
        BY <2>8, <3>1, <4>1 DEF SaneInv
    <3> QED
      BY <3>2, <3>3
  <2>10. Len(w.turns) <= k + 1
    BY <1>1, <1>2, <2>7, <2>8
  <2> QED
    BY <2>8, <2>9, <2>10 DEF SaneInv, w, t
<1> QED
  BY <1>3, <1>4

(* The greatest of some places is one of them.                              *)
LEMMA HandGreatest ==
    ASSUME NEW n \in Nat, NEW t \in SUBSET (1 .. n), t # {}
    PROVE  Hand!Max(t) \in t
<1>1. \A u : Hand!Max(u) = ReplayFold!Max(u)
  BY DEF Hand!Max, ReplayFold!Max
<1> QED
  BY <1>1, ReplayFold!GreatestOf

(* The size of the last turn of some roles is a number.                     *)
LEMMA SizeIs ==
    ASSUME NEW l \in Seq(TurnRecords), NEW roles
    PROVE  Hand!SizeOf(l, roles) \in Nat
<1> DEFINE I == {i \in 1 .. Len(l) : l[i].role \in roles}
           last == IF I # {} THEN Hand!Max(I) ELSE 0
<1>1. Hand!SizeOf(l, roles) = IF last = 0 THEN 0 ELSE l[last].size
  BY DEF Hand!SizeOf, Hand!LastOf, Hand!SelectLastInSeq
<1>2. I \in SUBSET (1 .. Len(l)) /\ Len(l) \in Nat
  OBVIOUS
<1>3. last # 0 => last \in I
  BY <1>2, HandGreatest
<1>4. \A i \in I : i \in 1 .. Len(l)
  OBVIOUS
<1>5. \A i \in 1 .. Len(l) : l[i] \in TurnRecords
  OBVIOUS
<1>6. \A r \in TurnRecords : r.size \in Nat
  BY DEF TurnRecords
<1> HIDE DEF I
<1>7. last # 0 => l[last].size \in Nat
  BY <1>3, <1>4, <1>5, <1>6
<1> HIDE DEF last
<1> QED
  BY <1>1, <1>7

(* What the sanitiser hands on.                                             *)
SaneSession(session, l) ==
    /\ session.turns \in Seq(SaneTurns) /\ session.user \in Nat /\ session.assistant \in Nat /\ session.warned \in BOOLEAN
    /\ ~session.warned => /\ Len(session.turns) = Len(l)
                          /\ \A i \in 1 .. Len(l) : session.turns[i].role = l[i].role /\ session.turns[i].size = l[i].size

(* It does so for any turns.                                                *)
LEMMA SanitizedIs ==
    ASSUME NEW l \in Seq(TurnRecords)
    PROVE  SaneSession(Hand!SanitizeSession(l), l)
<1> DEFINE user == Hand!Least(Hand!SizeOf(l, {"user"}), Content)
           assistant == Hand!Least(Hand!SizeOf(l, {"assistant"}), Content - user)
           b == [total |-> user + assistant, turns |-> <<>>, warned |-> FALSE]
           m == Hand!Least(Turns, Len(l))
           t == SubSeq(l, 1, m)
           state(k) == TurnFold!Fold(b, SubSeq(t, 1, k))
           session == Hand!SanitizeSession(l)
<1>0. Len(l) \in Nat /\ Content \in Nat /\ Turns \in Nat
  BY CeilingAssumption
<1>1. m \in 0 .. Len(l) /\ m \in Nat
  BY <1>0 DEF Hand!Least
<1>2. user \in 0 .. Content /\ assistant \in 0 .. Content - user
  BY <1>0, SizeIs DEF Hand!Least
<1>3. user + assistant \in 0 .. Content
  BY <1>0, <1>2
<1> HIDE DEF m, user, assistant
<1>4. t \in Seq(TurnRecords) /\ Len(t) = m /\ \A i \in 1 .. m : t[i] = l[i]
  BY <1>0, <1>1
<1> HIDE DEF t
<1>p. /\ state(0) = b /\ state(m) = TurnFold!Fold(b, t)
      /\ \A k \in 0 .. m - 1 : state(k + 1) = Hand!TakeTurn(state(k), t[k + 1])
  <2> HIDE DEF b
  <2>1. /\ TurnFold!Fold(b, SubSeq(t, 1, 0)) = b
        /\ TurnFold!Fold(b, SubSeq(t, 1, Len(t))) = TurnFold!Fold(b, t)
        /\ \A k \in 0 .. Len(t) - 1 :
              TurnFold!Fold(b, SubSeq(t, 1, k + 1)) = Hand!TakeTurn(TurnFold!Fold(b, SubSeq(t, 1, k)), t[k + 1])
    BY <1>4, TurnFold!FoldPrefix, ZenonT(60)
  <2> QED
    BY <1>4, <2>1
<1>b. SaneInv(b, l, 0)
  BY <1>3 DEF SaneInv
<1> HIDE DEF state, b
<1>5. SaneInv(state(0), l, 0)
  BY <1>p, <1>b
<1> DEFINE T == {k \in Nat : k <= m => SaneInv(state(k), l, k)}
<1>6. ASSUME NEW k \in T PROVE k + 1 \in T
  <2>1. ASSUME k + 1 <= m PROVE SaneInv(state(k + 1), l, k + 1)
    <3>1. k \in 0 .. m - 1 /\ k \in 0 .. Len(l) - 1 /\ k <= m /\ k + 1 \in 1 .. m
      BY <1>0, <1>1, <2>1
    <3>2. state(k + 1) = Hand!TakeTurn(state(k), t[k + 1])
      BY <1>p, <3>1
    <3>3. t[k + 1] = l[k + 1] /\ SaneInv(state(k), l, k)
      BY <1>4, <3>1
    <3> QED
      BY <3>1, <3>2, <3>3, TurnTaken
  <2>2. k + 1 \in Nat
    OBVIOUS
  <2> QED
    BY <2>1, <2>2
<1>7. T = Nat
  <2>1. 0 \in T /\ T \in SUBSET Nat
    BY <1>5
  <2> HIDE DEF T
  <2> QED
    BY <1>6, <2>1, TurnFold!InductionOverSet
<1>8. SaneInv(TurnFold!Fold(b, t), l, m)
  <2>1. SaneInv(state(m), l, m)
    BY <1>1, <1>7
  <2>2. state(m) = TurnFold!Fold(b, t)
    BY <1>p
  <2> QED
    BY <2>1, <2>2
<1>9. PICK s : s = TurnFold!Fold(b, t)
  OBVIOUS
<1>10. /\ session.turns = s.turns /\ session.user = user /\ session.assistant = assistant
       /\ session.warned = (s.warned \/ Len(l) > Len(s.turns)
                              \/ user + assistant < Hand!SizeOf(l, {"user"}) + Hand!SizeOf(l, {"assistant"}))
  <2>1. s = Hand!FoldLeft(Hand!TakeTurn, b, t)
    BY <1>9, HandFolds
  <2> QED
    BY <2>1 DEF Hand!SanitizeSession, user, assistant, t, m, b
<1>11. SaneInv(s, l, m)
  BY <1>8, <1>9
<1>12. s.turns \in Seq(SaneTurns) /\ Len(s.turns) \in Nat /\ Len(s.turns) <= m /\ s.warned \in BOOLEAN
  BY <1>11 DEF SaneInv
<1> HIDE DEF session
<1>13. ASSUME ~session.warned
       PROVE  Len(s.turns) = Len(l) /\ \A i \in 1 .. Len(l) : s.turns[i].role = l[i].role /\ s.turns[i].size = l[i].size
  <2>1. ~s.warned /\ ~(Len(l) > Len(s.turns))
    BY <1>10, <1>13
  <2>2. m = Len(l) /\ Len(s.turns) = m
    BY <1>0, <1>1, <1>12, <2>1
  <2> QED
    BY <1>11, <2>1, <2>2 DEF SaneInv
<1>14. session.user \in Nat /\ session.assistant \in Nat /\ session.warned \in BOOLEAN
  BY <1>0, <1>2, <1>10, <1>12
<1> QED
  BY <1>10, <1>12, <1>13, <1>14 DEF SaneSession, session

-----------------------------------------------------------------------------
(* The handoff: what its turns cost.                                       *)
Upto(ts, k) == CostFold!Fold(0, SubSeq(ts, 1, k))

(* A block is a heading and a line of text at least.                        *)
LEMMA BlockCosts ==
    \A t \in SaneTurns : Hand!Block(t) \in Nat /\ Hand!Block(t) >= 2
BY DEF SaneTurns, Hand!Block, Hand!Quote

(* The first k turns cost as much as one less and the next one.             *)
LEMMA UptoSteps ==
    ASSUME NEW ts \in Seq(SaneTurns)
    PROVE  /\ Upto(ts, 0) = 0
           /\ \A k \in 0 .. Len(ts) - 1 : Upto(ts, k + 1) = Upto(ts, k) + 1 + Hand!Block(ts[k + 1])
BY CostFold!FoldPrefix DEF Upto, Hand!AddBlock

(* A turn costs three lines at least.                                      *)
LEMMA UptoGrows ==
    ASSUME NEW ts \in Seq(SaneTurns)
    PROVE  \A k \in 0 .. Len(ts) : Upto(ts, k) \in Nat /\ \A i \in 0 .. k - 1 : Upto(ts, i) \in Nat /\ Upto(ts, k) >= Upto(ts, i) + 3
<1> DEFINE T == {k \in Nat : k <= Len(ts) => Upto(ts, k) \in Nat /\ \A i \in 0 .. k - 1 : Upto(ts, i) \in Nat /\ Upto(ts, k) >= Upto(ts, i) + 3}
<1>1. 0 \in T
  BY UptoSteps, \A i \in 0 .. 0 - 1 : FALSE
<1>2. ASSUME NEW k \in T PROVE k + 1 \in T
  <2>1. ASSUME k + 1 <= Len(ts) PROVE Upto(ts, k + 1) \in Nat /\ \A i \in 0 .. k : Upto(ts, i) \in Nat /\ Upto(ts, k + 1) >= Upto(ts, i) + 3
    <3>1. k \in Nat /\ Len(ts) \in Nat /\ k \in 0 .. Len(ts) - 1 /\ k <= Len(ts)
      BY <2>1
    <3>2. Upto(ts, k) \in Nat /\ \A i \in 0 .. k - 1 : Upto(ts, i) \in Nat /\ Upto(ts, k) >= Upto(ts, i) + 3
      BY <3>1
    <3>3. ts[k + 1] \in SaneTurns
      BY <3>1
    <3>4. Upto(ts, k + 1) = Upto(ts, k) + 1 + Hand!Block(ts[k + 1]) /\ Hand!Block(ts[k + 1]) \in Nat /\ Hand!Block(ts[k + 1]) >= 2
      BY <3>1, <3>3, UptoSteps, BlockCosts
    <3>5. Upto(ts, k + 1) \in Nat /\ Upto(ts, k + 1) >= Upto(ts, k) + 3
      BY <3>2, <3>4
    <3>6. ASSUME NEW i \in 0 .. k PROVE Upto(ts, i) \in Nat /\ Upto(ts, k + 1) >= Upto(ts, i) + 3
      <4>1. CASE i = k
        BY <3>2, <3>5, <4>1
      <4>2. CASE i # k
        <5>1. Upto(ts, i) \in Nat /\ Upto(ts, k) >= Upto(ts, i) + 3
          BY <3>1, <3>2, <4>2
        <5> QED
          BY <3>2, <3>5, <5>1
      <4> QED
        BY <4>1, <4>2
    <3> QED
      BY <3>5, <3>6
  <2>2. k + 1 \in Nat /\ k + 1 - 1 = k
    OBVIOUS
  <2> QED
    BY <2>1, <2>2
<1>3. T = Nat
  <2>1. T \in SUBSET Nat
    OBVIOUS
  <2> HIDE DEF T
  <2> QED
    BY <1>1, <1>2, <2>1, CostFold!InductionOverSet
<1> QED
  BY <1>3

(* The turns after the first i cost what they add.                         *)
LEMMA SuffixCosts ==
    ASSUME NEW ts \in Seq(SaneTurns), NEW i \in 0 .. Len(ts)
    PROVE  Hand!Cost(SubSeq(ts, i + 1, Len(ts))) = Upto(ts, Len(ts)) - Upto(ts, i)
<1> DEFINE part(d) == SubSeq(ts, i + 1, i + d)
           T == {d \in Nat : i + d <= Len(ts) => CostFold!Fold(0, part(d)) = Upto(ts, i + d) - Upto(ts, i)}
<1>0. i \in Nat /\ Len(ts) \in Nat /\ i <= Len(ts)
  OBVIOUS
<1>1. 0 \in T
  <2>1. part(0) = <<>>
    BY <1>0
  <2>2. Upto(ts, i) \in Nat
    BY UptoGrows
  <2> HIDE DEF part
  <2>3. CostFold!Fold(0, part(0)) = 0
    BY <2>1, CostFold!FoldEmpty
  <2> QED
    BY <1>0, <2>2, <2>3
<1>2. ASSUME NEW d \in T PROVE d + 1 \in T
  <2>1. ASSUME i + (d + 1) <= Len(ts) PROVE CostFold!Fold(0, part(d + 1)) = Upto(ts, i + (d + 1)) - Upto(ts, i)
    <3>1. d \in Nat /\ i + d \in 0 .. Len(ts) - 1 /\ i + d + 1 = i + (d + 1) /\ i + d <= Len(ts)
      BY <1>0, <2>1
    <3>2. part(d) \in Seq(SaneTurns) /\ ts[i + d + 1] \in SaneTurns /\ part(d + 1) = Append(part(d), ts[i + d + 1])
      BY <1>0, <2>1, <3>1
    <3>3. CostFold!Fold(0, part(d)) = Upto(ts, i + d) - Upto(ts, i)
      BY <3>1
    <3>4. Upto(ts, i + d + 1) = Upto(ts, i + d) + 1 + Hand!Block(ts[i + d + 1])
      BY <3>1, UptoSteps
    <3>5. Upto(ts, i + d) \in Nat /\ Upto(ts, i) \in Nat /\ Hand!Block(ts[i + d + 1]) \in Nat
      <4>1. i + d \in 0 .. Len(ts) /\ i \in 0 .. Len(ts)
        BY <1>0, <3>1
      <4>2. Upto(ts, i + d) \in Nat /\ Upto(ts, i) \in Nat
        BY <4>1, UptoGrows
      <4> QED
        BY <3>2, <4>2, BlockCosts
    <3> HIDE DEF part
    <3>6. CostFold!Fold(0, part(d + 1)) = CostFold!Fold(0, part(d)) + 1 + Hand!Block(ts[i + d + 1])
      BY <3>2, CostFold!FoldAppend DEF Hand!AddBlock
    <3> QED
      BY <3>1, <3>3, <3>4, <3>5, <3>6
  <2>2. d + 1 \in Nat
    OBVIOUS
  <2> QED
    BY <2>1, <2>2
<1>3. T = Nat
  <2>1. T \in SUBSET Nat
    OBVIOUS
  <2> HIDE DEF T
  <2> QED
    BY <1>1, <1>2, <2>1, CostFold!InductionOverSet
<1>4. Len(ts) - i \in T /\ i + (Len(ts) - i) = Len(ts)
  <2>1. Len(ts) - i \in Nat /\ i + (Len(ts) - i) = Len(ts)
    BY <1>0
  <2> HIDE DEF T
  <2> QED
    BY <1>3, <2>1
<1>5. CostFold!Fold(0, part(Len(ts) - i)) = Upto(ts, Len(ts)) - Upto(ts, i)
  BY <1>4
<1> QED
  BY <1>4, <1>5, HandFolds

(* The newest n turns are the last n, and cost what these add.              *)
LEMMA NewestIs ==
    ASSUME NEW ts \in Seq(SaneTurns), NEW n \in 0 .. Len(ts)
    PROVE  /\ Len(Hand!Newest(ts, n)) = n
           /\ Hand!Cost(Hand!Newest(ts, n)) = Upto(ts, Len(ts)) - Upto(ts, Len(ts) - n)
           /\ \A t \in Hand!Range(Hand!Newest(ts, n)) : \E i \in Len(ts) - n + 1 .. Len(ts) : t = ts[i]
           /\ \A i \in Len(ts) - n + 1 .. Len(ts) : ts[i] \in Hand!Range(Hand!Newest(ts, n))
<1>1. Len(ts) \in Nat /\ Len(ts) - n \in 0 .. Len(ts) /\ Len(ts) - n + 1 \in Nat
  OBVIOUS
<1>2. Hand!Newest(ts, n) = SubSeq(ts, Len(ts) - n + 1, Len(ts))
  BY DEF Hand!Newest
<1> DEFINE s == SubSeq(ts, Len(ts) - n + 1, Len(ts))
<1>3. Len(s) = n /\ DOMAIN s = 1 .. n /\ \A j \in 1 .. n : s[j] = ts[Len(ts) - n + j]
  BY <1>1
<1>4. Hand!Cost(s) = Upto(ts, Len(ts)) - Upto(ts, Len(ts) - n)
  BY <1>1, SuffixCosts
<1> HIDE DEF s
<1>5. ASSUME NEW t \in Hand!Range(s) PROVE \E i \in Len(ts) - n + 1 .. Len(ts) : t = ts[i]
  <2>1. PICK j \in 1 .. n : t = s[j]
    BY <1>3 DEF Hand!Range
  <2>2. Len(ts) - n + j \in Len(ts) - n + 1 .. Len(ts)
    BY <1>1
  <2> QED
    BY <1>3, <2>1, <2>2
<1>6. ASSUME NEW i \in Len(ts) - n + 1 .. Len(ts) PROVE ts[i] \in Hand!Range(s)
  <2>1. i - (Len(ts) - n) \in 1 .. n /\ Len(ts) - n + (i - (Len(ts) - n)) = i
    BY <1>1
  <2> QED
    BY <1>3, <2>1 DEF Hand!Range
<1> QED
  BY <1>2, <1>3, <1>4, <1>5, <1>6 DEF s

(* A turn costs as much as the notices it may spare.                       *)
LEMMA NoticesWeighLess ==
    \A f, c, cn, cm \in Int : \A wn, wm, bn, bm, dn, dm \in {0, 1} :
        cm >= cn + 3 /\ (bn = 0 \/ (bm = 1 /\ wm = 1))
            => f + wn + 2 * dn + bn + c + cn <= f + wm + 2 * dm + bm + c + cm
<1> SUFFICES ASSUME NEW f \in Int, NEW c \in Int, NEW cn \in Int, NEW cm \in Int, cm >= cn + 3,
                    NEW wn \in 0 .. 1, NEW wm \in 0 .. 1, NEW bn \in 0 .. 1, NEW bm \in 0 .. 1,
                    NEW dn \in 0 .. 1, NEW dm \in 0 .. 1, bn = 0 \/ (bm = 1 /\ wm = 1)
             PROVE  f + wn + 2 * dn + bn + c + cn <= f + wm + 2 * dm + bm + c + cm
  OBVIOUS
<1>1. CASE bn = 0
  BY <1>1
<1>2. CASE bm = 1 /\ wm = 1
  BY <1>2
<1> QED
  BY <1>1, <1>2

(* More turns make a larger document; so if they fit, fewer do.            *)
LEMMA FewerFit ==
    ASSUME NEW session, session.turns \in Seq(SaneTurns), session.warned \in BOOLEAN, NEW texts,
           NEW n \in 0 .. Len(session.turns), NEW m \in 0 .. Len(session.turns), n < m,
           texts[1] + texts[2] + texts[3] \in Int,
           Hand!Fits(Hand!Whole(session, m, texts))
    PROVE  Hand!Fits(Hand!Whole(session, n, texts))
<1> DEFINE ts == session.turns
           all == Len(ts)
           i == Hand!LatestRecordedAction(ts)
           last == i # 0 /\ ts[i].truncated
           body(k) == (\E t \in Hand!Range(Hand!Newest(ts, k)) : t.truncated) \/ last
           warned(k) == session.warned \/ k < all \/ body(k)
           cost(k) == Hand!Cost(Hand!Newest(ts, k))
           size(k) == Framing + Hand!Line(warned(k)) + 2 * Hand!Line(k < all) + Hand!Line(body(k))
                         + (texts[1] + texts[2] + texts[3]) + cost(k)
<1>0. all \in Nat /\ n < m /\ m <= all /\ n \in Nat /\ m \in Nat /\ Framing \in Nat /\ Output \in Nat
  BY CeilingAssumption
<1>1. \A k : Hand!Whole(session, k, texts).size = size(k)
  BY DEF Hand!Whole, Hand!Assemble
<1>2. cost(n) \in Int /\ cost(m) \in Int /\ cost(m) >= cost(n) + 3
  <2>1. all - m \in 0 .. all /\ all - n \in 0 .. all /\ all - m \in 0 .. all - n - 1 /\ all \in 0 .. all
    BY <1>0
  <2>2. Upto(ts, all) \in Nat /\ Upto(ts, all - m) \in Nat /\ Upto(ts, all - n) >= Upto(ts, all - m) + 3 /\ Upto(ts, all - n) \in Nat
    BY <2>1, UptoGrows
  <2>3. cost(n) = Upto(ts, all) - Upto(ts, all - n) /\ cost(m) = Upto(ts, all) - Upto(ts, all - m)
    BY NewestIs
  <2> QED
    BY <2>2, <2>3, SMTT(30)
<1>3. body(n) => body(m)
  <2>1. ASSUME NEW t \in Hand!Range(Hand!Newest(ts, n)) PROVE t \in Hand!Range(Hand!Newest(ts, m))
    <3>1. PICK j \in all - n + 1 .. all : t = ts[j]
      BY NewestIs
    <3>2. j \in all - m + 1 .. all
      BY <1>0
    <3> QED
      BY <3>1, <3>2, NewestIs
  <2> QED
    BY <2>1
<1>4. /\ Hand!Line(warned(n)) = 1 /\ Hand!Line(n < all) = 1
      /\ (body(n) => Hand!Line(body(n)) = 1 /\ Hand!Line(body(m)) = 1 /\ Hand!Line(warned(m)) = 1)
      /\ (~body(n) => Hand!Line(body(n)) = 0)
      /\ Hand!Line(body(m)) \in {0, 1} /\ Hand!Line(warned(m)) \in {0, 1} /\ Hand!Line(m < all) \in {0, 1}
  <2> HIDE DEF body
  <2> QED
    BY <1>0, <1>3 DEF Hand!Line
<1> HIDE DEF body, warned
<1>5. size(n) \in Int /\ size(m) \in Int /\ size(n) <= size(m)
  <2>1. PICK c \in Int : c = texts[1] + texts[2] + texts[3]
    OBVIOUS
  <2>2. PICK wn, wm, bn, bm, dn, dm \in {0, 1} :
           /\ wn = Hand!Line(warned(n)) /\ wm = Hand!Line(warned(m)) /\ bn = Hand!Line(body(n)) /\ bm = Hand!Line(body(m))
           /\ dn = Hand!Line(n < all) /\ dm = Hand!Line(m < all)
           /\ (bn = 0 \/ (bm = 1 /\ wm = 1))
    BY <1>4
  <2>3. size(n) = Framing + wn + 2 * dn + bn + c + cost(n) /\ size(m) = Framing + wm + 2 * dm + bm + c + cost(m)
    BY <2>1, <2>2
  <2>4. PICK cn, cm, f \in Int : cn = cost(n) /\ cm = cost(m) /\ f = Framing /\ cm >= cn + 3
    BY <1>0, <1>2
  <2> HIDE DEF size, cost
  <2>5. size(n) = f + wn + 2 * dn + bn + c + cn /\ size(m) = f + wm + 2 * dm + bm + c + cm
    BY <2>3, <2>4
  <2>6. f + wn + 2 * dn + bn + c + cn \in Int /\ f + wm + 2 * dm + bm + c + cm \in Int
    OBVIOUS
  <2>7. cm >= cn + 3 /\ (bn = 0 \/ (bm = 1 /\ wm = 1))
    BY <2>2, <2>4
  <2>8. f + wn + 2 * dn + bn + c + cn <= f + wm + 2 * dm + bm + c + cm
    BY ONLY <2>7, NoticesWeighLess, f \in Int, c \in Int, cn \in Int, cm \in Int, wn \in {0, 1}, wm \in {0, 1},
            bn \in {0, 1}, bm \in {0, 1}, dn \in {0, 1}, dm \in {0, 1}
  <2> QED
    BY <2>5, <2>6, <2>8
<1> HIDE DEF size
<1> QED
  BY <1>0, <1>1, <1>5 DEF Hand!Fits

-----------------------------------------------------------------------------
(* The binary search: what lies above hi does not fit, best is below lo by *)
(* one at most, and every turn of the loop takes one of the candidates.    *)
HalveInv(s, fits, all, k) ==
    /\ s \in [fits : {fits}, lo : 0 .. all + 1, hi : -1 .. all, best : 0 .. all]
    /\ s.lo <= s.best + 1
    /\ \A m \in 0 .. all : s.hi < m => ~fits[m]
    /\ s.lo > s.hi \/ s.hi - s.lo + 1 <= all + 1 - k

(* Halve keeps it, if what is less than what fits, fits.                    *)
LEMMA HalveKeeps ==
    ASSUME NEW all \in Nat, NEW fits, \A n, m \in 0 .. all : n < m /\ fits[m] => fits[n],
           NEW k \in 0 .. all, NEW s, HalveInv(s, fits, all, k), NEW turn
    PROVE  HalveInv(Hand!Halve(s, turn), fits, all, k + 1)
<1> DEFINE w == Hand!Halve(s, turn)
<1>1. /\ s \in [fits : {fits}, lo : 0 .. all + 1, hi : -1 .. all, best : 0 .. all]
      /\ s.lo <= s.best + 1 /\ s.fits = fits
      /\ \A m \in 0 .. all : s.hi < m => ~fits[m]
      /\ s.lo > s.hi \/ s.hi - s.lo + 1 <= all + 1 - k
  BY DEF HalveInv
<1>2. PICK lo, hi, best \in Int : lo = s.lo /\ hi = s.hi /\ best = s.best
  BY <1>1
<1>3. 0 <= lo /\ lo <= all + 1 /\ -1 <= hi /\ hi <= all /\ 0 <= best /\ best <= all
  BY <1>1, <1>2
<1>4. CASE lo > hi
  <2>1. w = s
    BY <1>2, <1>4 DEF Hand!Halve
  <2> HIDE DEF w
  <2> QED
    BY <1>1, <1>2, <1>4, <2>1 DEF HalveInv, w
<1>5. CASE lo <= hi
  <2>1. PICK mid \in Int : mid = (s.lo + s.hi) \div 2 /\ lo <= mid /\ mid <= hi
    <3>1. (lo + hi) \div 2 \in Int /\ lo <= (lo + hi) \div 2 /\ (lo + hi) \div 2 <= hi
      BY <1>2, <1>5
    <3> QED
      BY <1>2, <3>1
  <2>2. mid \in 0 .. all /\ hi - lo + 1 <= all + 1 - k
    BY <1>1, <1>2, <1>3, <1>5, <2>1
  <2>3. CASE fits[mid]
    <3>1. w = [s EXCEPT !.best = mid, !.lo = mid + 1]
      BY <1>1, <1>2, <1>5, <2>1, <2>3 DEF Hand!Halve
    <3>2. mid + 1 \in 0 .. all + 1
      BY <2>2
    <3>3. w \in [fits : {fits}, lo : 0 .. all + 1, hi : -1 .. all, best : 0 .. all]
          /\ w.lo = mid + 1 /\ w.best = mid /\ w.hi = hi
      BY <1>1, <1>2, <2>2, <3>1, <3>2
    <3>4. w.hi - w.lo + 1 <= all + 1 - (k + 1)
      BY <1>2, <2>1, <2>2, <3>3
    <3>5. \A m \in 0 .. all : w.hi < m => ~fits[m]
      BY <1>1, <1>2, <3>3
    <3> HIDE DEF w
    <3> QED
      BY <3>3, <3>4, <3>5 DEF HalveInv, w
  <2>4. CASE ~fits[mid]
    <3>1. w = [s EXCEPT !.hi = mid - 1]
      BY <1>1, <1>2, <1>5, <2>1, <2>4 DEF Hand!Halve
    <3>2. mid - 1 \in -1 .. all
      BY <2>2
    <3>3. w \in [fits : {fits}, lo : 0 .. all + 1, hi : -1 .. all, best : 0 .. all]
          /\ w.lo = lo /\ w.best = best /\ w.hi = mid - 1
      BY <1>1, <1>2, <3>1, <3>2
    <3>4. w.hi - w.lo + 1 <= all + 1 - (k + 1)
      BY <1>2, <2>1, <2>2, <3>3
    <3>5. ASSUME NEW m \in 0 .. all, w.hi < m PROVE ~fits[m]
      <4>1. m = mid \/ mid < m
        BY <2>2, <3>3, <3>5
      <4> QED
        BY <2>2, <2>4, <4>1
    <3> HIDE DEF w
    <3> QED
      BY <1>1, <1>2, <3>3, <3>4, <3>5 DEF HalveInv, w
  <2> QED
    BY <2>3, <2>4
<1> QED
  BY <1>2, <1>4, <1>5

(* What it finds: no number of turns above it fits.                        *)
LEMMA SearchIsExact ==
    ASSUME NEW all \in Nat, NEW fits, \A n, m \in 0 .. all : n < m /\ fits[m] => fits[n]
    PROVE  /\ Hand!NewestThatFit(fits, all) \in 0 .. all
           /\ \A more \in Hand!NewestThatFit(fits, all) + 1 .. all : ~fits[more]
<1> DEFINE b == [fits |-> fits, lo |-> 0, hi |-> all, best |-> 0]
           q == [turn \in 1 .. all + 1 |-> turn]
           state(k) == HalveFold!Fold(b, SubSeq(q, 1, k))
           T == {k \in Nat : k <= all + 1 => HalveInv(state(k), fits, all, k)}
<1>1. q \in Seq(Nat) /\ Len(q) = all + 1 /\ \A k \in 1 .. all + 1 : q[k] = k
  <2>1. all + 1 \in Nat /\ \A k \in 1 .. all + 1 : k \in Nat
    OBVIOUS
  <2>2. q \in [1 .. all + 1 -> Nat]
    BY <2>1
  <2>3. q \in Seq(Nat) /\ Len(q) = all + 1
    BY <2>1, <2>2, SeqDef, LenProperties
  <2> QED
    BY <2>3
<1>2. HalveInv(b, fits, all, 0)
  BY DEF HalveInv
<1> HIDE DEF q, b
<1>3. /\ state(0) = b /\ state(all + 1) = HalveFold!Fold(b, q)
      /\ \A k \in 0 .. all : state(k + 1) = Hand!Halve(state(k), q[k + 1])
  <2>1. /\ HalveFold!Fold(b, SubSeq(q, 1, 0)) = b
        /\ HalveFold!Fold(b, SubSeq(q, 1, Len(q))) = HalveFold!Fold(b, q)
        /\ \A k \in 0 .. Len(q) - 1 :
              HalveFold!Fold(b, SubSeq(q, 1, k + 1)) = Hand!Halve(HalveFold!Fold(b, SubSeq(q, 1, k)), q[k + 1])
    BY <1>1, HalveFold!FoldPrefix, ZenonT(60)
  <2>2. Len(q) - 1 = all
    BY <1>1
  <2> QED
    BY <1>1, <2>1, <2>2
<1> HIDE DEF state
<1>4. 0 \in T /\ T \in SUBSET Nat
  BY <1>2, <1>3
<1>5. ASSUME NEW k \in T PROVE k + 1 \in T
  <2>1. ASSUME k + 1 <= all + 1 PROVE HalveInv(state(k + 1), fits, all, k + 1)
    <3>1. k \in 0 .. all /\ HalveInv(state(k), fits, all, k)
      BY <2>1
    <3> QED
      BY <1>3, <3>1, HalveKeeps
  <2>2. k + 1 \in Nat
    OBVIOUS
  <2> QED
    BY <2>1, <2>2
<1>6. T = Nat
  <2> HIDE DEF T
  <2> QED
    BY <1>4, <1>5, HalveFold!InductionOverSet
<1>7. PICK s : s = HalveFold!Fold(b, q) /\ HalveInv(s, fits, all, all + 1)
  <2>1. all + 1 \in Nat /\ all + 1 <= all + 1
    OBVIOUS
  <2> QED
    BY <1>3, <1>6, <2>1
<1>8. Hand!NewestThatFit(fits, all) = s.best
  BY <1>7, HandFolds DEF Hand!NewestThatFit, b, q
<1>9. /\ s.lo \in Int /\ s.hi \in Int /\ s.best \in 0 .. all /\ s.lo <= s.best + 1
      /\ \A m \in 0 .. all : s.hi < m => ~fits[m]
      /\ s.lo > s.hi \/ s.hi - s.lo + 1 <= all + 1 - (all + 1)
  BY <1>7 DEF HalveInv
<1>10. ASSUME NEW more \in s.best + 1 .. all PROVE ~fits[more]
  <2>1. s.lo > s.hi
    BY <1>9
  <2>2. more \in 0 .. all /\ s.hi < more
    BY <1>9, <2>1
  <2> QED
    BY <1>9, <2>2
<1> QED
  BY <1>8, <1>9, <1>10

-----------------------------------------------------------------------------
(* The handoff: what render_session gives.                                 *)
LEMMA TextsAre ==
    ASSUME NEW session, session.turns \in Seq(SaneTurns), session.user \in Nat, session.assistant \in Nat
    PROVE  Hand!Texts(session)[1] + Hand!Texts(session)[2] + Hand!Texts(session)[3] \in Int
<1> DEFINE ts == session.turns
           I == {i \in 1 .. Len(ts) : ts[i].role \in {"assistant", "tool"}}
           last == IF I # {} THEN Hand!Max(I) ELSE 0
<1>1. Hand!Action(ts) = IF last = 0 THEN 1 ELSE Hand!Block(ts[last])
  BY DEF Hand!Action, Hand!LatestRecordedAction, Hand!LastOf, Hand!SelectLastInSeq
<1>2. I \in SUBSET (1 .. Len(ts)) /\ Len(ts) \in Nat
  OBVIOUS
<1>3. last # 0 => last \in I
  BY <1>2, HandGreatest
<1>4. \A i \in I : ts[i] \in SaneTurns
  OBVIOUS
<1> HIDE DEF I
<1>5. last # 0 => Hand!Block(ts[last]) \in Nat
  BY <1>3, <1>4, BlockCosts
<1> HIDE DEF last
<1>6. Hand!Action(ts) \in Int
  BY <1>1, <1>5
<1>7. Hand!Quote(session.user) \in Int /\ Hand!Quote(session.assistant) \in Int
  BY DEF Hand!Quote
<1>8. Hand!Texts(session) = <<Hand!Quote(session.user), Hand!Quote(session.assistant), Hand!Action(ts)>>
  BY DEF Hand!Texts
<1> QED
  BY <1>6, <1>7, <1>8

(* The least of some places is one of them.                                 *)
LEMMA HandLeast ==
    ASSUME NEW n \in Nat, NEW t \in SUBSET (1 .. n), t # {}
    PROVE  Hand!Min(t) \in t
<1>1. t \in SUBSET Nat
  OBVIOUS
<1>2. \E x \in t : \A y \in t : x <= y
  BY <1>1, LeastOf
<1> QED
  BY <1>2 DEF Hand!Min

(* It is the whole session, the session with the newest turns that fit, or *)
(* one that says it was cut; and it fits.                                  *)
LEMMA RenderedIs ==
    ASSUME NEW session
    PROVE  LET all == Len(session.turns)
               texts == Hand!Texts(session)
               best == Hand!NewestThatFit([n \in 0 .. all |-> Hand!Fits(Hand!Whole(session, n, texts))], all)
               document == Hand!RenderSession(session)
           IN  best \in 0 .. all /\ all \in Nat =>
               /\ Hand!Fits(document)
               /\ \/ document.warned /\ ~document.whole
                  \/ \E k \in {all, best} : document = Hand!Whole(session, k, texts)
<1> DEFINE all == Len(session.turns)
           texts == Hand!Texts(session)
           fits == [n \in 0 .. all |-> Hand!Fits(Hand!Whole(session, n, texts))]
           whole == [n \in 0 .. all |-> Hand!Whole(session, n, texts)]
           best == Hand!NewestThatFit([n \in 0 .. all |-> Hand!Fits(whole[n])], all)
           structure == Hand!Assemble(session, 0, 0, TRUE)
           holding(size) == [structure EXCEPT !.size = @ + size]
           left == Output - structure.size
           user == Hand!Quoted(texts[1], left \div 3)
           assistant == Hand!Quoted(texts[2], (left - user) \div 2)
           action == Hand!BlockQuoted(texts[3], left - user - assistant)
           tries == <<whole[all], whole[best], holding(user + assistant + action), holding(2 + Hand!Least(2, texts[3]))>>
           I == {i \in 1 .. Len(tries) : Hand!Fits(tries[i])}
           first == IF I # {} THEN Hand!Min(I) ELSE 0
           document == Hand!RenderSession(session)
           none == [size |-> 0, turns |-> <<>>, warned |-> TRUE, whole |-> FALSE]
<1>0. [n \in 0 .. all |-> Hand!Fits(whole[n])] = fits
  <2> HIDE DEF texts
  <2>1. \A n \in 0 .. all : whole[n] = Hand!Whole(session, n, texts)
    OBVIOUS
  <2> HIDE DEF whole
  <2> QED
    BY <2>1
<1> SUFFICES ASSUME best \in 0 .. all, all \in Nat
             PROVE  /\ Hand!Fits(document)
                    /\ \/ document.warned /\ ~document.whole
                       \/ \E k \in {all, best} : document = Hand!Whole(session, k, texts)
  <2>1. best = Hand!NewestThatFit(fits, all)
    BY <1>0
  <2> HIDE DEF best
  <2> QED
    BY <2>1
<1>1. whole[all] = Hand!Whole(session, all, texts) /\ whole[best] = Hand!Whole(session, best, texts)
  <2>1. all \in 0 .. all
    OBVIOUS
  <2> HIDE DEF best, texts
  <2> QED
    BY <2>1
<1>3. document = IF first = 0 THEN none ELSE tries[first]
  BY DEF Hand!RenderSession, Hand!SelectInSeq
<1>4. structure.warned /\ ~structure.whole
  BY DEF Hand!Assemble
<1>5. \A size : holding(size).warned /\ ~holding(size).whole
  <2>1. \A size : holding(size).warned = structure.warned /\ holding(size).whole = structure.whole
    BY DEF Hand!Assemble
  <2> HIDE DEF structure
  <2> QED
    BY <1>4, <2>1
<1> HIDE DEF whole, structure, left, user, assistant, action
<1>6. Len(tries) = 4 /\ tries[1] = whole[all] /\ tries[2] = whole[best]
      /\ tries[3] = holding(user + assistant + action) /\ tries[4] = holding(2 + Hand!Least(2, texts[3]))
  OBVIOUS
<1> HIDE DEF tries, holding
<1>7. first # 0 => first \in 1 .. 4 /\ Hand!Fits(tries[first])
  <2>2. I \in SUBSET (1 .. 4)
    BY <1>6
  <2>3. first # 0 => first \in I
    BY <2>2, HandLeast
  <2> HIDE DEF first
  <2> QED
    BY <1>6, <2>3
<1> HIDE DEF first, document
<1>8. CASE first = 0
  <2>1. Hand!Fits(none)
    BY CeilingAssumption DEF Hand!Fits
  <2> QED
    BY <1>3, <1>8, <2>1
<1>9. CASE first # 0
  <2>1. document = tries[first] /\ Hand!Fits(document) /\ first \in {1, 2, 3, 4}
    BY <1>3, <1>7, <1>9
  <2>2. CASE first \in {1, 2}
    <3>1. document = whole[all] \/ document = whole[best]
      BY <1>6, <2>1, <2>2
    <3> HIDE DEF best, all, texts
    <3> QED
      BY <1>1, <2>1, <3>1
  <2>3. CASE first \in {3, 4}
    <3>1. \E size : document = holding(size)
      BY <1>6, <2>1, <2>3
    <3> HIDE DEF best, all, texts
    <3> QED
      BY <1>5, <2>1, <3>1
  <2> QED
    BY <2>1, <2>2, <2>3
<1> QED
  BY <1>8, <1>9

(* The handoff of any turns is honest.                                     *)
LEMMA HandoffHonest ==
    ASSUME NEW l \in Seq(Hand!Records)
    PROVE  Hand!HandoffIsHonest(l)
<1> DEFINE session == Hand!SanitizeSession(l)
           ts == session.turns
           all == Len(ts)
           texts == Hand!Texts(session)
           fits == [n \in 0 .. all |-> Hand!Fits(Hand!Whole(session, n, texts))]
           best == Hand!NewestThatFit(fits, all)
           document == Hand!RenderSession(session)
<1>1. l \in Seq(TurnRecords) /\ \A i \in 1 .. Len(l) : l[i] = [role |-> l[i].role, size |-> l[i].size]
  <2>1. \A r \in Hand!Records : r \in TurnRecords /\ r = [role |-> r.role, size |-> r.size]
    BY DEF Hand!Records, TurnRecords
  <2>2. \A i \in 1 .. Len(l) : l[i] \in Hand!Records
    OBVIOUS
  <2>3. Hand!Records \subseteq TurnRecords
    BY <2>1
  <2>4. l \in Seq(TurnRecords)
    BY <2>3
  <2> QED
    BY <2>1, <2>2, <2>4
<1>2. SaneSession(session, l)
  BY <1>1, SanitizedIs
<1> HIDE DEF session
<1>3. /\ ts \in Seq(SaneTurns) /\ session.user \in Nat /\ session.assistant \in Nat /\ session.warned \in BOOLEAN
      /\ all \in Nat
  BY <1>2 DEF SaneSession
<1>4. texts[1] + texts[2] + texts[3] \in Int
  BY <1>3, TextsAre
<1> HIDE DEF texts
<1>5. \A n \in 0 .. all : fits[n] = Hand!Fits(Hand!Whole(session, n, texts))
  OBVIOUS
<1>6. ASSUME NEW n \in 0 .. all, NEW m \in 0 .. all, n < m, fits[m] PROVE fits[n]
  <2>1. Hand!Fits(Hand!Whole(session, m, texts))
    BY <1>5, <1>6
  <2>2. Hand!Fits(Hand!Whole(session, n, texts))
    BY <1>3, <1>4, <1>6, <2>1, FewerFit
  <2> QED
    BY <1>5, <2>2
<1>7. best \in 0 .. all /\ \A more \in best + 1 .. all : ~fits[more]
  <2> HIDE DEF fits
  <2> QED
    BY <1>3, <1>6, SearchIsExact
<1>8. /\ Hand!Fits(document)
      /\ \/ document.warned /\ ~document.whole
         \/ \E k \in {all, best} : document = Hand!Whole(session, k, texts)
  BY <1>3, <1>7, RenderedIs DEF texts
<1>9. ASSUME NEW k \in 0 .. all
      PROVE  LET d == Hand!Whole(session, k, texts)
             IN  /\ d.turns = Hand!Newest(ts, k) /\ Len(d.turns) = k /\ d.whole
                 /\ ~d.warned => ~session.warned /\ ~(k < all)
  <2>1. Hand!Whole(session, k, texts).turns = Hand!Newest(ts, k) /\ Len(Hand!Newest(ts, k)) = k
    BY <1>3, NewestIs DEF Hand!Whole, Hand!Assemble
  <2>2. Hand!Whole(session, k, texts).whole /\ (~Hand!Whole(session, k, texts).warned => ~session.warned /\ ~(k < all))
    BY DEF Hand!Whole, Hand!Assemble
  <2> QED
    BY <2>1, <2>2
<1> HIDE DEF best
<1>10. Hand!NewestTurnsKept(session, document)
  <2>1. ASSUME document.whole
        PROVE  /\ document.turns = Hand!Newest(ts, Len(document.turns))
               /\ \A more \in Len(document.turns) + 1 .. all : ~Hand!Fits(Hand!Whole(session, more, texts))
    <3>1. PICK k \in {all, best} : document = Hand!Whole(session, k, texts)
      BY <1>8, <2>1
    <3>2. k \in 0 .. all
      BY <1>3, <1>7
    <3>3. document.turns = Hand!Newest(ts, k) /\ Len(document.turns) = k
      BY <1>9, <3>1, <3>2
    <3>4. ASSUME NEW more \in k + 1 .. all PROVE ~Hand!Fits(Hand!Whole(session, more, texts))
      <4>1. k = best /\ more \in 0 .. all
        BY <1>3, <3>2
      <4> HIDE DEF fits, all
      <4> QED
        BY <1>5, <1>7, <4>1
    <3> QED
      BY <3>3, <3>4
  <2> HIDE DEF document
  <2> QED
    BY <1>8, <2>1 DEF Hand!NewestTurnsKept, texts
<1>11. Hand!NothingCutSilently(l, document)
  <2>1. ASSUME ~document.warned
        PROVE  /\ document.whole /\ DOMAIN document.turns = 1 .. Len(l)
               /\ \A i \in 1 .. Len(l) : document.turns[i].role = l[i].role /\ document.turns[i].size = l[i].size
    <3>1. PICK k \in {all, best} : document = Hand!Whole(session, k, texts)
      BY <1>8, <2>1
    <3>2. k \in 0 .. all
      BY <1>3, <1>7
    <3>3. document.turns = Hand!Newest(ts, k) /\ document.whole /\ ~session.warned /\ ~(k < all)
      BY <1>9, <2>1, <3>1, <3>2
    <3>4. k = all
      BY <1>3, <3>2, <3>3
    <3>5. document.turns = ts
      BY <1>3, <3>3, <3>4 DEF Hand!Newest
    <3>6. Len(ts) = Len(l) /\ \A i \in 1 .. Len(l) : ts[i].role = l[i].role /\ ts[i].size = l[i].size
      BY <1>2, <3>3 DEF SaneSession
    <3>7. DOMAIN ts = 1 .. Len(ts)
      BY <1>3
    <3> QED
      BY <3>3, <3>5, <3>6, <3>7
  <2> HIDE DEF document
  <2>2. ASSUME ~document.warned
        PROVE  [i \in DOMAIN document.turns |-> [role |-> document.turns[i].role, size |-> document.turns[i].size]] = l
    <3>1. l = [i \in 1 .. Len(l) |-> l[i]]
      BY <1>1
    <3>2. DOMAIN document.turns = 1 .. Len(l)
          /\ \A i \in 1 .. Len(l) : l[i] = [role |-> document.turns[i].role, size |-> document.turns[i].size]
      BY <1>1, <2>1, <2>2
    <3> QED
      BY <3>1, <3>2
  <2> QED
    BY <2>1, <2>2 DEF Hand!NothingCutSilently
<1> QED
  BY <1>10, <1>11 DEF Hand!HandoffIsHonest, session

-----------------------------------------------------------------------------
(* The reader: the order of rows is a strict order, total on rows of       *)
(* different sessions.                                                     *)
Shapes == [id : SessionIds, time : Int, dated : BOOLEAN, cwd : {"own", "sub", "none"}, provider : {1}]
Markers == [dated : BOOLEAN, time : Int, id : SessionIds, provider : {0}]

(* a comes before b in a list.                                              *)
Before(a, b) == Read!Less(Read!Key(a), Read!Key(b))

(* The same in the first three places of a key; the last is the provider.  *)
Undated(r) == IF r.dated THEN 0 ELSE 1
Age(r) == IF r.dated THEN -r.time ELSE 0
Earlier(a, b) ==
    \/ Undated(a) < Undated(b)
    \/ Undated(a) = Undated(b) /\ (Age(a) < Age(b) \/ (Age(a) = Age(b) /\ a.id < b.id))

(* At the same place, but for the provider.                                *)
Level(a, b) == Undated(a) = Undated(b) /\ Age(a) = Age(b) /\ a.id = b.id

(* The parts of a key are numbers.                                          *)
LEMMA RowNumbers ==
    /\ \A a \in Shapes : Undated(a) \in Int /\ Age(a) \in Int /\ a.id \in Int /\ a.provider = 1
    /\ \A a \in Markers : Undated(a) \in Int /\ Age(a) \in Int /\ a.id \in Int /\ a.provider = 0
<1>1. \A i \in SessionIds : i \in Int
  BY IdAssumption
<1>2. \A a \in Shapes : a.id \in SessionIds /\ a.time \in Int /\ a.dated \in BOOLEAN /\ a.provider = 1
  BY DEF Shapes
<1>3. \A a \in Markers : a.id \in SessionIds /\ a.time \in Int /\ a.dated \in BOOLEAN /\ a.provider = 0
  BY DEF Markers
<1> QED
  BY <1>1, <1>2, <1>3 DEF Undated, Age

(* The order of keys of four parts, spelt out.                              *)
LEMMA LessOfFour ==
    ASSUME NEW a1 \in Int, NEW a2 \in Int, NEW a3 \in Int, NEW a4 \in Int,
           NEW b1 \in Int, NEW b2 \in Int, NEW b3 \in Int, NEW b4 \in Int
    PROVE  Read!Less(<<a1, a2, a3, a4>>, <<b1, b2, b3, b4>>)
              <=> a1 < b1 \/ (a1 = b1 /\ (a2 < b2 \/ (a2 = b2 /\ (a3 < b3 \/ (a3 = b3 /\ a4 < b4)))))
<1> DEFINE a == <<a1, a2, a3, a4>>
           b == <<b1, b2, b3, b4>>
           at(i) == a[i] < b[i] /\ \A j \in 1 .. i - 1 : a[j] = b[j]
<1>1. a[1] = a1 /\ a[2] = a2 /\ a[3] = a3 /\ a[4] = a4 /\ b[1] = b1 /\ b[2] = b2 /\ b[3] = b3 /\ b[4] = b4
  OBVIOUS
<1>2. DOMAIN a = {1, 2, 3, 4}
  OBVIOUS
<1> HIDE DEF a, b
<1>3. at(1) <=> a1 < b1
  BY <1>1, 1 .. 1 - 1 = {}
<1>4. at(2) <=> a2 < b2 /\ a1 = b1
  BY <1>1, 1 .. 2 - 1 = {1}
<1>5. at(3) <=> a3 < b3 /\ a1 = b1 /\ a2 = b2
  BY <1>1, 1 .. 3 - 1 = {1, 2}
<1>6. at(4) <=> a4 < b4 /\ a1 = b1 /\ a2 = b2 /\ a3 = b3
  BY <1>1, 1 .. 4 - 1 = {1, 2, 3}
<1>7. Read!Less(a, b) <=> at(1) \/ at(2) \/ at(3) \/ at(4)
  BY <1>2 DEF Read!Less
<1> HIDE DEF at
<1> QED
  BY <1>3, <1>4, <1>5, <1>6, <1>7 DEF a, b

(* The order of rows, spelt out.                                            *)
LEMMA BeforeIs ==
    /\ \A a, b \in Shapes : Before(a, b) <=> Earlier(a, b)
    /\ \A a, b \in Shapes : Earlier(a, b) => Before(Read!EncodeCursor(a), b)
    /\ \A a \in Shapes : Read!EncodeCursor(a) \in Markers
    /\ \A a \in Markers : \A b \in Shapes : Before(a, b) <=> Earlier(a, b) \/ Level(a, b)
    /\ \A a, b \in Shapes : Before(Read!EncodeCursor(a), b) <=> Earlier(a, b) \/ Level(a, b)
<1>1. ASSUME NEW a \in Shapes \cup Markers, NEW b \in Shapes
      PROVE  Before(a, b) <=> Earlier(a, b) \/ (Undated(a) = Undated(b) /\ Age(a) = Age(b) /\ a.id = b.id /\ a.provider < b.provider)
  <2>1. PICK a1, a2, a3, a4 \in Int : a1 = Undated(a) /\ a2 = Age(a) /\ a3 = a.id /\ a4 = a.provider
    BY RowNumbers
  <2>2. PICK b1, b2, b3, b4 \in Int : b1 = Undated(b) /\ b2 = Age(b) /\ b3 = b.id /\ b4 = b.provider
    BY RowNumbers
  <2>3. Read!Key(a) = <<a1, a2, a3, a4>> /\ Read!Key(b) = <<b1, b2, b3, b4>>
    BY <2>1, <2>2 DEF Read!Key, Undated, Age
  <2>4. Before(a, b) <=> a1 < b1 \/ (a1 = b1 /\ (a2 < b2 \/ (a2 = b2 /\ (a3 < b3 \/ (a3 = b3 /\ a4 < b4)))))
    <3>1. Read!Less(<<a1, a2, a3, a4>>, <<b1, b2, b3, b4>>)
             <=> a1 < b1 \/ (a1 = b1 /\ (a2 < b2 \/ (a2 = b2 /\ (a3 < b3 \/ (a3 = b3 /\ a4 < b4)))))
      <4>1. /\ a1 \in Int /\ a2 \in Int /\ a3 \in Int /\ a4 \in Int
            /\ b1 \in Int /\ b2 \in Int /\ b3 \in Int /\ b4 \in Int
        BY <2>1, <2>2
      <4> QED
        BY ONLY <4>1, LessOfFour, SMTT(30)
    <3> QED
      BY <2>3, <3>1 DEF Before
  <2>5. Earlier(a, b) <=> a1 < b1 \/ (a1 = b1 /\ (a2 < b2 \/ (a2 = b2 /\ a3 < b3)))
    BY <2>1, <2>2 DEF Earlier
  <2>6. Before(a, b) <=> Earlier(a, b) \/ (a1 = b1 /\ a2 = b2 /\ a3 = b3 /\ a4 < b4)
    BY <2>4, <2>5
  <2> QED
    BY <2>1, <2>2, <2>6
<1>2. \A a, b \in Shapes : ~(a.provider < b.provider)
  BY RowNumbers
<1>3. ASSUME NEW a \in Shapes, NEW b \in Shapes, NEW c, c = Read!EncodeCursor(a)
      PROVE  c \in Markers /\ (Earlier(c, b) <=> Earlier(a, b)) /\ (Level(c, b) <=> Level(a, b))
  <2>1. a.id \in SessionIds /\ a.time \in Int /\ a.dated \in BOOLEAN
    BY DEF Shapes
  <2> QED
    BY <1>3, <2>1 DEF Read!EncodeCursor, Markers, Earlier, Level, Undated, Age
<1>4. ASSUME NEW a \in Markers, NEW b \in Shapes PROVE Before(a, b) <=> Earlier(a, b) \/ Level(a, b)
  <2>1. a.provider < b.provider
    BY RowNumbers
  <2> QED
    BY <1>1, <2>1 DEF Level
<1>5. ASSUME NEW a \in Shapes, NEW b \in Shapes
      PROVE  /\ Read!EncodeCursor(a) \in Markers
             /\ Before(Read!EncodeCursor(a), b) <=> Earlier(a, b) \/ Level(a, b)
  <2>1. PICK c : c = Read!EncodeCursor(a)
    OBVIOUS
  <2>2. c \in Markers /\ (Earlier(c, b) <=> Earlier(a, b)) /\ (Level(c, b) <=> Level(a, b))
    BY ONLY <1>3, <2>1, a \in Shapes, b \in Shapes
  <2> QED
    BY <1>4, <2>1, <2>2
<1>6. ASSUME NEW a \in Shapes, NEW b \in Shapes PROVE Before(a, b) <=> Earlier(a, b)
  <2>1. ~(a.provider < b.provider)
    BY <1>2
  <2> QED
    BY <1>1, <2>1
<1> QED
  BY <1>3, <1>4, <1>5, <1>6

(* A row at or after one that comes after a cursor comes after it too.      *)
LEMMA CursorPasses ==
    /\ \A c \in Markers : \A a, b \in Shapes : Before(c, a) /\ (Earlier(a, b) \/ Level(a, b)) => Before(c, b)
    /\ \A a, b, c \in Shapes : Earlier(a, b) /\ Level(b, c) => Earlier(a, c)
    /\ \A a, b, c \in Shapes : Level(a, b) /\ Earlier(b, c) => Earlier(a, c)
    /\ \A a, b \in Shapes : Earlier(a, b) => ~Earlier(b, a) /\ ~Level(b, a)
    /\ \A a, b \in Shapes : Level(a, b) => Read!Key(a) = Read!Key(b)
<1>1. ASSUME NEW a \in Shapes \cup Markers, NEW b \in Shapes, NEW c \in Shapes
      PROVE  /\ (Earlier(a, b) \/ Level(a, b)) /\ (Earlier(b, c) \/ Level(b, c)) => Earlier(a, c) \/ Level(a, c)
             /\ Earlier(a, b) /\ Level(b, c) => Earlier(a, c)
             /\ Level(a, b) /\ Earlier(b, c) => Earlier(a, c)
             /\ Earlier(a, b) => ~Earlier(b, a) /\ ~Level(b, a)
  <2>1. PICK a1, a2, a3 \in Int : a1 = Undated(a) /\ a2 = Age(a) /\ a3 = a.id
    BY RowNumbers
  <2>2. PICK b1, b2, b3 \in Int : b1 = Undated(b) /\ b2 = Age(b) /\ b3 = b.id
    BY RowNumbers
  <2>3. PICK c1, c2, c3 \in Int : c1 = Undated(c) /\ c2 = Age(c) /\ c3 = c.id
    BY RowNumbers
  <2>4. /\ Earlier(a, b) <=> a1 < b1 \/ (a1 = b1 /\ (a2 < b2 \/ (a2 = b2 /\ a3 < b3)))
        /\ Earlier(b, a) <=> b1 < a1 \/ (b1 = a1 /\ (b2 < a2 \/ (b2 = a2 /\ b3 < a3)))
        /\ Earlier(b, c) <=> b1 < c1 \/ (b1 = c1 /\ (b2 < c2 \/ (b2 = c2 /\ b3 < c3)))
        /\ Earlier(a, c) <=> a1 < c1 \/ (a1 = c1 /\ (a2 < c2 \/ (a2 = c2 /\ a3 < c3)))
    BY <2>1, <2>2, <2>3 DEF Earlier
  <2>5. /\ Level(a, b) <=> a1 = b1 /\ a2 = b2 /\ a3 = b3
        /\ Level(b, a) <=> a1 = b1 /\ a2 = b2 /\ a3 = b3
        /\ Level(b, c) <=> b1 = c1 /\ b2 = c2 /\ b3 = c3
        /\ Level(a, c) <=> a1 = c1 /\ a2 = c2 /\ a3 = c3
    BY <2>1, <2>2, <2>3 DEF Level
  <2> QED
    BY <2>4, <2>5
<1>2. ASSUME NEW a \in Shapes, NEW b \in Shapes, Level(a, b) PROVE Read!Key(a) = Read!Key(b)
  <2>1. a.provider = b.provider
    BY RowNumbers
  <2> QED
    BY <1>2, <2>1 DEF Level, Read!Key, Undated, Age
<1> QED
  BY <1>1, <1>2, BeforeIs

(* It is a strict total order of rows with different ids.                   *)
LEMMA EarlierOrders ==
    /\ \A a \in Shapes : ~Earlier(a, a)
    /\ \A a, b, c \in Shapes : Earlier(a, b) /\ Earlier(b, c) => Earlier(a, c)
    /\ \A a, b \in Shapes : a.id # b.id => Earlier(a, b) \/ Earlier(b, a)
<1>1. ASSUME NEW a \in Shapes, NEW b \in Shapes, NEW c \in Shapes
      PROVE  /\ ~Earlier(a, a)
             /\ Earlier(a, b) /\ Earlier(b, c) => Earlier(a, c)
             /\ a.id # b.id => Earlier(a, b) \/ Earlier(b, a)
  <2>1. PICK a1, a2, a3 \in Int : a1 = Undated(a) /\ a2 = Age(a) /\ a3 = a.id
    BY RowNumbers
  <2>2. PICK b1, b2, b3 \in Int : b1 = Undated(b) /\ b2 = Age(b) /\ b3 = b.id
    BY RowNumbers
  <2>3. PICK c1, c2, c3 \in Int : c1 = Undated(c) /\ c2 = Age(c) /\ c3 = c.id
    BY RowNumbers
  <2>4. /\ Earlier(a, b) <=> a1 < b1 \/ (a1 = b1 /\ (a2 < b2 \/ (a2 = b2 /\ a3 < b3)))
        /\ Earlier(b, a) <=> b1 < a1 \/ (b1 = a1 /\ (b2 < a2 \/ (b2 = a2 /\ b3 < a3)))
        /\ Earlier(b, c) <=> b1 < c1 \/ (b1 = c1 /\ (b2 < c2 \/ (b2 = c2 /\ b3 < c3)))
        /\ Earlier(a, c) <=> a1 < c1 \/ (a1 = c1 /\ (a2 < c2 \/ (a2 = c2 /\ a3 < c3)))
        /\ Earlier(a, a) <=> a1 < a1 \/ (a1 = a1 /\ (a2 < a2 \/ (a2 = a2 /\ a3 < a3)))
    BY <2>1, <2>2, <2>3 DEF Earlier
  <2> QED
    BY <2>1, <2>2, <2>4
<1> QED
  BY <1>1

(* Rows of a store: finitely many, one of each session.                    *)
Orderable(T) == T \in SUBSET Shapes /\ IsFiniteSet(T) /\ \A a, b \in T : a.id = b.id => a = b

(* Cardinality is the same operator in every module.                        *)
LEMMA ReadCardinality == \A T : Read!Cardinality(T) = Cardinality(T)
BY DEF Read!Cardinality, Cardinality

(* Counting the earlier rows puts them in order.                           *)
LEMMA OrderExists ==
    ASSUME NEW T, Orderable(T)
    PROVE  \E s \in [1 .. Cardinality(T) -> T] : \A i, j \in 1 .. Cardinality(T) : i < j => Earlier(s[i], s[j])
<1> DEFINE n == Cardinality(T)
           below(a) == {b \in T : Earlier(b, a)}
           rank == [a \in T |-> Cardinality(below(a)) + 1]
           s == [i \in 1 .. n |-> CHOOSE a \in T : rank[a] = i]
<1>1. T \in SUBSET Shapes /\ IsFiniteSet(T) /\ (\A a, b \in T : a.id = b.id => a = b) /\ n \in Nat
  BY FS_CardinalityType DEF Orderable
<1>2. ASSUME NEW a \in T PROVE IsFiniteSet(below(a)) /\ Cardinality(below(a)) \in Nat /\ Cardinality(below(a)) < n
  <2>1. below(a) \in SUBSET T /\ below(a) # T
    <3>1. a \in T /\ a \notin below(a)
      BY <1>1, EarlierOrders
    <3> QED
      BY <3>1
  <2> HIDE DEF below
  <2>2. IsFiniteSet(below(a)) /\ Cardinality(below(a)) <= n /\ Cardinality(below(a)) # n
    BY <1>1, <2>1, FS_Subset
  <2>3. Cardinality(below(a)) \in Nat
    BY <2>2, FS_CardinalityType
  <2> HIDE DEF n
  <2> QED
    BY <1>1, <2>2, <2>3
<1>3. ASSUME NEW a \in T, NEW b \in T, Earlier(a, b) PROVE rank[a] < rank[b]
  <2>1. below(a) \in SUBSET below(b) /\ a \in below(b) /\ a \notin below(a)
    BY <1>1, <1>3, EarlierOrders
  <2>2. IsFiniteSet(below(b)) /\ Cardinality(below(a)) \in Nat /\ Cardinality(below(b)) \in Nat
    BY <1>2
  <2> HIDE DEF below
  <2>3. Cardinality(below(a)) <= Cardinality(below(b)) /\ Cardinality(below(a)) # Cardinality(below(b))
    BY <2>1, <2>2, FS_Subset
  <2> QED
    BY <2>2, <2>3
<1>4. \A a \in T : rank[a] \in 1 .. n
  <2> HIDE DEF below, n
  <2>1. ASSUME NEW a \in T PROVE Cardinality(below(a)) + 1 \in 1 .. n
    BY <1>1, <1>2
  <2> QED
    BY <2>1
<1> HIDE DEF rank, below
<1>5. ASSUME NEW a \in T, NEW b \in T, rank[a] = rank[b] PROVE a = b
  <2>1. rank[a] \in Int /\ ~(rank[a] < rank[b]) /\ ~(rank[b] < rank[a])
    BY <1>1, <1>4, <1>5
  <2>2. ~Earlier(a, b) /\ ~Earlier(b, a)
    BY <1>3, <2>1
  <2> QED
    BY <1>1, <2>2, EarlierOrders
<1>6. \A i \in 1 .. n : \E a \in T : rank[a] = i
  <2>1. rank \in Injection(T, 1 .. n)
    <3>1. rank \in [T -> 1 .. n]
      BY <1>4 DEF rank
    <3> QED
      BY <1>5, <3>1 DEF Injection, IsInjective
  <2>2. IsFiniteSet(1 .. n) /\ Cardinality(1 .. n) = n
    <3>1. IsFiniteSet(1 .. n) /\ Cardinality(1 .. n) = IF 1 > n THEN 0 ELSE n - 1 + 1
      BY <1>1, FS_Interval
    <3> HIDE DEF n
    <3> QED
      BY <1>1, <3>1
  <2>3. rank \in Surjection(T, 1 .. n)
    BY <2>1, <2>2, FS_Injection
  <2> QED
    BY <2>3 DEF Surjection
<1>7. \A i \in 1 .. n : s[i] \in T /\ rank[s[i]] = i
  BY <1>6
<1>8. s \in [1 .. n -> T]
  BY <1>6
<1> HIDE DEF s
<1>9. ASSUME NEW i \in 1 .. n, NEW j \in 1 .. n, i < j PROVE Earlier(s[i], s[j])
  <2>1. s[i] \in T /\ s[j] \in T /\ rank[s[i]] = i /\ rank[s[j]] = j /\ i \in Int /\ j \in Int
    BY <1>1, <1>7
  <2>2. s[i] # s[j] /\ ~Earlier(s[j], s[i])
    <3>1. ~(j < i) /\ i # j
      BY <1>9, <2>1
    <3> QED
      BY <1>3, <2>1, <3>1
  <2> QED
    BY <1>1, <2>1, <2>2, EarlierOrders
<1> QED
  BY <1>8, <1>9

(* Ordered rows are all rows, each once, in order.                          *)
LEMMA OrderedIs ==
    ASSUME NEW T, Orderable(T)
    PROVE  /\ Read!Ordered(T) \in Seq(T) /\ Len(Read!Ordered(T)) = Cardinality(T) /\ Len(Read!Ordered(T)) \in Nat
           /\ Read!Range(Read!Ordered(T)) = T
           /\ \A i, j \in 1 .. Len(Read!Ordered(T)) : i < j => Earlier(Read!Ordered(T)[i], Read!Ordered(T)[j])
<1> DEFINE n == Cardinality(T)
           good(s) == s \in [1 .. n -> T] /\ \A i, j \in DOMAIN s : i < j => Before(s[i], s[j])
           s == Read!Ordered(T)
<1>1. T \in SUBSET Shapes /\ IsFiniteSet(T) /\ n \in Nat
  BY FS_CardinalityType DEF Orderable
<1> HIDE DEF n
<1>2. s = CHOOSE q \in [1 .. n -> T] : \A i, j \in DOMAIN q : i < j => Before(q[i], q[j])
  BY ReadCardinality DEF Read!Ordered, Before, n
<1>3. \E q \in [1 .. n -> T] : \A i, j \in DOMAIN q : i < j => Before(q[i], q[j])
  <2>1. PICK q \in [1 .. n -> T] : \A i, j \in 1 .. n : i < j => Earlier(q[i], q[j])
    BY OrderExists DEF n
  <2>2. DOMAIN q = 1 .. n /\ \A i \in 1 .. n : q[i] \in Shapes
    BY <1>1
  <2> QED
    BY <2>1, <2>2, BeforeIs
<1> HIDE DEF s
<1>4. s \in [1 .. n -> T] /\ \A i, j \in 1 .. n : i < j => Before(s[i], s[j])
  BY <1>2, <1>3
<1>5. s \in Seq(T) /\ Len(s) = n
  BY <1>1, <1>4, SeqDef, LenProperties
<1>6. \A i, j \in 1 .. n : i < j => Earlier(s[i], s[j])
  <2>1. \A i \in 1 .. n : s[i] \in Shapes
    BY <1>1, <1>4
  <2> QED
    BY <1>4, <2>1, BeforeIs
<1>7. ASSUME NEW i \in 1 .. n, NEW j \in 1 .. n, i # j PROVE s[i] # s[j]
  <2>1. i < j \/ j < i
    BY <1>1, <1>7
  <2>2. s[i] \in Shapes /\ s[j] \in Shapes
    BY <1>1, <1>4
  <2> QED
    BY <1>6, <2>1, <2>2, EarlierOrders
<1>8. s \in Surjection(1 .. n, T)
  <2>1. s \in Injection(1 .. n, T)
    BY <1>4, <1>7 DEF Injection, IsInjective
  <2>2. Cardinality(1 .. n) = n
    <3>1. Cardinality(1 .. n) = IF 1 > n THEN 0 ELSE n - 1 + 1
      BY <1>1, FS_Interval
    <3> QED
      BY <1>1, <3>1
  <2> QED
    BY <1>1, <2>1, <2>2, FS_Injection DEF n
<1>9. Read!Range(s) = T
  BY <1>4, <1>8 DEF Surjection, Read!Range
<1> QED
  BY <1>1, <1>5, <1>6, <1>9 DEF s, n

(* The first rows of an order: with a row come all that are earlier, and   *)
(* what is not among them comes after each of them.                        *)
LEMMA FirstRows ==
    ASSUME NEW T, Orderable(T), NEW n \in Nat, n <= Len(Read!Ordered(T))
    PROVE  LET p == SubSeq(Read!Ordered(T), 1, n)
           IN  /\ p \in Seq(T) /\ Len(p) = n
               /\ \A j \in 1 .. n : \A a \in T : Earlier(a, p[j]) => \E i \in 1 .. n : i < j /\ p[i] = a
               /\ \A a \in T : a \in Read!Range(p) \/ \A j \in 1 .. n : Earlier(p[j], a)
               /\ n = Len(Read!Ordered(T)) => Read!Range(p) = T
               /\ n > 0 => \A a \in T : a = p[1] \/ Earlier(p[1], a)
<1> DEFINE s == Read!Ordered(T)
           p == SubSeq(s, 1, n)
<1>1. /\ s \in Seq(T) /\ Len(s) \in Nat /\ Read!Range(s) = T /\ n <= Len(s)
      /\ \A i, j \in 1 .. Len(s) : i < j => Earlier(s[i], s[j])
  BY OrderedIs
<1>0. T \in SUBSET Shapes
  BY DEF Orderable
<1> HIDE DEF s
<1>2. p \in Seq(T) /\ Len(p) = n /\ DOMAIN p = 1 .. n /\ \A i \in 1 .. n : p[i] = s[i] /\ s[i] \in T
  BY <1>1
<1>3. \A a \in T : \E i \in 1 .. Len(s) : s[i] = a
  BY <1>1 DEF Read!Range
<1> HIDE DEF p
<1>4. ASSUME NEW j \in 1 .. n, NEW a \in T, Earlier(a, p[j]) PROVE \E i \in 1 .. n : i < j /\ p[i] = a
  <2>1. PICK i \in 1 .. Len(s) : s[i] = a
    BY <1>3
  <2>2. j \in 1 .. Len(s) /\ p[j] = s[j] /\ s[j] \in Shapes /\ a \in Shapes
    BY <1>0, <1>1, <1>2
  <2>3. ~(j < i) /\ i # j
    <3>1. ~Earlier(s[j], a) /\ a # s[j]
      BY <1>4, <2>2, EarlierOrders
    <3> QED
      BY <1>1, <2>1, <2>2, <3>1
  <2>4. i < j /\ i \in 1 .. n
    BY <1>1, <2>3
  <2> QED
    BY <1>2, <2>1, <2>4
<1>5. ASSUME NEW a \in T, a \notin Read!Range(p), NEW j \in 1 .. n PROVE Earlier(p[j], a)
  <2>1. PICK i \in 1 .. Len(s) : s[i] = a
    BY <1>3
  <2>2. ~(i \in 1 .. n)
    BY <1>2, <1>5, <2>1 DEF Read!Range
  <2>3. j < i /\ j \in 1 .. Len(s)
    BY <1>1, <2>2
  <2> QED
    BY <1>1, <1>2, <2>1, <2>3
<1>6. ASSUME n = Len(s) PROVE Read!Range(p) = T
  BY <1>2, <1>3, <1>6 DEF Read!Range
<1>7. ASSUME n > 0, NEW a \in T PROVE a = p[1] \/ Earlier(p[1], a)
  <2>1. PICK i \in 1 .. Len(s) : s[i] = a
    BY <1>3
  <2>2. 1 \in 1 .. n /\ 1 \in 1 .. Len(s) /\ (i = 1 \/ 1 < i)
    BY <1>1, <1>7
  <2> QED
    BY <1>1, <1>2, <2>1, <2>2
<1> QED
  BY <1>2, <1>4, <1>5, <1>6, <1>7 DEF s, p

(* A page: with a row come all earlier ones that the cursor leaves, and    *)
(* the rows that are missing come after its own cursor.                    *)
LEMMA PageIs ==
    ASSUME NEW R, Orderable(R), NEW cursor
    PROVE  LET A == Read!ApplyCursor(R, cursor)
               got == Read!PageSummaries(R, cursor)
           IN  /\ A \in SUBSET R /\ Orderable(A)
               /\ got.page \in Seq(A) /\ Len(got.page) \in Nat
               /\ \A j \in 1 .. Len(got.page) : \A a \in A :
                     Earlier(a, got.page[j]) => \E i \in 1 .. Len(got.page) : i < j /\ got.page[i] = a
               /\ got.next \in SUBSET Markers
               /\ got.next = {} => Read!Range(got.page) = A
               /\ \A a \in A : a \in Read!Range(got.page) \/ \A c \in got.next : Before(c, a)
               /\ A # {} => Len(got.page) > 0 /\ \A a \in A : a = got.page[1] \/ Earlier(got.page[1], a)
<1> DEFINE A == Read!ApplyCursor(R, cursor)
           got == Read!PageSummaries(R, cursor)
           s == Read!Ordered(A)
           n == IF Len(s) < Cap THEN Len(s) ELSE Cap
           p == SubSeq(s, 1, n)
<1>1. A \in SUBSET R /\ R \in SUBSET Shapes /\ IsFiniteSet(R) /\ \A a, b \in R : a.id = b.id => a = b
  BY DEF Read!ApplyCursor, Orderable
<1>2. Orderable(A)
  BY <1>1, FS_Subset DEF Orderable
<1>3. got.page = p /\ got.next = IF Len(s) > Cap THEN {Read!EncodeCursor(Read!Last(p))} ELSE {}
  BY DEF Read!PageSummaries
<1> HIDE DEF A, got
<1>4. Len(s) \in Nat /\ Cap \in Nat /\ Cap > 0 /\ Len(s) = Cardinality(A)
  BY <1>2, OrderedIs, CeilingAssumption
<1>5. n \in Nat /\ n <= Len(s) /\ (Len(s) > Cap => n = Cap) /\ (~(Len(s) > Cap) => n = Len(s)) /\ (Len(s) > 0 => n > 0)
  BY <1>4
<1> HIDE DEF n, s
<1>6. /\ p \in Seq(A) /\ Len(p) = n
      /\ \A j \in 1 .. n : \A a \in A : Earlier(a, p[j]) => \E i \in 1 .. n : i < j /\ p[i] = a
      /\ \A a \in A : a \in Read!Range(p) \/ \A j \in 1 .. n : Earlier(p[j], a)
      /\ n = Len(s) => Read!Range(p) = A
      /\ n > 0 => \A a \in A : a = p[1] \/ Earlier(p[1], a)
  BY <1>2, <1>5, FirstRows DEF s
<1> HIDE DEF p
<1>7. CASE Len(s) > Cap
  <2>1. n \in 1 .. n /\ Read!Last(p) = p[n] /\ p[n] \in A /\ n > 0
    BY <1>4, <1>5, <1>6, <1>7 DEF Read!Last
  <2>2. got.next = {Read!EncodeCursor(p[n])}
    BY <1>3, <1>7, <2>1
  <2>3. p[n] \in Shapes /\ \A a \in A : a \in Shapes
    BY <1>1, <2>1
  <2>4. \A a \in A : a \in Read!Range(p) \/ Before(Read!EncodeCursor(p[n]), a)
    BY <1>6, <2>1, <2>3, BeforeIs
  <2>5. got.next \in SUBSET Markers /\ got.next # {}
    BY <2>2, <2>3, BeforeIs
  <2> QED
    BY <1>1, <1>2, <1>3, <1>5, <1>6, <2>1, <2>2, <2>4, <2>5 DEF A, got
<1>8. CASE ~(Len(s) > Cap)
  <2>1. got.next = {} /\ n = Len(s) /\ Read!Range(p) = A
    BY <1>3, <1>5, <1>6, <1>8
  <2>2. A # {} => n > 0
    <3>1. A # {} => Cardinality(A) # 0
      BY <1>2, FS_EmptySet DEF Orderable
    <3> QED
      BY <1>4, <2>1, <3>1
  <2> QED
    BY <1>1, <1>2, <1>3, <1>5, <1>6, <2>1, <2>2 DEF A, got
<1> QED
  BY <1>7, <1>8

(* The rows of a page come in order, and a cursor is made from the last of  *)
(* a full one.                                                              *)
LEMMA PageRises ==
    ASSUME NEW R, Orderable(R), NEW cursor
    PROVE  LET got == Read!PageSummaries(R, cursor)
           IN  /\ \A i, j \in 1 .. Len(got.page) : i < j => Earlier(got.page[i], got.page[j])
               /\ got.next # {} => Len(got.page) = Cap /\ got.next = {Read!EncodeCursor(got.page[Cap])}
<1> DEFINE A == Read!ApplyCursor(R, cursor)
           got == Read!PageSummaries(R, cursor)
           s == Read!Ordered(A)
           n == IF Len(s) < Cap THEN Len(s) ELSE Cap
           p == SubSeq(s, 1, n)
<1>1. Orderable(A)
  <2>1. A \in SUBSET R
    BY DEF Read!ApplyCursor
  <2> QED
    BY <2>1, FS_Subset DEF Orderable
<1>2. got.page = p /\ got.next = IF Len(s) > Cap THEN {Read!EncodeCursor(Read!Last(p))} ELSE {}
  BY DEF Read!PageSummaries
<1> HIDE DEF A, got
<1>3. Len(s) \in Nat /\ Cap \in Nat /\ Cap > 0 /\ s \in Seq(A) /\ \A i, j \in 1 .. Len(s) : i < j => Earlier(s[i], s[j])
  BY <1>1, OrderedIs, CeilingAssumption
<1>4. n \in Nat /\ n <= Len(s) /\ (Len(s) > Cap => n = Cap)
  BY <1>3
<1> HIDE DEF n, s
<1>5. p \in Seq(A) /\ Len(p) = n /\ \A i \in 1 .. n : p[i] = s[i] /\ i \in 1 .. Len(s)
  BY <1>3, <1>4
<1> HIDE DEF p
<1>6. Read!Last(p) = p[n]
  BY <1>5 DEF Read!Last
<1> QED
  BY <1>2, <1>3, <1>4, <1>5, <1>6 DEF got

Matching(rows, mode) == {r \in rows : Read!WorkspaceMatch(r, mode)}

(* A page of the list: that of the newest rows of the workspace.           *)
LEMMA ListIs ==
    ASSUME NEW rows, Orderable(rows), NEW mode, NEW cursor
    PROVE  LET M == Matching(rows, mode)
               got == Read!List(rows, mode, cursor)
           IN  \E K \in SUBSET M :
                  /\ Orderable(M) /\ Orderable(K)
                  /\ got.page = Read!PageSummaries(K, cursor).page /\ got.next = Read!PageSummaries(K, cursor).next
                  /\ ~got.truncated => K = M
                  /\ M # {} => \E a \in K : \A b \in M : b = a \/ Earlier(a, b)
<1> DEFINE M == Matching(rows, mode)
           got == Read!List(rows, mode, cursor)
           s == Read!Ordered(M)
           n == IF Len(s) < Cap + 1 THEN Len(s) ELSE Cap + 1
           kept == SubSeq(s, 1, n)
           K == Read!Range(kept)
<1>1. Orderable(M)
  BY FS_Subset, M \in SUBSET rows DEF Orderable, Matching
<1>2. /\ got.page = Read!PageSummaries(K, cursor).page /\ got.next = Read!PageSummaries(K, cursor).next
      /\ ~got.truncated => ~(Len(s) > Cap + 1)
  <2>1. {r \in rows : Read!WorkspaceMatch(r, mode)} = M
    BY DEF Matching
  <2> HIDE DEF M
  <2>2. s = Read!Ordered({r \in rows : Read!WorkspaceMatch(r, mode)})
    BY <2>1
  <2> HIDE DEF s
  <2> QED
    BY <2>2 DEF Read!List
<1> HIDE DEF M, got
<1>3. Len(s) \in Nat /\ Cap \in Nat /\ Len(s) = Cardinality(M)
  BY <1>1, OrderedIs, CeilingAssumption
<1>4. n \in Nat /\ n <= Len(s) /\ (~(Len(s) > Cap + 1) => n = Len(s)) /\ (Len(s) > 0 => n > 0)
  BY <1>3
<1> HIDE DEF n, s
<1>5. /\ kept \in Seq(M) /\ Len(kept) = n
      /\ n = Len(s) => K = M
      /\ n > 0 => \A a \in M : a = kept[1] \/ Earlier(kept[1], a)
  BY <1>1, <1>4, FirstRows DEF s
<1> HIDE DEF kept
<1>6. K \in SUBSET M /\ (n > 0 => kept[1] \in K)
  <2>1. DOMAIN kept = 1 .. n /\ \A i \in 1 .. n : kept[i] \in M
    BY <1>5
  <2> QED
    BY <1>4, <2>1 DEF Read!Range
<1>7. Orderable(K)
  BY <1>1, <1>6, FS_Subset DEF Orderable
<1>8. M # {} => n > 0
  <2>1. M # {} => Cardinality(M) # 0
    BY <1>1, FS_EmptySet DEF Orderable
  <2> QED
    BY <1>3, <1>4, <2>1
<1> HIDE DEF K
<1>9. M # {} => \E a \in K : \A b \in M : b = a \/ Earlier(a, b)
  BY <1>5, <1>6, <1>8
<1>10. ~got.truncated => K = M
  BY <1>2, <1>4, <1>5
<1>11. \E K1 \in SUBSET M :
          /\ Orderable(M) /\ Orderable(K1)
          /\ got.page = Read!PageSummaries(K1, cursor).page /\ got.next = Read!PageSummaries(K1, cursor).next
          /\ ~got.truncated => K1 = M
          /\ M # {} => \E a \in K1 : \A b \in M : b = a \/ Earlier(a, b)
  <2>1. K \in SUBSET M
    BY <1>6
  <2> WITNESS K \in SUBSET M
  <2> QED
    BY <1>1, <1>2, <1>7, <1>9, <1>10
<1> QED
  BY <1>11 DEF M, got

(* The rows of a store: one for each session, of its last write.           *)
WritesOf(l, id) == {i \in 1 .. Len(l) : l[i].kind = "write" /\ l[i].id = id}
LastWriteOf(l, id) == IF WritesOf(l, id) # {} THEN Read!Max(WritesOf(l, id)) ELSE 0
RowAt(l, id) ==
    [id |-> id, time |-> LastWriteOf(l, id), dated |-> l[LastWriteOf(l, id)].dated,
     cwd |-> l[LastWriteOf(l, id)].cwd, provider |-> 1]

(* The rows of a log are the last writes of each session.                   *)
LEMMA ReadRowsAre ==
    \A l : Read!Rows(l) = {RowAt(l, i) : i \in {j \in SessionIds : LastWriteOf(l, j) # 0}}
BY DEF Read!Rows, RowAt, LastWriteOf, WritesOf, Read!SelectLastInSeq

(* The last write of a session is one.                                      *)
LEMMA LastWriteOfIs ==
    ASSUME NEW S, NEW l \in Seq(S), NEW id
    PROVE  LastWriteOf(l, id) \in Int /\ (LastWriteOf(l, id) # 0 => LastWriteOf(l, id) \in WritesOf(l, id))
<1>1. WritesOf(l, id) \in SUBSET (1 .. Len(l)) /\ Len(l) \in Nat
  BY DEF WritesOf
<1>2. WritesOf(l, id) # {} => Read!Max(WritesOf(l, id)) \in WritesOf(l, id)
  <2>1. \A u : Read!Max(u) = ReplayFold!Max(u)
    BY DEF Read!Max, ReplayFold!Max
  <2> QED
    BY <1>1, <2>1, ReplayFold!GreatestOf
<1>3. WritesOf(l, id) \in SUBSET Int
  BY <1>1
<1> QED
  BY <1>2, <1>3 DEF LastWriteOf

(* The rows of a log have different ids, and are finitely many.             *)
LEMMA RowsOrderable ==
    ASSUME NEW l \in Seq(Read!Records)
    PROVE  Orderable(Read!Rows(l))
<1> DEFINE J == {j \in SessionIds : LastWriteOf(l, j) # 0}
           T == {RowAt(l, i) : i \in J}
           f == [i \in J |-> RowAt(l, i)]
<1>1. IsFiniteSet(T)
  <2>1. IsFiniteSet(J)
    BY IdAssumption, FS_Subset, J \in SUBSET SessionIds
  <2>2. f \in Surjection(J, T)
    BY DEF Surjection
  <2> QED
    BY <2>1, <2>2, FS_Surjection
<1>2. \A r \in Read!Records : r.kind = "write" => r.dated \in BOOLEAN /\ r.cwd \in {"own", "sub", "none"}
  BY DEF Read!Records
<1>3. ASSUME NEW i \in J PROVE RowAt(l, i) \in Shapes /\ RowAt(l, i).id = i
  <2>1. LastWriteOf(l, i) \in Int /\ LastWriteOf(l, i) \in 1 .. Len(l) /\ l[LastWriteOf(l, i)].kind = "write"
    BY LastWriteOfIs DEF WritesOf
  <2>2. l[LastWriteOf(l, i)] \in Read!Records
    BY <2>1
  <2>3. l[LastWriteOf(l, i)].dated \in BOOLEAN /\ l[LastWriteOf(l, i)].cwd \in {"own", "sub", "none"}
    BY <1>2, <2>1, <2>2
  <2> QED
    BY <2>1, <2>3 DEF RowAt, Shapes
<1>4. T \in SUBSET Shapes /\ \A a, b \in T : a.id = b.id => a = b
  <2>1. ASSUME NEW a \in T PROVE a \in Shapes /\ a.id \in J /\ a = RowAt(l, a.id)
    <3>1. PICK i \in J : a = RowAt(l, i)
      OBVIOUS
    <3> QED
      BY <1>3, <3>1
  <2> QED
    BY <2>1
<1> QED
  BY <1>1, <1>4, ReadRowsAre DEF Orderable

(* The row of a session that is not written stays.                         *)
LEMMA RowsStay ==
    ASSUME NEW l \in Seq(Read!Records), NEW r \in Read!Records,
           NEW o \in Read!Rows(l), r.kind = "write" => o.id # r.id
    PROVE  o \in Read!Rows(Append(l, r))
<1> DEFINE l1 == Append(l, r)
<1>1. PICK i \in SessionIds : LastWriteOf(l, i) # 0 /\ o = RowAt(l, i)
  BY ReadRowsAre
<1>2. o.id = i
  BY <1>1 DEF RowAt
<1>3. Len(l) \in Nat /\ Len(l1) = Len(l) + 1 /\ l1[Len(l) + 1] = r /\ \A k \in 1 .. Len(l) : l1[k] = l[k]
  BY AppendedAt
<1> HIDE DEF l1
<1>4. WritesOf(l1, i) = WritesOf(l, i)
  <2>1. ~(l1[Len(l) + 1].kind = "write" /\ l1[Len(l) + 1].id = i)
    BY <1>2, <1>3
  <2>2. \A k \in 1 .. Len(l1) : k \in 1 .. Len(l) \/ k = Len(l) + 1
    BY <1>3
  <2>3. \A k \in 1 .. Len(l) : k \in 1 .. Len(l1)
    BY <1>3
  <2> QED
    BY <1>3, <2>1, <2>2, <2>3 DEF WritesOf
<1>5. LastWriteOf(l1, i) = LastWriteOf(l, i)
  BY <1>4 DEF LastWriteOf
<1>6. LastWriteOf(l, i) \in 1 .. Len(l)
  BY <1>1, LastWriteOfIs DEF WritesOf
<1>7. RowAt(l1, i) = RowAt(l, i)
  BY <1>3, <1>5, <1>6 DEF RowAt
<1> QED
  BY <1>1, <1>5, <1>7, ReadRowsAre DEF l1

(* What show selects is among what list prints.                             *)
LEMMA ShowSelects ==
    ASSUME NEW l \in Seq(Read!Records)
    PROVE  Read!ShowSelectsListed(l)
<1> DEFINE rows == Read!Rows(l)
<1>1. Orderable(rows) /\ rows \in SUBSET Shapes
  BY RowsOrderable DEF Orderable
<1>2. SUFFICES ASSUME NEW mode \in Read!Modes
               PROVE  LET first == Read!List(rows, mode, {}).page
                      IN  /\ Read!SelectSession(rows, mode, Read!Latest, {}) = {first[i] : i \in DOMAIN first \cap {1}}
                          /\ \A r \in Read!Range(first), titled \in SUBSET SessionIds : Read!SelectSession(rows, mode, r.id, titled) = {r}
  BY DEF Read!ShowSelectsListed
<1> DEFINE M == Matching(rows, mode)
           first == Read!List(rows, mode, {}).page
<1>3. PICK K \in SUBSET M : /\ Orderable(M) /\ Orderable(K)
                            /\ first = Read!PageSummaries(K, {}).page
                            /\ M # {} => \E a \in K : \A b \in M : b = a \/ Earlier(a, b)
  <2> HIDE DEF rows
  <2> QED
    BY <1>1, ListIs
<1>4. M \in SUBSET rows /\ M \in SUBSET Shapes
  BY <1>1 DEF Matching
<1>5. Read!ApplyCursor(K, {}) = K
  BY DEF Read!ApplyCursor
<1> HIDE DEF first
<1>6. /\ first \in Seq(K) /\ Len(first) \in Nat
      /\ K # {} => Len(first) > 0 /\ \A a \in K : a = first[1] \/ Earlier(first[1], a)
  BY <1>3, <1>5, PageIs
<1>7. Read!SelectSession(rows, mode, Read!Latest, {}) = {r \in M : \A o \in M : ~Before(o, r)}
  BY DEF Read!SelectSession, Before, Matching
<1> HIDE DEF M, rows
<1>8. DOMAIN first = 1 .. Len(first) /\ \A i \in 1 .. Len(first) : first[i] \in K
  BY <1>6
<1>9. Read!SelectSession(rows, mode, Read!Latest, {}) = {first[i] : i \in DOMAIN first \cap {1}}
  <2>1. CASE M = {}
    <3>1. DOMAIN first \cap {1} = {}
      BY <1>8, <2>1
    <3> QED
      BY <1>7, <2>1, <3>1
  <2>2. CASE M # {}
    <3>1. PICK a \in K : \A b \in M : b = a \/ Earlier(a, b)
      BY <1>3, <2>2
    <3>2. first[1] \in K /\ 1 \in DOMAIN first /\ (a = first[1] \/ Earlier(first[1], a))
      BY <1>6, <1>8, <3>1
    <3>3. a \in Shapes /\ first[1] \in Shapes /\ first[1] \in M /\ a \in M
      BY <1>4, <3>2
    <3>4. first[1] = a
      BY <3>1, <3>2, <3>3, EarlierOrders
    <3>5. ASSUME NEW r \in M PROVE (\A o \in M : ~Before(o, r)) <=> r = a
      <4>1. \A o \in M : o \in Shapes
        BY <1>4
      <4>2. r = a => \A o \in M : ~Earlier(o, r)
        BY <3>1, <3>3, <4>1, EarlierOrders
      <4>3. r # a => Earlier(a, r)
        BY <3>1
      <4> QED
        BY <3>3, <4>1, <4>2, <4>3, BeforeIs
    <3> QED
      BY <1>7, <3>2, <3>3, <3>4, <3>5
  <2> QED
    BY <2>1, <2>2
<1>10. ASSUME NEW r \in Read!Range(first), NEW titled \in SUBSET SessionIds
       PROVE  Read!SelectSession(rows, mode, r.id, titled) = {r}
  <2>1. r \in rows /\ r \in Shapes
    BY <1>1, <1>4, <1>8 DEF Read!Range
  <2>2. r.id # Read!Latest
    BY <2>1, IdAssumption DEF Read!Latest, Shapes
  <2>3. {o \in rows : o.id = r.id} = {r}
    BY <1>1, <2>1 DEF Orderable
  <2>4. Read!Cardinality({r}) = 1
    BY ReadCardinality, FS_Singleton
  <2> QED
    BY <2>2, <2>3, <2>4 DEF Read!SelectSession
<1> QED
  BY <1>9, <1>10 DEF first, rows

(* The pages: what was seen came in order, but for a row that came again at *)
(* once, the last of a page, which the cursor was made from; and unless one *)
(* was truncated, each row nobody wrote since was seen or comes after the   *)
(* cursor, and no later one was seen before it.                             *)
PassFold == INSTANCE FoldLemmas WITH Op <- Read!PassBy

(* A sequence of rows in that order; and one that ends in two that differ,  *)
(* the second of which the cursor was made from.                            *)
Rises(q) == \A i, j \in 1 .. Len(q) : i < j => Earlier(q[i], q[j]) \/ (j = i + 1 /\ Level(q[i], q[j]))
EndsIn(q, cursor) ==
    \A n \in Nat : n = Len(q) =>
        n > 1 /\ Earlier(q[n - 1], q[n]) /\ cursor = {Read!EncodeCursor(q[n])}

(* What has been shown, of the rows that stood still and of all.            *)
PagesInv(s, l) ==
    /\ s \in [log : {l}, open : BOOLEAN, cursor : SUBSET Markers, stable : SUBSET Shapes, seen : Seq(Shapes),
              truncated : BOOLEAN, done : BOOLEAN]
    /\ s.stable \subseteq Matching(Read!Rows(l), "exact")
    /\ ~s.open => s.stable = {} /\ s.cursor = {} /\ s.seen = <<>> /\ ~s.done
    /\ Cap > 1 => Rises(s.seen) /\ (s.open /\ ~s.done => EndsIn(s.seen, s.cursor))
    /\ ~s.truncated =>
          /\ \A a \in s.stable : a \in Read!Range(s.seen) \/ (~s.done /\ \A c \in s.cursor : Before(c, a))
          /\ \A a, b \in s.stable : Earlier(a, b) =>
                \A j \in 1 .. Len(s.seen) : s.seen[j] = b => \E i \in 1 .. Len(s.seen) : i < j /\ s.seen[i] = a

(* Pages is a fold of PassBy over the log.                                  *)
LEMMA PagesAfter ==
    ASSUME NEW l \in Seq(Read!Records), NEW r \in Read!Records
    PROVE  Read!Pages(Append(l, r)) = Read!PassBy(Read!Pages(l), r)
<1>1. \A q : Read!Pages(q) = PassFold!Fold(Read!NotStarted, q)
  BY DEF Read!Pages, PassFold!Fold, PassFold!Unfolds, Read!FoldLeft, Read!MapThenFoldSet,
         Read!Max, PassFold!Max
<1> QED
  BY <1>1, PassFold!FoldAppend

(* Nothing is owed before the first page.                                   *)
LEMMA PagesInit == PagesInv(Read!Pages(<<>>), <<>>)
<1>1. Read!Pages(<<>>) = Read!NotStarted
  <2>1. \A q : Read!Pages(q) = PassFold!Fold(Read!NotStarted, q)
    BY DEF Read!Pages, PassFold!Fold, PassFold!Unfolds, Read!FoldLeft, Read!MapThenFoldSet,
           Read!Max, PassFold!Max
  <2> QED
    BY <2>1, PassFold!FoldEmpty
<1>2. <<>> \in Seq(Shapes) /\ Len(<<>>) = 0
  BY EmptyLog
<1>3. PICK s : s = Read!NotStarted
  OBVIOUS
<1>4. /\ s \in [log : {<<>>}, open : BOOLEAN, cursor : SUBSET Markers, stable : SUBSET Shapes, seen : Seq(Shapes),
                truncated : BOOLEAN, done : BOOLEAN]
      /\ s.stable = {} /\ s.cursor = {} /\ s.seen = <<>> /\ ~s.done
  BY <1>2, <1>3 DEF Read!NotStarted
<1>5. Rises(<<>>)
  <2>1. 1 .. 0 = {}
    OBVIOUS
  <2> QED
    BY <1>2, <2>1 DEF Rises
<1>6. ~s.open
  BY <1>3 DEF Read!NotStarted
<1> QED
  BY <1>1, <1>3, <1>4, <1>5, <1>6 DEF PagesInv

(* A session is written: its row is no longer one that stands still.       *)
LEMMA WriteKeepsPages ==
    ASSUME NEW l \in Seq(Read!Records), NEW s, PagesInv(s, l), NEW r \in Read!Records, r.kind # "page"
    PROVE  PagesInv(Read!PassBy(s, r), Append(l, r))
<1> DEFINE w == Read!PassBy(s, r)
           l1 == Append(l, r)
<1>1. s \in [log : {l}, open : BOOLEAN, cursor : SUBSET Markers, stable : SUBSET Shapes, seen : Seq(Shapes),
             truncated : BOOLEAN, done : BOOLEAN] /\ s.log = l
  BY DEF PagesInv
<1>2. w = [[s EXCEPT !.log = l1] EXCEPT !.stable = {o \in [s EXCEPT !.log = l1].stable : o.id # r.id}]
  BY <1>1 DEF Read!PassBy
<1> HIDE DEF l1
<1>3. w = [s EXCEPT !.log = l1, !.stable = {o \in s.stable : o.id # r.id}]
  BY <1>1, <1>2, SMTT(30)
<1>4. /\ w \in [log : {l1}, open : BOOLEAN, cursor : SUBSET Markers, stable : SUBSET Shapes, seen : Seq(Shapes),
                truncated : BOOLEAN, done : BOOLEAN]
      /\ w.stable = {o \in s.stable : o.id # r.id} /\ w.open = s.open /\ w.cursor = s.cursor /\ w.seen = s.seen
      /\ w.truncated = s.truncated /\ w.done = s.done
  BY <1>1, <1>3
<1> HIDE DEF w
<1>5. w.stable \subseteq Matching(Read!Rows(l1), "exact")
  <2> SUFFICES ASSUME NEW o \in w.stable PROVE o \in Matching(Read!Rows(l1), "exact")
    OBVIOUS
  <2>1. o \in s.stable /\ o.id # r.id
    BY <1>4
  <2>2. o \in Matching(Read!Rows(l), "exact")
    BY <2>1 DEF PagesInv
  <2>3. o \in Read!Rows(l1)
    BY <2>1, <2>2, RowsStay DEF Matching, l1
  <2> QED
    BY <2>2, <2>3 DEF Matching
<1>6. w.stable \subseteq s.stable
  BY <1>4
<1> QED
  BY <1>4, <1>5, <1>6 DEF PagesInv, w, l1

(* What two sequences joined hold at their places.                          *)
LEMMA JoinedAt ==
    ASSUME NEW S, NEW p \in Seq(S), NEW q \in Seq(S)
    PROVE  /\ Len(p \o q) = Len(p) + Len(q) /\ DOMAIN (p \o q) = 1 .. Len(p) + Len(q)
           /\ \A i \in 1 .. Len(p) : (p \o q)[i] = p[i]
           /\ \A i \in 1 .. Len(q) : (p \o q)[Len(p) + i] = q[i]
<1>1. p \o q \in Seq(S) /\ Len(p \o q) = Len(p) + Len(q) /\ Len(p) \in Nat /\ Len(q) \in Nat
  OBVIOUS
<1>2. \A i \in 1 .. Len(p) + Len(q) : (p \o q)[i] = IF i <= Len(p) THEN p[i] ELSE q[i - Len(p)]
  BY ConcatProperties
<1>3. ASSUME NEW i \in 1 .. Len(q) PROVE (p \o q)[Len(p) + i] = q[i]
  <2>1. Len(p) + i \in 1 .. Len(p) + Len(q) /\ ~(Len(p) + i <= Len(p)) /\ Len(p) + i - Len(p) = i
    BY <1>1
  <2> QED
    BY <1>2, <2>1, SMTT(30)
<1>4. \A i \in 1 .. Len(p) : i \in 1 .. Len(p) + Len(q) /\ i <= Len(p)
  BY <1>1
<1> QED
  BY <1>1, <1>2, <1>3, <1>4

(* A page after a cursor goes on from what was seen before it.              *)
LEMMA RisesOn ==
    ASSUME NEW p \in Seq(Shapes), NEW q \in Seq(Shapes), NEW cursor, Rises(p),
           p = <<>> \/ EndsIn(p, cursor),
           \A i, j \in 1 .. Len(q) : i < j => Earlier(q[i], q[j]),
           \A i \in 1 .. Len(q) : \A c \in cursor : Before(c, q[i])
    PROVE  Rises(p \o q)
<1>1. PICK n, m \in Nat : n = Len(p) /\ m = Len(q)
  OBVIOUS
<1>2. PICK z : z = p \o q
  OBVIOUS
<1>3. /\ Len(z) = n + m
      /\ \A i \in 1 .. n : z[i] = p[i]
      /\ \A i \in 1 .. m : z[n + i] = q[i]
  BY <1>1, <1>2, JoinedAt
<1>4. (\A i \in 1 .. n : p[i] \in Shapes) /\ (\A i \in 1 .. m : q[i] \in Shapes)
  BY <1>1
<1>5. ASSUME NEW i \in 1 .. n, NEW j \in 1 .. m
      PROVE  Earlier(p[i], q[j]) \/ (i = n /\ j = 1 /\ Level(p[i], q[j]))
  <2>1. p # <<>> /\ n \in 1 .. n
    <3>1. p = <<>> => n = 0
      BY <1>1
    <3> QED
      BY <3>1
  <2>2. n > 1 /\ Earlier(p[n - 1], p[n]) /\ cursor = {Read!EncodeCursor(p[n])}
    BY <1>1, <2>1 DEF EndsIn
  <2>3. p[n] \in Shapes /\ p[i] \in Shapes /\ q[j] \in Shapes /\ n - 1 \in 1 .. n /\ p[n - 1] \in Shapes
    BY <1>4, <2>1, <2>2
  <2>4. \A k \in 1 .. m : Earlier(p[n], q[k]) \/ Level(p[n], q[k])
    <3> TAKE k \in 1 .. m
    <3>1. Before(Read!EncodeCursor(p[n]), q[k]) /\ q[k] \in Shapes
      BY <1>1, <1>4, <2>2
    <3> QED
      BY ONLY <2>3, <3>1, BeforeIs
  <2>5. j = 1 \/ Earlier(p[n], q[j])
    <3>1. CASE j # 1
      <4>1. 1 \in 1 .. m /\ 1 < j
        BY <3>1
      <4>2. Earlier(q[1], q[j]) /\ q[1] \in Shapes
        BY <1>1, <1>4, <4>1
      <4> QED
        BY <2>3, <2>4, <4>1, <4>2, CursorPasses, EarlierOrders
    <3> QED
      BY <3>1
  <2>6. CASE i = n
    BY <2>4, <2>5, <2>6
  <2>7. CASE i # n
    <3>1. Earlier(p[i], p[n])
      <4>1. CASE i = n - 1
        BY <2>2, <4>1
      <4>2. CASE i # n - 1
        <5>1. i < n /\ n # i + 1
          BY <2>7, <4>2
        <5> QED
          BY <1>1, <2>1, <5>1 DEF Rises
      <4> QED
        BY <4>1, <4>2
    <3> QED
      BY <2>3, <2>4, <3>1, CursorPasses, EarlierOrders
  <2> QED
    BY <2>6, <2>7
<1>6. ASSUME NEW i \in 1 .. n + m, NEW j \in 1 .. n + m, i < j
      PROVE  Earlier(z[i], z[j]) \/ (j = i + 1 /\ Level(z[i], z[j]))
  <2>1. CASE j \in 1 .. n
    <3>1. i \in 1 .. n
      BY <1>6, <2>1
    <3> QED
      BY <1>1, <1>3, <1>6, <2>1, <3>1 DEF Rises
  <2>2. CASE j \notin 1 .. n
    <3>1. PICK k \in 1 .. m : k = j - n /\ j = n + k
      BY <2>2
    <3>2. CASE i \in 1 .. n
      <4>1. Earlier(p[i], q[k]) \/ (i = n /\ k = 1 /\ Level(p[i], q[k]))
        BY <1>5, <3>1, <3>2
      <4>2. z[i] = p[i] /\ z[j] = q[k]
        BY <1>3, <3>1, <3>2
      <4> QED
        BY <3>1, <4>1, <4>2
    <3>3. CASE i \notin 1 .. n
      <4>1. PICK h \in 1 .. m : h = i - n /\ i = n + h /\ h < k
        BY <1>6, <3>1, <3>3
      <4> QED
        BY <1>1, <1>3, <3>1, <4>1
    <3> QED
      BY <3>2, <3>3
  <2> QED
    BY <2>1, <2>2
<1> QED
  BY <1>2, <1>3, <1>6 DEF Rises

(* A page is asked for.                                                    *)
LEMMA PageKeepsPages ==
    ASSUME NEW l \in Seq(Read!Records), NEW s, PagesInv(s, l), NEW r \in Read!Records, r.kind = "page"
    PROVE  PagesInv(Read!PassBy(s, r), Append(l, r))
<1> DEFINE w == Read!PassBy(s, r)
           l1 == Append(l, r)
           rows == Read!Rows(l1)
           M == Matching(rows, "exact")
           now == [s EXCEPT !.log = l1]
           got == Read!List(rows, "exact", s.cursor)
           stable == IF s.open THEN s.stable ELSE M
           seen == s.seen \o got.page
<1>0. l1 \in Seq(Read!Records)
  OBVIOUS
<1>1. s \in [log : {l}, open : BOOLEAN, cursor : SUBSET Markers, stable : SUBSET Shapes, seen : Seq(Shapes),
             truncated : BOOLEAN, done : BOOLEAN] /\ s.log = l
  BY DEF PagesInv
<1>2. w = Read!AskPage(now, rows)
  <2>1. now = [s EXCEPT !.log = Append(s.log, r)]
    BY <1>1
  <2>2. now.log = l1
    BY <1>1
  <2> QED
    BY <2>1, <2>2 DEF Read!PassBy
<1>3. s.stable \subseteq M
  <2> SUFFICES ASSUME NEW o \in s.stable PROVE o \in M
    OBVIOUS
  <2>1. o \in Matching(Read!Rows(l), "exact")
    BY DEF PagesInv
  <2>2. o \in rows
    BY <2>1, RowsStay DEF Matching
  <2> QED
    BY <2>1, <2>2 DEF Matching
<1>4. Orderable(rows) /\ M \subseteq rows /\ rows \in SUBSET Shapes
  BY <1>0, RowsOrderable DEF Orderable, Matching
<1>5. /\ now \in [log : {l1}, open : BOOLEAN, cursor : SUBSET Markers, stable : SUBSET Shapes, seen : Seq(Shapes),
                  truncated : BOOLEAN, done : BOOLEAN]
      /\ now.open = s.open /\ now.cursor = s.cursor /\ now.stable = s.stable /\ now.seen = s.seen
      /\ now.truncated = s.truncated /\ now.done = s.done
  <2> HIDE DEF l1
  <2> QED
    BY <1>1
<1>6. CASE s.done
  <2>1. w = now
    BY <1>2, <1>5, <1>6 DEF Read!AskPage
  <2> HIDE DEF w, now, M
  <2> QED
    BY <1>3, <1>5, <2>1 DEF PagesInv, w, M
<1>7. CASE ~s.done
  <2>1. PICK K \in SUBSET M : /\ Orderable(K)
                              /\ got.page = Read!PageSummaries(K, s.cursor).page
                              /\ got.next = Read!PageSummaries(K, s.cursor).next
                              /\ ~got.truncated => K = M
    <3> HIDE DEF rows
    <3> QED
      BY <1>4, ListIs
  <2>2. w = [now EXCEPT !.open = TRUE, !.cursor = got.next, !.stable = stable, !.seen = seen,
                        !.truncated = s.truncated \/ got.truncated, !.done = got.next = {}]
    <3>1. M = {x \in rows : Read!WorkspaceMatch(x, "exact")}
      BY DEF Matching
    <3> HIDE DEF M, now, rows
    <3> QED
      BY <1>2, <1>5, <1>7, <3>1 DEF Read!AskPage
  <2> DEFINE A == Read!ApplyCursor(K, s.cursor)
  <2> HIDE DEF got, M, rows, now
  <2>3. /\ A \in SUBSET K
        /\ got.page \in Seq(A) /\ Len(got.page) \in Nat
        /\ \A j \in 1 .. Len(got.page) : \A a \in A :
              Earlier(a, got.page[j]) => \E i \in 1 .. Len(got.page) : i < j /\ got.page[i] = a
        /\ got.next \in SUBSET Markers
        /\ got.next = {} => Read!Range(got.page) = A
        /\ \A a \in A : a \in Read!Range(got.page) \/ \A c \in got.next : Before(c, a)
    BY <2>1, PageIs
  <2>4. got.page \in Seq(Shapes) /\ M \in SUBSET Shapes
    BY <1>4, <2>1, <2>3
  <2>5. stable \in SUBSET Shapes /\ stable \subseteq M
    BY <1>3, <2>4
  <2>6. seen \in Seq(Shapes)
    BY <1>1, <2>4
  <2> HIDE DEF stable, seen, w
  <2>7. /\ w \in [log : {l1}, open : BOOLEAN, cursor : SUBSET Markers, stable : SUBSET Shapes, seen : Seq(Shapes),
                  truncated : BOOLEAN, done : BOOLEAN]
        /\ w.open = TRUE /\ w.cursor = got.next /\ w.stable = stable /\ w.seen = seen
        /\ w.truncated = (s.truncated \/ got.truncated) /\ w.done = (got.next = {})
    BY <1>5, <2>2, <2>3, <2>5, <2>6
  <2>8. ASSUME ~w.truncated
        PROVE  /\ \A a \in stable : a \in Read!Range(seen) \/ (got.next # {} /\ \A c \in got.next : Before(c, a))
               /\ \A a, b \in stable : Earlier(a, b) =>
                     \A j \in 1 .. Len(seen) : seen[j] = b => \E i \in 1 .. Len(seen) : i < j /\ seen[i] = a
    <3>1. ~s.truncated /\ ~got.truncated /\ K = M
      BY <2>1, <2>7, <2>8
    <3>2. /\ \A a \in s.stable : a \in Read!Range(s.seen) \/ \A c \in s.cursor : Before(c, a)
          /\ \A a, b \in s.stable : Earlier(a, b) =>
                \A j \in 1 .. Len(s.seen) : s.seen[j] = b => \E i \in 1 .. Len(s.seen) : i < j /\ s.seen[i] = a
          /\ ~s.open => s.cursor = {} /\ s.seen = <<>>
      BY <3>1 DEF PagesInv
    <3>3. PICK n, m \in Nat : n = Len(s.seen) /\ m = Len(got.page) /\ s.seen \in Seq(Shapes)
      BY <1>1, <2>3
    <3>4. /\ Len(seen) = n + m /\ DOMAIN seen = 1 .. n + m
          /\ \A i \in 1 .. n : seen[i] = s.seen[i]
          /\ \A i \in 1 .. m : seen[n + i] = got.page[i]
      <4>1. /\ Len(s.seen \o got.page) = Len(s.seen) + Len(got.page)
            /\ DOMAIN (s.seen \o got.page) = 1 .. Len(s.seen) + Len(got.page)
            /\ \A i \in 1 .. Len(s.seen) : (s.seen \o got.page)[i] = s.seen[i]
            /\ \A i \in 1 .. Len(got.page) : (s.seen \o got.page)[Len(s.seen) + i] = got.page[i]
        <5> HIDE DEF seen
        <5> DEFINE p == s.seen
                   q == got.page
        <5>1. p \in Seq(Shapes) /\ q \in Seq(Shapes)
          BY <2>4, <3>3
        <5> HIDE DEF p, q
        <5>2. /\ Len(p \o q) = Len(p) + Len(q)
              /\ DOMAIN (p \o q) = 1 .. Len(p) + Len(q)
              /\ \A i \in 1 .. Len(p) : (p \o q)[i] = p[i]
              /\ \A i \in 1 .. Len(q) : (p \o q)[Len(p) + i] = q[i]
          BY ONLY <5>1, JoinedAt, SMTT(30)
        <5> QED
          BY <5>2, Zenon DEF p, q
      <4>2. seen = s.seen \o got.page
        BY DEF seen
      <4> QED
        BY <3>3, <4>1, <4>2
    <3>5. DOMAIN s.seen = 1 .. n /\ DOMAIN got.page = 1 .. m
      BY <2>4, <3>3
    <3>6. (\A i \in 1 .. n : i \in 1 .. n + m) /\ (\A i \in 1 .. m : n + i \in 1 .. n + m /\ n + i > n)
      OBVIOUS
    <3>7. Read!Range(s.seen) \subseteq Read!Range(seen) /\ Read!Range(got.page) \subseteq Read!Range(seen)
      BY <3>4, <3>5, <3>6 DEF Read!Range
    <3>8. ASSUME NEW a \in stable PROVE a \in Read!Range(s.seen) \/ a \in A
      <4>1. a \in K
        BY <2>5, <3>1
      <4>2. CASE s.open
        BY <3>2, <4>1, <4>2 DEF stable, Read!ApplyCursor, Before
      <4>3. CASE ~s.open
        BY <3>2, <4>1, <4>3 DEF Read!ApplyCursor
      <4> QED
        BY <4>2, <4>3
    <3> HIDE DEF A
    <3>9. ASSUME NEW a \in stable PROVE a \in Read!Range(seen) \/ (got.next # {} /\ \A c \in got.next : Before(c, a))
      BY <2>3, <3>7, <3>8
    <3>10. ASSUME NEW a \in stable, NEW b \in stable, Earlier(a, b), NEW j \in 1 .. Len(seen), seen[j] = b
           PROVE  \E i \in 1 .. Len(seen) : i < j /\ seen[i] = a
      <4>1. CASE j \in 1 .. n
        <5>1. s.open
          <6>1. ~s.open => n = 0
            BY <3>2, <3>3
          <6> QED
            BY <4>1, <6>1
        <5>2. a \in s.stable /\ b \in s.stable /\ s.seen[j] = b
          BY <3>4, <3>10, <4>1, <5>1 DEF stable
        <5>3. PICK i \in 1 .. n : i < j /\ s.seen[i] = a
          BY <3>2, <3>3, <3>10, <4>1, <5>2
        <5> QED
          BY <3>4, <3>6, <5>3
      <4>2. CASE j \notin 1 .. n
        <5>0. j \in 1 .. n + m
          BY <3>4
        <5>1. j \in Nat /\ j > n /\ j - n \in 1 .. m /\ n + (j - n) = j
          BY <4>2, <5>0
        <5>2. got.page[j - n] = b
          BY <3>4, <3>10, <5>1
        <5>3. CASE a \in Read!Range(s.seen)
          <6>1. PICK i \in 1 .. n : s.seen[i] = a
            BY <3>5, <5>3 DEF Read!Range
          <6>2. i < j
            BY <5>1
          <6> QED
            BY <3>4, <3>6, <6>1, <6>2
        <5>4. CASE a \in A
          <6>1. PICK i \in 1 .. m : i < j - n /\ got.page[i] = a
            BY <2>3, <3>3, <3>10, <5>1, <5>2, <5>4
          <6>2. n + i < j
            BY <5>1, <6>1
          <6> QED
            BY <3>4, <3>6, <6>1, <6>2
        <5> QED
          BY <3>8, <5>3, <5>4
      <4> QED
        BY <4>1, <4>2
    <3> QED
      BY <3>9, <3>10
  <2>10. ASSUME Cap > 1 PROVE Rises(w.seen) /\ (w.open /\ ~w.done => EndsIn(w.seen, w.cursor))
    <3>1. PICK p, q \in Seq(Shapes) : p = s.seen /\ q = got.page
      BY <1>1, <2>4
    <3>2. /\ \A i, j \in 1 .. Len(q) : i < j => Earlier(q[i], q[j])
          /\ got.next # {} => Len(q) = Cap /\ got.next = {Read!EncodeCursor(q[Cap])}
      BY <2>1, <3>1, PageRises
    <3>3. \A i \in 1 .. Len(q) : \A c \in s.cursor : Before(c, q[i])
      <4>1. \A i \in 1 .. Len(q) : q[i] \in A
        BY <2>3, <3>1
      <4> QED
        BY <4>1 DEF Read!ApplyCursor, Before
    <3>4. Rises(p) /\ (p = <<>> \/ EndsIn(p, s.cursor))
      BY <1>7, <2>10, <3>1 DEF PagesInv
    <3>5. Rises(p \o q)
      BY ONLY <3>1, <3>2, <3>3, <3>4, RisesOn
    <3>6. w.seen = p \o q
      BY <2>7, <3>1 DEF seen
    <3>7. ASSUME ~w.done PROVE EndsIn(w.seen, w.cursor)
      <4>1. Len(q) = Cap /\ w.cursor = {Read!EncodeCursor(q[Cap])}
        BY <2>7, <3>2, <3>7
      <4>2. PICK n \in Nat : n = Len(p)
        BY <3>1
      <4>3. Cap \in Nat /\ Cap - 1 \in 1 .. Len(q) /\ Cap \in 1 .. Len(q)
        BY <2>10, <4>1, CeilingAssumption
      <4>4. Len(w.seen) = n + Cap /\ \A i \in 1 .. Len(q) : w.seen[n + i] = q[i]
        <5>0. p \in Seq(Shapes) /\ q \in Seq(Shapes)
          BY <3>1
        <5>1. /\ Len(p \o q) = Len(p) + Len(q)
              /\ DOMAIN (p \o q) = 1 .. Len(p) + Len(q)
              /\ \A i \in 1 .. Len(p) : (p \o q)[i] = p[i]
              /\ \A i \in 1 .. Len(q) : (p \o q)[Len(p) + i] = q[i]
          BY ONLY <5>0, JoinedAt, SMTT(30)
        <5> QED
          BY <3>6, <4>1, <4>2, <5>1
      <4>5. w.seen[n + Cap] = q[Cap] /\ w.seen[n + Cap - 1] = q[Cap - 1]
        <5>1. n + (Cap - 1) = n + Cap - 1
          BY <4>2, <4>3
        <5> QED
          BY <4>3, <4>4, <5>1
      <4>6. Earlier(q[Cap - 1], q[Cap]) /\ n + Cap > 1
        BY <2>10, <3>2, <4>2, <4>3
      <4> QED
        BY <4>1, <4>4, <4>5, <4>6 DEF EndsIn
    <3> QED
      BY <3>5, <3>6, <3>7
  <2> HIDE DEF l1
  <2>9. w.stable \subseteq Matching(Read!Rows(l1), "exact")
    BY <2>5, <2>7 DEF M, rows
  <2> QED
    BY <2>7, <2>8, <2>9, <2>10 DEF PagesInv, w, l1
<1> QED
  BY <1>1, <1>6, <1>7

(* Every write and every page keep the invariant.                           *)
LEMMA PagesStep ==
    ASSUME NEW l \in Seq(Read!Records), NEW r \in Read!Records, PagesInv(Read!Pages(l), l)
    PROVE  PagesInv(Read!Pages(Append(l, r)), Append(l, r))
<1>1. CASE r.kind = "page"
  BY <1>1, PagesAfter, PageKeepsPages
<1>2. CASE r.kind # "page"
  BY <1>2, PagesAfter, WriteKeepsPages
<1> QED
  BY <1>1, <1>2

(* Whoever follows the cursors to the end.                                 *)
LEMMA PagesShowAll ==
    ASSUME NEW l \in Seq(Read!Records), PagesInv(Read!Pages(l), l)
    PROVE  LET s == Read!Pages(l)
           IN  s.done /\ ~s.truncated =>
                   /\ s.stable \subseteq Read!Range(s.seen)
                   /\ \A a, b \in s.stable : Read!Less(Read!Key(a), Read!Key(b)) =>
                          Read!SelectInSeq(s.seen, LAMBDA r : r = a) < Read!SelectInSeq(s.seen, LAMBDA r : r = b)
<1> DEFINE s == Read!Pages(l)
           at(a) == {i \in 1 .. Len(s.seen) : s.seen[i] = a}
           first(a) == IF at(a) # {} THEN Read!Min(at(a)) ELSE 0
<1> HIDE DEF s
<1>1. SUFFICES ASSUME s.done, ~s.truncated
               PROVE  /\ s.stable \subseteq Read!Range(s.seen)
                      /\ \A a, b \in s.stable : Before(a, b) => first(a) < first(b)
  BY DEF s, Before, Read!SelectInSeq
<1>2. /\ s.stable \in SUBSET Shapes /\ s.seen \in Seq(Shapes) /\ s.stable \subseteq Read!Range(s.seen)
      /\ \A a, b \in s.stable : Earlier(a, b) =>
            \A j \in 1 .. Len(s.seen) : s.seen[j] = b => \E i \in 1 .. Len(s.seen) : i < j /\ s.seen[i] = a
  BY <1>1 DEF PagesInv, s
<1>3. Len(s.seen) \in Nat /\ DOMAIN s.seen = 1 .. Len(s.seen)
  BY <1>2
<1>4. ASSUME NEW a \in s.stable PROVE first(a) \in at(a) /\ first(a) \in Nat /\ \A i \in at(a) : first(a) <= i
  <2>1. at(a) # {} /\ at(a) \in SUBSET Nat
    BY <1>2, <1>3 DEF Read!Range
  <2> HIDE DEF at
  <2>2. \E x \in at(a) : \A y \in at(a) : x <= y
    BY <2>1, LeastOf
  <2>3. Read!Min(at(a)) \in at(a) /\ \A y \in at(a) : Read!Min(at(a)) <= y
    BY <2>2 DEF Read!Min
  <2> QED
    BY <2>1, <2>3
<1>5. ASSUME NEW a \in s.stable, NEW b \in s.stable, Before(a, b) PROVE first(a) < first(b)
  <2>1. Earlier(a, b)
    BY <1>2, <1>5, BeforeIs
  <2>2. first(b) \in at(b) /\ first(a) \in Nat /\ first(b) \in Nat
    BY <1>4
  <2>3. PICK j \in 1 .. Len(s.seen) : j = first(b) /\ s.seen[j] = b
    BY <2>2
  <2>4. PICK i \in 1 .. Len(s.seen) : i < j /\ s.seen[i] = a
    BY <1>2, <2>1, <2>3
  <2>5. first(a) <= i
    BY <1>4, <2>4
  <2> HIDE DEF first
  <2> QED
    BY <1>3, <2>2, <2>3, <2>4, <2>5
<1> QED
  BY <1>2, <1>5

(* The page after the last: nothing, or fewer rows to come.                *)
LEMMA PagesEnd ==
    ASSUME NEW rows, Orderable(rows), NEW s, s.cursor \in SUBSET Markers, Cap > 1,
           s \in [log : {s.log}, open : BOOLEAN, cursor : SUBSET Markers, stable : SUBSET Shapes, seen : Seq(Shapes),
                  truncated : BOOLEAN, done : BOOLEAN],
           NEW t, t = Read!AskPage(s, rows), ~t.done
    PROVE  Read!Waiting(t, rows) \subseteq Read!Waiting(s, rows) /\ Read!Waiting(t, rows) # Read!Waiting(s, rows)
<1> DEFINE M == Matching(rows, "exact")
           got == Read!List(rows, "exact", s.cursor)
<1>1. rows \in SUBSET Shapes /\ Cap \in Nat /\ M \subseteq rows
  BY CeilingAssumption DEF Orderable, Matching
<1>2. ~s.done /\ t.cursor = got.next /\ got.next # {}
  <2>1. ~s.done
    BY DEF Read!AskPage
  <2> HIDE DEF got
  <2>2. t.cursor = got.next /\ t.done = (got.next = {})
    BY <2>1 DEF Read!AskPage, got
  <2> QED
    BY <2>1, <2>2
<1>3. PICK K \in SUBSET M : /\ Orderable(K)
                           /\ got.page = Read!PageSummaries(K, s.cursor).page
                           /\ got.next = Read!PageSummaries(K, s.cursor).next
  BY ListIs
<1> HIDE DEF got, M
<1>4. got.page \in Seq(Read!ApplyCursor(K, s.cursor))
  BY <1>3, PageIs
<1>5. /\ \A i, j \in 1 .. Len(got.page) : i < j => Earlier(got.page[i], got.page[j])
      /\ Len(got.page) = Cap /\ got.next = {Read!EncodeCursor(got.page[Cap])}
  BY <1>2, <1>3, PageRises
<1>6. 1 \in 1 .. Cap /\ Cap \in 1 .. Cap /\ 1 < Cap
  BY <1>1
<1>7. PICK x, y : x = got.page[1] /\ y = got.page[Cap]
  OBVIOUS
<1>8. x \in Read!ApplyCursor(K, s.cursor) /\ y \in Read!ApplyCursor(K, s.cursor) /\ Earlier(x, y)
  BY <1>4, <1>5, <1>6, <1>7
<1>9. /\ x \in rows /\ y \in rows /\ x \in Shapes /\ y \in Shapes
      /\ \A c \in s.cursor : Before(c, x) /\ Before(c, y)
  BY <1>1, <1>3, <1>8 DEF Read!ApplyCursor, Before
<1>10. \A q : Read!Waiting(q, rows) = {r \in rows : \A c \in q.cursor : Before(c, r)}
  BY DEF Read!Waiting, Read!ApplyCursor, Before
<1>11. t.cursor = {Read!EncodeCursor(y)}
  BY <1>2, <1>5, <1>7
<1>12. ASSUME NEW r \in rows, Before(Read!EncodeCursor(y), r) PROVE \A c \in s.cursor : Before(c, r)
  <2>1. r \in Shapes
    BY <1>1
  <2>2. Earlier(y, r) \/ Level(y, r)
    BY ONLY <1>9, <1>12, <2>1, BeforeIs
  <2> QED
    BY <1>9, <2>1, <2>2, CursorPasses
<1>13. ~Before(Read!EncodeCursor(y), x)
  <2>1. ~Earlier(y, x) /\ ~Level(y, x)
    BY <1>8, <1>9, CursorPasses
  <2> QED
    BY ONLY <1>9, <2>1, BeforeIs
<1>14. x \in Read!Waiting(s, rows) /\ x \notin Read!Waiting(t, rows)
  BY <1>9, <1>10, <1>11, <1>13
<1> QED
  BY <1>10, <1>11, <1>12, <1>14

LEMMA PagesPromise ==
    ASSUME NEW l \in Seq(Read!Records), PagesInv(Read!Pages(l), l)
    PROVE  Read!PagesCover(l)
<1> DEFINE s == Read!Pages(l)
           next == Read!AskPage(s, Read!Rows(l))
<1>1. s.done /\ ~s.truncated =>
          /\ s.stable \subseteq Read!Range(s.seen)
          /\ \A a, b \in s.stable : Read!Less(Read!Key(a), Read!Key(b)) =>
                 Read!SelectInSeq(s.seen, LAMBDA r : r = a) < Read!SelectInSeq(s.seen, LAMBDA r : r = b)
  BY PagesShowAll
<1> HIDE DEF s
<1>2. /\ s \in [log : {l}, open : BOOLEAN, cursor : SUBSET Markers, stable : SUBSET Shapes, seen : Seq(Shapes),
                truncated : BOOLEAN, done : BOOLEAN]
      /\ Cap > 1 => Rises(s.seen)
  BY DEF PagesInv, s
<1>3. ASSUME Cap > 1, NEW i \in DOMAIN s.seen, NEW j \in DOMAIN s.seen, i < j
      PROVE  \/ Read!Less(Read!Key(s.seen[i]), Read!Key(s.seen[j]))
             \/ j = i + 1 /\ Read!Key(s.seen[i]) = Read!Key(s.seen[j])
  <2>1. PICK q \in Seq(Shapes) : q = s.seen
    BY <1>2
  <2>2. i \in 1 .. Len(q) /\ j \in 1 .. Len(q) /\ q[i] \in Shapes /\ q[j] \in Shapes
    BY <1>3, <2>1
  <2>3. Earlier(q[i], q[j]) \/ (j = i + 1 /\ Level(q[i], q[j]))
    BY <1>2, <1>3, <2>1, <2>2 DEF Rises
  <2>4. Before(q[i], q[j]) \/ (j = i + 1 /\ Read!Key(q[i]) = Read!Key(q[j]))
    BY <2>2, <2>3, BeforeIs, CursorPasses
  <2> QED
    BY <2>1, <2>4 DEF Before
<1>4. ASSUME Cap > 1
      PROVE  next.done \/ /\ Read!Waiting(next, Read!Rows(l)) \subseteq Read!Waiting(s, Read!Rows(l))
                          /\ Read!Waiting(next, Read!Rows(l)) # Read!Waiting(s, Read!Rows(l))
  <2>1. PICK rows : rows = Read!Rows(l)
    OBVIOUS
  <2>2. Orderable(rows)
    BY <2>1, RowsOrderable
  <2>3. PICK t : t = Read!AskPage(s, rows)
    OBVIOUS
  <2>4. s.log = l /\ s.cursor \in SUBSET Markers
    BY <1>2
  <2>5. t.done \/ (Read!Waiting(t, rows) \subseteq Read!Waiting(s, rows) /\ Read!Waiting(t, rows) # Read!Waiting(s, rows))
    BY <1>2, <1>4, <2>2, <2>3, <2>4, PagesEnd
  <2> QED
    BY <2>1, <2>3, <2>5
<1> QED
  BY <1>1, <1>3, <1>4 DEF Read!PagesCover, s

-----------------------------------------------------------------------------
(* The commands that answer, and their logs.                               *)
AnswersInv ==
    /\ command = "read" => log \in Seq(Read!Records) /\ PagesInv(Read!Pages(log), log)
    /\ command = "sweep" => log \in Seq(Sweeps!Records)
    /\ command = "charge" => log \in Seq(Calls) /\ BudgetInv(Charges!After(log))
    /\ command = "handoff" => log \in Seq(Hand!Records)

(* It holds at the start.                                                   *)
LEMMA AnswersInit == Init => AnswersInv
BY EmptyLog, PagesInit, ChargeInit DEF Init, AnswersInv

(* Every step keeps it.                                                     *)
LEMMA AnswersStep == AnswersInv /\ [Next]_vars => AnswersInv'
<1> SUFFICES ASSUME AnswersInv, [Next]_vars PROVE AnswersInv'
  OBVIOUS
<1>1. CASE Next
  <2>0. command' = command
    BY <1>1, StepIs
  <2>1. ASSUME command = "read" PROVE log' \in Seq(Read!Records) /\ PagesInv(Read!Pages(log'), log')
    <3>1. PICK r \in Read!Records : log' = Append(log, r)
      BY <1>1, <2>1, StepIs
    <3>2. log \in Seq(Read!Records) /\ PagesInv(Read!Pages(log), log)
      BY <2>1 DEF AnswersInv
    <3> QED
      BY <3>1, <3>2, PagesStep, AppendedAt
  <2>2. ASSUME command = "sweep" PROVE log' \in Seq(Sweeps!Records)
    <3>1. PICK r \in Sweeps!Records : log' = Append(log, r)
      BY <1>1, <2>2, StepIs
    <3>2. log \in Seq(Sweeps!Records)
      BY <2>2 DEF AnswersInv
    <3> QED
      BY <3>1, <3>2, AppendedAt
  <2>3. ASSUME command = "charge" PROVE log' \in Seq(Calls) /\ BudgetInv(Charges!After(log'))
    <3>1. PICK r \in Charges!NextRecords(log) : log' = Append(log, r)
      BY <1>1, <2>3, StepIs
    <3>2. log \in Seq(Calls) /\ BudgetInv(Charges!After(log))
      BY <2>3 DEF AnswersInv
    <3> QED
      BY <3>1, <3>2, ChargeStep
  <2>4. ASSUME command = "handoff" PROVE log' \in Seq(Hand!Records)
    <3>1. PICK r \in Hand!Records : log' = Append(log, r)
      BY <1>1, <2>4, StepIs
    <3>2. log \in Seq(Hand!Records)
      BY <2>4 DEF AnswersInv
    <3> QED
      BY <3>1, <3>2, AppendedAt
  <2> QED
    BY <2>0, <2>1, <2>2, <2>3, <2>4 DEF AnswersInv
<1>2. CASE UNCHANGED vars
  BY <1>2 DEF vars, AnswersInv
<1> QED
  BY <1>1, <1>2

(* It implies what the answers promise.                                     *)
LEMMA AnswersHold == AnswersInv => AnswersAreComplete
<1> SUFFICES ASSUME AnswersInv PROVE AnswersAreComplete
  OBVIOUS
<1>1. command = "read" => Read!PagesCover(log) /\ Read!ShowSelectsListed(log)
  BY PagesPromise, ShowSelects DEF AnswersInv
<1>2. command = "sweep" => Sweeps!FailuresAreIsolated(log) /\ Sweeps!SearchFindsAll(log)
  BY FailuresIsolated, SearchFinds DEF AnswersInv
<1>3. command = "charge" => Charges!EveryChargeOnce(log)
  BY DEF AnswersInv, BudgetInv, Charges!EveryChargeOnce
<1>4. command = "handoff" => Hand!HandoffIsHonest(log)
  BY HandoffHonest DEF AnswersInv
<1> QED
  BY <1>1, <1>2, <1>3, <1>4 DEF AnswersAreComplete

(* What is answered is complete or says that it is not: for any store, any  *)
(* ceilings and any number of writes, pages, troubles, charges and turns.   *)
THEOREM AnswersComplete == Spec => []AnswersAreComplete
<1>1. Spec => []AnswersInv
  BY AnswersInit, AnswersStep, PTL DEF Spec
<1> QED
  BY <1>1, AnswersHold, PTL

-----------------------------------------------------------------------------
(* The installer's log, when that is what is done.                          *)
WindowsRootInv == command = "windows" => WindowsInv(log)

(* It holds at the start.                                                   *)
LEMMA WindowsRootInit == Init => WindowsRootInv
BY WindowsInit DEF Init, WindowsRootInv

(* Every step keeps it.                                                     *)
LEMMA WindowsRootStep == WindowsRootInv /\ [Next]_vars => WindowsRootInv'
<1> SUFFICES ASSUME WindowsRootInv, [Next]_vars PROVE WindowsRootInv'
  OBVIOUS
<1>1. CASE Next
  <2>1. command' = command
    BY <1>1, StepIs
  <2>2. ASSUME command = "windows" PROVE WindowsInv(log')
    <3>1. PICK r \in NextRecords(log) : log' = Append(log, r)
      BY <1>1, <2>2, StepIs
    <3>2. WindowsInv(log)
      BY <2>2 DEF WindowsRootInv
    <3> QED
      BY <3>1, <3>2, WindowsStep
  <2> QED
    BY <2>1, <2>2 DEF WindowsRootInv
<1>2. CASE UNCHANGED vars
  BY <1>2 DEF vars, WindowsRootInv
<1> QED
  BY <1>1, <1>2

(* It implies what the Windows installer promises.                          *)
LEMMA WindowsRootHolds == WindowsRootInv => WindowsRootIsSafe
BY WindowsPromise DEF WindowsRootInv, WindowsRootIsSafe

(* Whatever was installed, removed, undone and edited, and wherever a       *)
(* command died or failed: an install was done or is undone, a user's file  *)
(* stays, no file is without an owner and a completed install is verified.  *)
THEOREM WindowsIsSafe == Spec => []WindowsRootIsSafe
<1>1. Spec => []WindowsRootInv
  BY WindowsRootInit, WindowsRootStep, PTL DEF Spec
<1> QED
  BY <1>1, WindowsRootHolds, PTL
=============================================================================
