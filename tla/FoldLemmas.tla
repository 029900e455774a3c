------------------------------ MODULE FoldLemmas -----------------------------
(***************************************************************************)
(* What FoldLeft computes, for any operator.  A proof that needs it of one *)
(* operator takes an instance with that operator for Op.                   *)
(***************************************************************************)
EXTENDS Integers, Sequences, SequenceTheorems, WellFoundedInduction, TLAPS

CONSTANT Op(_, _)

Max(t) == CHOOSE x \in t : \A y \in t : x >= y

(* FoldLeft of the community modules with its definition unfolded, so that  *)
(* an instance does not bring all of them with it.                          *)
Unfolds(g, b, s) == g = [t \in SUBSET DOMAIN s |-> IF t = {} THEN b ELSE Op(g[t \ {Max(t)}], s[Max(t)])]
Fold(b, s) == (CHOOSE g : Unfolds(g, b, s))[DOMAIN s]

(* Both sequences have the first n elements, and the same ones.            *)
Agree(n, s, s1) == 1 .. n \subseteq DOMAIN s /\ 1 .. n \subseteq DOMAIN s1 /\ \A i \in 1 .. n : s1[i] = s[i]

(* Induction, over a set of numbers.                                       *)
LEMMA InductionOverSet ==
    ASSUME NEW T \in SUBSET Nat, 0 \in T, \A n \in T : n + 1 \in T
    PROVE  T = Nat
<1>1. SUFFICES ASSUME Nat \ T # {} PROVE FALSE
  OBVIOUS
<1>2. PICK x \in Nat \ T : \A y \in Nat \ T : ~(<<y, x>> \in OpToRel(<, Nat))
  BY <1>1, NatLessThanWellFounded, WFMin
<1>3. x # 0 /\ x \in Nat
  OBVIOUS
<1>4. x - 1 \in Nat /\ x - 1 + 1 = x /\ x - 1 < x
  BY <1>3
<1>5. x - 1 \in T
  BY <1>2, <1>4 DEF OpToRel
<1> QED
  BY <1>4, <1>5

(* The greatest place of a set that has the last one.                       *)
LEMMA MaxOfTop ==
    ASSUME NEW n \in Nat, NEW t \in SUBSET (1 .. n), n \in t
    PROVE  Max(t) = n
<1>1. \A y \in t : y \in Int /\ n >= y
  OBVIOUS
<1>2. Max(t) \in t /\ \A y \in t : Max(t) >= y
  BY <1>1 DEF Max
<1>3. PICK m \in t : m = Max(t)
  BY <1>2
<1>4. m \in Int /\ m >= n /\ n >= m
  BY <1>1, <1>2, <1>3
<1>5. m = n
  BY <1>4
<1> QED
  BY <1>3, <1>5

(* The greatest number of a bounded set.                                   *)
LEMMA GreatestOf ==
    ASSUME NEW n \in Nat, NEW t \in SUBSET (1 .. n), t # {}
    PROVE  Max(t) \in t /\ \A y \in t : y <= Max(t)
<1> DEFINE T == {n - y : y \in t}
<1>1. T \in SUBSET Nat /\ T # {}
  <2>1. \A y \in t : y \in 1 .. n
    OBVIOUS
  <2>2. \A y \in t : n - y \in Nat
    BY <2>1
  <2> QED
    BY <2>2
<1>2. PICK z \in T : \A y \in T : ~(<<y, z>> \in OpToRel(<, Nat))
  BY <1>1, NatLessThanWellFounded, WFMin
<1>3. PICK x \in t : z = n - x
  OBVIOUS
<1>4. ASSUME NEW y \in t PROVE x >= y
  <2>1. n - y \in T /\ n - y \in Nat /\ z \in Nat
    BY <1>1
  <2>2. ~(n - y < z)
    BY <1>2, <2>1 DEF OpToRel
  <2> QED
    BY <1>3, <2>2
<1>5. \E m \in t : \A y \in t : m >= y
  BY <1>4
<1>6. Max(t) \in t /\ \A y \in t : Max(t) >= y
  BY <1>5 DEF Max
<1> QED
  BY <1>6

(* A fold is what its unfolding takes the whole domain to.                  *)
LEMMA FoldIsUnfolded == \A b, s : Fold(b, s) = (CHOOSE g : Unfolds(g, b, s))[DOMAIN s]
  BY DEF Fold

(* One more element unfolds the fold by one.                                *)
LEMMA UnfoldsOneMore ==
    ASSUME NEW n \in Nat, NEW b, NEW s, NEW s1, NEW g, Unfolds(g, b, s),
           DOMAIN s = 1 .. n, DOMAIN s1 = 1 .. n + 1, \A i \in 1 .. n : s1[i] = s[i]
    PROVE  \E h : Unfolds(h, b, s1)
<1> DEFINE f(t) == IF n + 1 \in t THEN Op(g[t \ {n + 1}], s1[n + 1]) ELSE g[t]
           h == [t \in SUBSET (1 .. n + 1) |-> f(t)]
<1>1. ASSUME NEW t \in SUBSET (1 .. n + 1)
      PROVE  h[t] = IF t = {} THEN b ELSE Op(h[t \ {Max(t)}], s1[Max(t)])
  <2>1. CASE n + 1 \in t
    <3>1. Max(t) = n + 1
      BY <2>1, MaxOfTop, n + 1 \in Nat
    <3>2. t \ {n + 1} \in SUBSET (1 .. n + 1) /\ n + 1 \notin t \ {n + 1}
      OBVIOUS
    <3>3. h[t \ {n + 1}] = g[t \ {n + 1}]
      BY <3>2
    <3> QED
      BY <2>1, <3>1, <3>3
  <2>2. CASE n + 1 \notin t
    <3>1. t \in SUBSET (1 .. n)
      BY <2>2
    <3>2. h[t] = g[t]
      BY <2>2
    <3>3. g[t] = IF t = {} THEN b ELSE Op(g[t \ {Max(t)}], s[Max(t)])
      BY <3>1 DEF Unfolds
    <3>4. CASE t = {}
      BY <3>2, <3>3, <3>4
    <3>5. CASE t # {}
      <4>1. Max(t) \in t
        BY <3>1, <3>5, GreatestOf
      <4>2. s1[Max(t)] = s[Max(t)]
        BY <3>1, <4>1
      <4>3. t \ {Max(t)} \in SUBSET (1 .. n + 1) /\ n + 1 \notin t \ {Max(t)}
        BY <2>2
      <4>4. h[t \ {Max(t)}] = g[t \ {Max(t)}]
        BY <4>3
      <4> QED
        BY <3>2, <3>3, <3>5, <4>2, <4>4
    <3> QED
      BY <3>4, <3>5
  <2> QED
    BY <2>1, <2>2
<1>2. h = [t \in SUBSET DOMAIN s1 |-> IF t = {} THEN b ELSE Op(h[t \ {Max(t)}], s1[Max(t)])]
  BY <1>1
<1> QED
  BY <1>2 DEF Unfolds

(* Every sequence can be unfolded.                                          *)
LEMMA FoldExists ==
    ASSUME NEW b
    PROVE  \A n \in Nat : \A s : DOMAIN s = 1 .. n => \E g : Unfolds(g, b, s)
<1> DEFINE T == {n \in Nat : \A s : DOMAIN s = 1 .. n => \E g : Unfolds(g, b, s)}
<1>1. 0 \in T
  <2>1. ASSUME NEW s, DOMAIN s = 1 .. 0 PROVE \E g : Unfolds(g, b, s)
    <3> DEFINE g == [t \in SUBSET DOMAIN s |-> b]
    <3>1. \A t \in SUBSET DOMAIN s : t = {}
      BY <2>1
    <3>2. g = [t \in SUBSET DOMAIN s |-> IF t = {} THEN b ELSE Op(g[t \ {Max(t)}], s[Max(t)])]
      BY <3>1
    <3> QED
      BY <3>2 DEF Unfolds
  <2> QED
    BY <2>1
<1>2. ASSUME NEW n \in T PROVE n + 1 \in T
  <2>1. ASSUME NEW s1, DOMAIN s1 = 1 .. n + 1 PROVE \E g : Unfolds(g, b, s1)
    <3> DEFINE s == [i \in 1 .. n |-> s1[i]]
    <3>1. DOMAIN s = 1 .. n /\ \A i \in 1 .. n : s1[i] = s[i]
      OBVIOUS
    <3>2. PICK g : Unfolds(g, b, s)
      BY <3>1
    <3> QED
      BY <2>1, <3>1, <3>2, UnfoldsOneMore
  <2> QED
    BY <2>1
<1>3. T = Nat
  <2> HIDE DEF T
  <2> QED
    BY <1>1, <1>2, InductionOverSet, T \in SUBSET Nat DEF T
<1> QED
  BY <1>3

(* Two unfoldings agree where the sequences do.                            *)
LEMMA UnfoldsAgree ==
    ASSUME NEW n \in Nat, NEW b, NEW s, NEW s1, NEW g, NEW h, Unfolds(g, b, s), Unfolds(h, b, s1),
           Agree(n, s, s1)
    PROVE  \A t \in SUBSET (1 .. n) : g[t] = h[t]
<1> DEFINE T == {k \in Nat : k <= n => \A t \in SUBSET (1 .. k) : g[t] = h[t]}
<1>0. \A t \in SUBSET (1 .. n) : /\ g[t] = IF t = {} THEN b ELSE Op(g[t \ {Max(t)}], s[Max(t)])
                                 /\ h[t] = IF t = {} THEN b ELSE Op(h[t \ {Max(t)}], s1[Max(t)])
  BY DEF Unfolds, Agree
<1>1. 0 \in T
  <2>1. \A t \in SUBSET (1 .. 0) : t = {}
    OBVIOUS
  <2>2. {} \in SUBSET (1 .. n)
    OBVIOUS
  <2>3. g[{}] = b /\ h[{}] = b
    BY <1>0, <2>2
  <2> QED
    BY <2>1, <2>3
<1>2. ASSUME NEW k \in T PROVE k + 1 \in T
  <2>1. ASSUME k + 1 <= n, NEW t \in SUBSET (1 .. k + 1) PROVE g[t] = h[t]
    <3>1. k \in Nat /\ k <= n /\ k + 1 \in Nat
      BY <2>1
    <3>2. \A u \in SUBSET (1 .. k) : g[u] = h[u]
      BY <3>1
    <3>3. CASE t = {}
      BY <3>2, <3>3
    <3>4. CASE t # {}
      <4>0. Max(t) \in t /\ \A y \in t : y <= Max(t)
        BY <3>1, <3>4, GreatestOf
      <4>1. \A y \in t : y \in 1 .. k + 1
        OBVIOUS
      <4>2. t \ {Max(t)} \in SUBSET (1 .. k)
        <5>1. ASSUME NEW y \in t, y # Max(t) PROVE y \in 1 .. k
          <6>1. PICK m \in t : m = Max(t) /\ y <= m
            BY <4>0
          <6>2. m \in 1 .. k + 1 /\ y \in 1 .. k + 1 /\ y # m
            BY <4>1, <5>1, <6>1
          <6> QED
            BY <3>1, <6>1, <6>2
        <5> QED
          BY <5>1
      <4>3. t \in SUBSET (1 .. n) /\ Max(t) \in 1 .. n
        <5>1. \A y \in 1 .. k + 1 : y \in 1 .. n
          BY <2>1, <3>1
        <5> QED
          BY <4>1, <4>0, <5>1
      <4>4. s[Max(t)] = s1[Max(t)] /\ g[t \ {Max(t)}] = h[t \ {Max(t)}]
        BY <3>2, <4>2, <4>3 DEF Agree
      <4> QED
        BY <1>0, <3>4, <4>3, <4>4
    <3> QED
      BY <3>3, <3>4
  <2>2. k + 1 <= n => \A t \in SUBSET (1 .. (k + 1)) : g[t] = h[t]
    BY <2>1
  <2>3. k + 1 \in Nat
    OBVIOUS
  <2> QED
    BY <2>2, <2>3
<1>3. T = Nat
  <2> HIDE DEF T
  <2> QED
    BY <1>1, <1>2, InductionOverSet, T \in SUBSET Nat DEF T
<1> QED
  BY <1>3

-----------------------------------------------------------------------------
(* The fold of nothing is where it began.                                   *)
LEMMA FoldEmpty == \A b : Fold(b, <<>>) = b
<1> TAKE b
<1>1. DOMAIN <<>> = 1 .. 0
  OBVIOUS
<1>2. PICK g0 : Unfolds(g0, b, <<>>)
  BY <1>1, FoldExists, 0 \in Nat
<1> DEFINE g == CHOOSE h : Unfolds(h, b, <<>>)
<1>3. Unfolds(g, b, <<>>)
  BY <1>2
<1>4. g[{}] = b
  BY <1>3 DEF Unfolds
<1> QED
  BY <1>1, <1>4, FoldIsUnfolded

(* The fold of a sequence that has one element more.                       *)
LEMMA UnfoldsLast ==
    ASSUME NEW n \in Nat, NEW b, NEW s, NEW s1, NEW g, NEW h, Unfolds(g, b, s), Unfolds(h, b, s1),
           DOMAIN s = 1 .. n, DOMAIN s1 = 1 .. n + 1, \A i \in 1 .. n : s1[i] = s[i]
    PROVE  h[1 .. n + 1] = Op(g[1 .. n], s1[n + 1])
<1>1. Agree(n, s, s1) /\ 1 .. n \in SUBSET (1 .. n)
  BY DEF Agree
<1>2. h[1 .. n] = g[1 .. n]
  BY <1>1, UnfoldsAgree
<1>3. Max(1 .. n + 1) = n + 1
  BY MaxOfTop, n + 1 \in Nat, n + 1 \in 1 .. n + 1
<1>4. (1 .. n + 1) \ {n + 1} = 1 .. n /\ 1 .. n + 1 # {}
  OBVIOUS
<1>5. 1 .. n + 1 \in SUBSET DOMAIN s1
  OBVIOUS
<1>6. h[1 .. n + 1] = IF 1 .. n + 1 = {} THEN b ELSE Op(h[(1 .. n + 1) \ {Max(1 .. n + 1)}], s1[Max(1 .. n + 1)])
  BY <1>5 DEF Unfolds
<1> QED
  BY <1>2, <1>3, <1>4, <1>6

(* One more element is one more operation.                                  *)
LEMMA FoldAppend ==
    ASSUME NEW S, NEW s \in Seq(S), NEW e \in S, NEW b
    PROVE  Fold(b, Append(s, e)) = Op(Fold(b, s), e)
<1>1. PICK n \in Nat : n = Len(s)
  OBVIOUS
<1>2. PICK s1 : s1 = Append(s, e)
  OBVIOUS
<1>3. n + 1 \in Nat /\ DOMAIN s = 1 .. n /\ DOMAIN s1 = 1 .. n + 1
      /\ (\A i \in 1 .. n : s1[i] = s[i]) /\ s1[n + 1] = e
  BY <1>1, <1>2
<1>4. PICK g : g = (CHOOSE f : Unfolds(f, b, s)) /\ Unfolds(g, b, s)
  BY <1>3, FoldExists
<1>5. PICK h : h = (CHOOSE f : Unfolds(f, b, s1)) /\ Unfolds(h, b, s1)
  BY <1>3, FoldExists
<1>6. h[1 .. n + 1] = Op(g[1 .. n], s1[n + 1])
  BY <1>3, <1>4, <1>5, UnfoldsLast
<1>7. Fold(b, s) = g[1 .. n] /\ Fold(b, s1) = h[1 .. n + 1]
  BY <1>3, <1>4, <1>5, FoldIsUnfolded
<1> QED
  BY <1>2, <1>3, <1>6, <1>7

(* The fold along the prefixes of a sequence.                              *)
LEMMA FoldPrefix ==
    ASSUME NEW S, NEW s \in Seq(S), NEW b
    PROVE  /\ Fold(b, SubSeq(s, 1, 0)) = b
           /\ Fold(b, SubSeq(s, 1, Len(s))) = Fold(b, s)
           /\ \A k \in 0 .. Len(s) - 1 : Fold(b, SubSeq(s, 1, k + 1)) = Op(Fold(b, SubSeq(s, 1, k)), s[k + 1])
<1>1. SubSeq(s, 1, 0) = <<>> /\ SubSeq(s, 1, Len(s)) = s
  OBVIOUS
<1>2. ASSUME NEW k \in 0 .. Len(s) - 1
      PROVE  Fold(b, SubSeq(s, 1, k + 1)) = Op(Fold(b, SubSeq(s, 1, k)), s[k + 1])
  <2>1. SubSeq(s, 1, k) \in Seq(S) /\ s[k + 1] \in S
    OBVIOUS
  <2>2. SubSeq(s, 1, k + 1) = Append(SubSeq(s, 1, k), s[k + 1])
    OBVIOUS
  <2> QED
    BY <2>1, <2>2, FoldAppend
<1> QED
  BY <1>1, <1>2, FoldEmpty

-----------------------------------------------------------------------------
(* One sequence after another.                                             *)
LEMMA FoldConcat ==
    ASSUME NEW S, NEW s \in Seq(S), NEW t \in Seq(S), NEW b
    PROVE  Fold(b, s \o t) = Fold(Fold(b, s), t)
<1> DEFINE Holds(k) == Fold(b, s \o SubSeq(t, 1, k)) = Fold(Fold(b, s), SubSeq(t, 1, k))
           T == {k \in Nat : k <= Len(t) => Holds(k)}
<1>1. 0 \in T
  <2>1. SubSeq(t, 1, 0) = <<>> /\ s \o <<>> = s
    OBVIOUS
  <2> QED
    BY <2>1, FoldEmpty
<1>2. ASSUME NEW k \in T PROVE k + 1 \in T
  <2>1. SUFFICES ASSUME k + 1 <= Len(t) PROVE Holds(k + 1)
    OBVIOUS
  <2>2. PICK p : p = SubSeq(t, 1, k)
    OBVIOUS
  <2>3. p \in Seq(S) /\ t[k + 1] \in S /\ SubSeq(t, 1, k + 1) = Append(p, t[k + 1])
    BY <2>1, <2>2
  <2>4. s \o p \in Seq(S) /\ s \o Append(p, t[k + 1]) = Append(s \o p, t[k + 1])
    BY <2>3
  <2>5. Fold(b, s \o p) = Fold(Fold(b, s), p)
    BY <2>1, <2>2, k \in T
  <2>6. Fold(b, Append(s \o p, t[k + 1])) = Op(Fold(b, s \o p), t[k + 1])
    BY <2>3, <2>4, FoldAppend
  <2>7. Fold(Fold(b, s), Append(p, t[k + 1])) = Op(Fold(Fold(b, s), p), t[k + 1])
    BY <2>3, FoldAppend
  <2> QED
    BY <2>3, <2>4, <2>5, <2>6, <2>7
<1>3. T = Nat
  <2>1. T \in SUBSET Nat
    OBVIOUS
  <2> HIDE DEF T
  <2>2. \A k \in T : k + 1 \in T
    BY <1>2
  <2> QED
    BY <1>1, <2>1, <2>2, InductionOverSet
<1>4. Holds(Len(t))
  <2>1. Len(t) \in Nat /\ Len(t) <= Len(t)
    OBVIOUS
  <2> QED
    BY <1>3, <2>1
<1>5. SubSeq(t, 1, Len(t)) = t
  OBVIOUS
<1> QED
  BY <1>4, <1>5

(* The fold of one element.                                                 *)
LEMMA FoldOne ==
    ASSUME NEW b, NEW e
    PROVE  Fold(b, <<e>>) = Op(b, e)
<1>1. <<>> \in Seq({e}) /\ e \in {e} /\ Append(<<>>, e) = <<e>>
  OBVIOUS
<1>2. Fold(b, Append(<<>>, e)) = Op(Fold(b, <<>>), e)
  BY <1>1, FoldAppend
<1> QED
  BY <1>1, <1>2, FoldEmpty

(* From a state of P the sequence leads to one of Q, and each of its        *)
(* elements is met in a state as I says.                                   *)
Leads(P, s, I, Q) ==
    \A b \in P : /\ Fold(b, s) \in Q
                 /\ \A k \in 0 .. Len(s) - 1 : <<Fold(b, SubSeq(s, 1, k)), s[k + 1]>> \in I

(* The same with an element of X left out.                                 *)
LeadsWithout(P, s, X, Q) ==
    \A b \in P : \A k \in 0 .. Len(s) - 1 :
        s[k + 1] \in X => Fold(Fold(b, SubSeq(s, 1, k)), SubSeq(s, k + 2, Len(s))) \in Q

(* No effect leads where one is.                                            *)
LEMMA LeadsNone ==
    ASSUME NEW P, NEW I, NEW Q, P \subseteq Q
    PROVE  Leads(P, <<>>, I, Q)
<1>1. Len(<<>>) = 0 /\ 0 .. 0 - 1 = {}
  OBVIOUS
<1> QED
  BY <1>1, FoldEmpty DEF Leads

(* One leads where it takes every state.                                    *)
LEMMA LeadsOne ==
    ASSUME NEW P, NEW e, NEW I, NEW Q, \A b \in P : Op(b, e) \in Q /\ <<b, e>> \in I
    PROVE  Leads(P, <<e>>, I, Q)
<1>1. Len(<<e>>) = 1 /\ <<e>>[1] = e /\ SubSeq(<<e>>, 1, 0) = <<>>
  OBVIOUS
<1>2. \A k \in 0 .. 1 - 1 : k = 0 /\ k + 1 = 1
  OBVIOUS
<1> QED
  BY <1>1, <1>2, FoldEmpty, FoldOne DEF Leads

(* One that is left out leads nowhere else.                                 *)
LEMMA WithoutOne ==
    ASSUME NEW P, NEW e, NEW X, NEW Q, e \in X => P \subseteq Q
    PROVE  LeadsWithout(P, <<e>>, X, Q)
<1>1. Len(<<e>>) = 1 /\ <<e>>[1] = e /\ SubSeq(<<e>>, 1, 0) = <<>> /\ SubSeq(<<e>>, 2, 1) = <<>>
  OBVIOUS
<1>2. \A k \in 0 .. 1 - 1 : k = 0 /\ k + 1 = 1 /\ k + 2 = 2
  OBVIOUS
<1> QED
  BY <1>1, <1>2, FoldEmpty DEF LeadsWithout

(* A sequence that has no such element.                                    *)
LEMMA WithoutAny ==
    ASSUME NEW S, NEW X, NEW s \in Seq(S), S \cap X = {}, NEW P, NEW Q
    PROVE  LeadsWithout(P, s, X, Q)
<1>1. \A k \in 0 .. Len(s) - 1 : s[k + 1] \in S
  OBVIOUS
<1> QED
  BY <1>1 DEF LeadsWithout

(* The first k of a sequence.                                               *)
LEMMA PrefixAt ==
    ASSUME NEW S, NEW s \in Seq(S), NEW k \in 0 .. Len(s)
    PROVE  SubSeq(s, 1, k) \in Seq(S) /\ Len(SubSeq(s, 1, k)) = k /\ \A i \in 1 .. k : SubSeq(s, 1, k)[i] = s[i]
<1>1. PICK m \in Nat : m = Len(s)
  OBVIOUS
<1>2. k \in Int /\ (\A i \in 1 .. k : s[i] \in S) /\ k - 1 + 1 = k /\ (IF 1 <= k THEN k - 1 + 1 ELSE 0) = k
  BY <1>1
<1>3. /\ SubSeq(s, 1, k) \in Seq(S) /\ Len(SubSeq(s, 1, k)) = (IF 1 <= k THEN k - 1 + 1 ELSE 0)
      /\ \A i \in 1 .. k - 1 + 1 : SubSeq(s, 1, k)[i] = s[1 + i - 1]
  BY <1>2, SubSeqProperties, 1 \in Int
<1>4. \A i \in 1 .. k : 1 + i - 1 = i
  OBVIOUS
<1> QED
  BY <1>2, <1>3, <1>4

(* What comes after the next one.                                           *)
LEMMA RestAt ==
    ASSUME NEW S, NEW s \in Seq(S), NEW m \in Nat, m = Len(s), NEW k \in 0 .. m - 1
    PROVE  /\ SubSeq(s, k + 2, m) \in Seq(S) /\ Len(SubSeq(s, k + 2, m)) = m - (k + 1)
           /\ \A i \in 1 .. m - (k + 1) : SubSeq(s, k + 2, m)[i] = s[i + (k + 1)]
<1>1. PICK a \in Int : a = k + 2
  OBVIOUS
<1>2. /\ \A i \in a .. m : s[i] \in S
      /\ (IF a <= m THEN m - a + 1 ELSE 0) = m - (k + 1) /\ m - a + 1 = m - (k + 1)
  BY <1>1
<1>3. /\ SubSeq(s, a, m) \in Seq(S) /\ Len(SubSeq(s, a, m)) = (IF a <= m THEN m - a + 1 ELSE 0)
      /\ \A i \in 1 .. m - a + 1 : SubSeq(s, a, m)[i] = s[a + i - 1]
  BY <1>2, SubSeqProperties
<1>4. \A i \in 1 .. m - (k + 1) : a + i - 1 = i + (k + 1)
  BY <1>1
<1> QED
  BY <1>1, <1>2, <1>3, <1>4

(* One sequence after another, and where a place in them lies.             *)
Joined(q, s, t, m, n) == q = s \o t /\ m = Len(s) /\ n = Len(t)
Before(k, m, n) == k \in 0 .. m + n - 1 /\ k < m
Beyond(k, m, n) == k \in 0 .. m + n - 1 /\ k >= m

FirstPart(q, s, t, m, n, k) ==
    /\ k \in 0 .. m - 1 /\ SubSeq(q, 1, k) = SubSeq(s, 1, k) /\ q[k + 1] = s[k + 1]
    /\ Len(q) = m + n /\ SubSeq(q, k + 2, m + n) = SubSeq(s, k + 2, m) \o t

SecondPart(q, s, t, m, n, k) ==
    /\ k - m \in 0 .. n - 1 /\ SubSeq(q, 1, k) = s \o SubSeq(t, 1, k - m) /\ q[k + 1] = t[k - m + 1]
    /\ Len(q) = m + n /\ SubSeq(q, k + 2, m + n) = SubSeq(t, k - m + 2, n)

(* A place of the first of two sequences joined.                            *)
LEMMA InFirst ==
    ASSUME NEW S, NEW s \in Seq(S), NEW t \in Seq(S), NEW q, NEW m, NEW n, Joined(q, s, t, m, n),
           NEW k, Before(k, m, n)
    PROVE  FirstPart(q, s, t, m, n, k)
<1>0. m \in Nat /\ n \in Nat /\ k \in 0 .. m + n - 1 /\ k < m
  BY DEF Joined, Before
<1>1. q = s \o t /\ m = Len(s) /\ n = Len(t)
  BY DEF Joined
<1>2. q \in Seq(S) /\ Len(q) = m + n /\ \A i \in 1 .. m + n : q[i] = IF i <= m THEN s[i] ELSE t[i - m]
  BY <1>0, <1>1, ConcatProperties
<1>3. k \in Nat /\ k \in 0 .. m + n /\ k \in 0 .. m + n - 1 /\ k < m + n /\ m + n \in Nat
  BY <1>0, <1>1, <1>2
<1>4. SubSeq(q, 1, k) \in Seq(S) /\ Len(SubSeq(q, 1, k)) = k /\ \A i \in 1 .. k : SubSeq(q, 1, k)[i] = q[i]
  BY <1>0, <1>2, <1>3, PrefixAt
<1>5. /\ SubSeq(q, k + 2, m + n) \in Seq(S) /\ Len(SubSeq(q, k + 2, m + n)) = m + n - (k + 1)
      /\ \A i \in 1 .. m + n - (k + 1) : SubSeq(q, k + 2, m + n)[i] = q[i + (k + 1)]
  BY <1>0, <1>2, <1>3, RestAt
<1>6. k \in 0 .. m - 1 /\ k \in 0 .. m /\ k + 1 \in 1 .. m + n /\ k + 1 <= m
  BY <1>0, <1>3
<1>7. q[k + 1] = s[k + 1]
  BY <1>0, <1>2, <1>6
<1>8. PICK p : p = SubSeq(s, 1, k)
  BY <1>0
<1>9. p \in Seq(S) /\ Len(p) = k /\ \A i \in 1 .. k : p[i] = s[i]
  BY <1>0, <1>1, <1>6, <1>8, PrefixAt
<1>10. \A i \in 1 .. k : i \in 1 .. m + n /\ i <= m
  BY <1>0, <1>6
<1>11. SubSeq(q, 1, k) = p
  BY <1>0, <1>2, <1>4, <1>9, <1>10, SeqEqual
<1>12. PICK rest : rest = SubSeq(s, k + 2, m)
  BY <1>0
<1>13. PICK w \in Nat : w = m - (k + 1)
  BY <1>0, <1>6
<1>14. rest \in Seq(S) /\ Len(rest) = w /\ \A i \in 1 .. w : rest[i] = s[i + (k + 1)]
  BY <1>0, <1>1, <1>6, <1>12, <1>13, RestAt
<1>15. PICK u : u = rest \o t
  BY <1>0
<1>16. u \in Seq(S) /\ Len(u) = w + n /\ \A i \in 1 .. w + n : u[i] = IF i <= w THEN rest[i] ELSE t[i - w]
  BY <1>0, <1>1, <1>14, <1>15, ConcatProperties
<1>17. m + n - (k + 1) = w + n
  BY <1>0, <1>6, <1>13
<1>18. ASSUME NEW i \in 1 .. w + n PROVE q[i + (k + 1)] = u[i]
  <2>1. i + (k + 1) \in 1 .. m + n /\ (i + (k + 1) <= m <=> i <= w) /\ i + (k + 1) - m = i - w
    BY <1>0, <1>6, <1>13
  <2>2. i <= w => i \in 1 .. w
    BY <1>0
  <2>3. PICK x, y \in Int : x = i + (k + 1) /\ y = i - w
    BY <1>0, <1>13
  <2>4. q[x] = IF x <= m THEN s[x] ELSE t[x - m]
    BY <1>0, <1>2, <2>1, <2>3
  <2>5. u[i] = IF i <= w THEN s[x] ELSE t[y]
    BY <1>0, <1>14, <1>16, <2>2, <2>3
  <2> QED
    BY <1>0, <2>1, <2>3, <2>4, <2>5
<1>19. SubSeq(q, k + 2, m + n) = u
  BY <1>0, <1>5, <1>16, <1>17, <1>18, SeqEqual
<1> QED
  BY <1>0, <1>2, <1>6, <1>7, <1>8, <1>11, <1>12, <1>15, <1>19 DEF FirstPart

(* A place of the second.                                                   *)
LEMMA InSecond ==
    ASSUME NEW S, NEW s \in Seq(S), NEW t \in Seq(S), NEW q, NEW m, NEW n, Joined(q, s, t, m, n),
           NEW k, Beyond(k, m, n)
    PROVE  SecondPart(q, s, t, m, n, k)
<1>0. m \in Nat /\ n \in Nat /\ k \in 0 .. m + n - 1 /\ k >= m
  BY DEF Joined, Beyond
<1>1. q = s \o t /\ m = Len(s) /\ n = Len(t)
  BY DEF Joined
<1>2. q \in Seq(S) /\ Len(q) = m + n /\ \A i \in 1 .. m + n : q[i] = IF i <= m THEN s[i] ELSE t[i - m]
  BY <1>0, <1>1, ConcatProperties
<1>3. k \in Nat /\ k \in 0 .. m + n /\ k \in 0 .. m + n - 1 /\ k < m + n /\ m + n \in Nat
  BY <1>0, <1>1, <1>2
<1>4. SubSeq(q, 1, k) \in Seq(S) /\ Len(SubSeq(q, 1, k)) = k /\ \A i \in 1 .. k : SubSeq(q, 1, k)[i] = q[i]
  BY <1>0, <1>2, <1>3, PrefixAt
<1>5. /\ SubSeq(q, k + 2, m + n) \in Seq(S) /\ Len(SubSeq(q, k + 2, m + n)) = m + n - (k + 1)
      /\ \A i \in 1 .. m + n - (k + 1) : SubSeq(q, k + 2, m + n)[i] = q[i + (k + 1)]
  BY <1>0, <1>2, <1>3, RestAt
<1>6. PICK c \in Nat : c = k - m
  BY <1>0, <1>3
<1>7. c \in 0 .. n - 1 /\ c \in 0 .. n /\ k + 1 \in 1 .. m + n /\ ~(k + 1 <= m) /\ k + 1 - m = c + 1 /\ m + c = k
  BY <1>0, <1>3, <1>6
<1>8. q[k + 1] = t[c + 1]
  BY <1>0, <1>2, <1>7
<1>9. PICK p : p = SubSeq(t, 1, c)
  BY <1>0
<1>10. p \in Seq(S) /\ Len(p) = c /\ \A i \in 1 .. c : p[i] = t[i]
  BY <1>0, <1>1, <1>7, <1>9, PrefixAt
<1>11. PICK u : u = s \o p
  BY <1>0
<1>12. u \in Seq(S) /\ Len(u) = k /\ \A i \in 1 .. k : u[i] = IF i <= m THEN s[i] ELSE p[i - m]
  BY <1>0, <1>1, <1>7, <1>10, <1>11, ConcatProperties
<1>13. ASSUME NEW i \in 1 .. k PROVE q[i] = u[i]
  <2>1. i \in 1 .. m + n /\ (~(i <= m) => i - m \in 1 .. c)
    BY <1>0, <1>7, <1>3
  <2> QED
    BY <1>0, <1>2, <1>10, <1>12, <2>1
<1>14. SubSeq(q, 1, k) = u
  BY <1>0, <1>4, <1>12, <1>13, SeqEqual
<1>15. PICK rest : rest = SubSeq(t, c + 2, n)
  BY <1>0
<1>16. rest \in Seq(S) /\ Len(rest) = n - (c + 1) /\ \A i \in 1 .. n - (c + 1) : rest[i] = t[i + (c + 1)]
  <2>1. n \in Nat /\ n = Len(t) /\ c \in 0 .. n - 1
    BY <1>0, <1>1, <1>7
  <2> QED
    BY ONLY t \in Seq(S), <1>15, <2>1, RestAt, SMTT(30)
<1>17. m + n - (k + 1) = n - (c + 1)
  BY <1>0, <1>7
<1>18. ASSUME NEW i \in 1 .. n - (c + 1) PROVE q[i + (k + 1)] = t[i + (c + 1)]
  <2>1. i + (k + 1) \in 1 .. m + n /\ ~(i + (k + 1) <= m) /\ i + (k + 1) - m = i + (c + 1)
    BY <1>0, <1>7
  <2>2. PICK x, y \in Int : x = i + (k + 1) /\ y = i + (c + 1)
    BY <1>0, <1>7
  <2>3. q[x] = IF x <= m THEN s[x] ELSE t[x - m]
    BY <1>0, <1>2, <2>1, <2>2
  <2> QED
    BY <1>0, <2>1, <2>2, <2>3
<1>19. SubSeq(q, k + 2, m + n) = rest
  BY <1>0, <1>5, <1>16, <1>17, <1>18, SeqEqual
<1> QED
  BY <1>0, <1>2, <1>6, <1>7, <1>8, <1>9, <1>11, <1>14, <1>15, <1>19 DEF SecondPart

(* One sequence leads on from where another one led.                       *)
LEMMA LeadsOn ==
    ASSUME NEW S, NEW s \in Seq(S), NEW t \in Seq(S), NEW P, NEW I, NEW Q, NEW R, Leads(P, s, I, Q), Leads(Q, t, I, R)
    PROVE  Leads(P, s \o t, I, R)
<1>1. PICK q : q = s \o t
  OBVIOUS
<1>2. PICK m, n \in Nat : m = Len(s) /\ n = Len(t)
  OBVIOUS
<1>3. q \in Seq(S) /\ Len(q) = m + n
  BY <1>1, <1>2, ConcatProperties
<1>4. Joined(q, s, t, m, n)
  BY <1>1, <1>2 DEF Joined
<1> SUFFICES ASSUME NEW b \in P
             PROVE  /\ Fold(b, q) \in R
                    /\ \A k \in 0 .. m + n - 1 : <<Fold(b, SubSeq(q, 1, k)), q[k + 1]>> \in I
  BY <1>1, <1>3 DEF Leads
<1>5. Fold(b, s) \in Q /\ Fold(b, q) = Fold(Fold(b, s), t)
  BY <1>1, FoldConcat DEF Leads
<1>6. Fold(b, q) \in R
  BY <1>5 DEF Leads
<1>7. ASSUME NEW k \in 0 .. m + n - 1
      PROVE  <<Fold(b, SubSeq(q, 1, k)), q[k + 1]>> \in I
  <2>0. (k < m => Before(k, m, n)) /\ (k >= m => Beyond(k, m, n)) /\ (k < m \/ k >= m)
    BY DEF Before, Beyond
  <2>1. CASE k < m
    <3>1. k \in 0 .. m - 1 /\ SubSeq(q, 1, k) = SubSeq(s, 1, k) /\ q[k + 1] = s[k + 1]
      <4>1. FirstPart(q, s, t, m, n, k)
        BY <1>4, <2>0, <2>1, InFirst
      <4> QED
        BY <1>4, <2>0, <2>1, <4>1 DEF FirstPart
    <3> QED
      BY <1>2, <3>1 DEF Leads
  <2>2. CASE k >= m
    <3>1. PICK i \in Int : i = k - m
      OBVIOUS
    <3>2. i \in 0 .. n - 1 /\ SubSeq(q, 1, k) = s \o SubSeq(t, 1, i) /\ q[k + 1] = t[i + 1]
      <4>1. SecondPart(q, s, t, m, n, k)
        BY <1>4, <2>0, <2>2, <3>1, InSecond
      <4> QED
        BY <1>4, <2>0, <2>2, <3>1, <4>1 DEF SecondPart
    <3>3. SubSeq(t, 1, i) \in Seq(S)
      <4>1. i \in 0 .. Len(t)
        BY <1>2, <3>2
      <4> QED
        BY <4>1, PrefixAt
    <3>4. Fold(b, s \o SubSeq(t, 1, i)) = Fold(Fold(b, s), SubSeq(t, 1, i))
      BY <3>3, FoldConcat
    <3> QED
      BY <1>2, <1>5, <3>2, <3>4 DEF Leads
  <2> QED
    BY <2>0, <2>1, <2>2
<1> QED
  BY <1>6, <1>7

(* What two sequences lead to, one after the other, with a step left out.   *)
LEMMA LeadsOnWithout ==
    ASSUME NEW S, NEW s \in Seq(S), NEW t \in Seq(S), NEW P, NEW I, NEW X, NEW Q, NEW Q1, NEW R, Leads(P, s, I, Q),
           LeadsWithout(P, s, X, Q1), Leads(Q1, t, I, R), LeadsWithout(Q, t, X, R)
    PROVE  LeadsWithout(P, s \o t, X, R)
<1>1. PICK q : q = s \o t
  OBVIOUS
<1>2. PICK m, n \in Nat : m = Len(s) /\ n = Len(t)
  OBVIOUS
<1>3. q \in Seq(S) /\ Len(q) = m + n
  BY <1>1, <1>2, ConcatProperties
<1>4. Joined(q, s, t, m, n)
  BY <1>1, <1>2 DEF Joined
<1> SUFFICES ASSUME NEW b \in P, NEW k \in 0 .. m + n - 1, q[k + 1] \in X
             PROVE  Fold(Fold(b, SubSeq(q, 1, k)), SubSeq(q, k + 2, m + n)) \in R
  BY <1>1, <1>3 DEF LeadsWithout
<1>5. CASE k < m
  <2>0. Before(k, m, n)
    BY <1>5 DEF Before
  <2>1. PICK d, rest : d = Fold(b, SubSeq(s, 1, k)) /\ rest = SubSeq(s, k + 2, m)
    OBVIOUS
  <2>2. k \in 0 .. m - 1 /\ SubSeq(q, 1, k) = SubSeq(s, 1, k) /\ q[k + 1] = s[k + 1] /\ SubSeq(q, k + 2, m + n) = rest \o t
    <3>1. FirstPart(q, s, t, m, n, k)
      BY <1>4, <1>5, <2>1, <2>0, InFirst
    <3> QED
      BY <1>4, <1>5, <2>1, <2>0, <3>1 DEF FirstPart
  <2>3. rest \in Seq(S)
    BY <1>2, <2>1, <2>2, RestAt
  <2>4. Fold(d, rest \o t) = Fold(Fold(d, rest), t)
    BY <2>3, FoldConcat
  <2>5. Fold(d, rest) \in Q1
    BY <1>2, <2>1, <2>2 DEF LeadsWithout
  <2>6. Fold(Fold(d, rest), t) \in R
    BY <2>5 DEF Leads
  <2> QED
    BY <2>1, <2>2, <2>4, <2>6
<1>6. CASE k >= m
  <2>0. Beyond(k, m, n)
    BY <1>6 DEF Beyond
  <2>1. PICK i \in Int : i = k - m
    OBVIOUS
  <2>2. /\ i \in 0 .. n - 1 /\ SubSeq(q, 1, k) = s \o SubSeq(t, 1, i) /\ q[k + 1] = t[i + 1]
        /\ SubSeq(q, k + 2, m + n) = SubSeq(t, i + 2, n)
    <3>1. SecondPart(q, s, t, m, n, k)
      BY <1>4, <1>6, <2>1, <2>0, InSecond
    <3> QED
      BY <1>4, <1>6, <2>1, <2>0, <3>1 DEF SecondPart
  <2>3. SubSeq(t, 1, i) \in Seq(S)
    <3>1. i \in 0 .. Len(t)
      BY <1>2, <2>2
    <3> QED
      BY <3>1, PrefixAt
  <2>4. Fold(b, s \o SubSeq(t, 1, i)) = Fold(Fold(b, s), SubSeq(t, 1, i))
    BY <2>3, FoldConcat
  <2>5. Fold(b, s) \in Q
    BY DEF Leads
  <2>6. Fold(Fold(Fold(b, s), SubSeq(t, 1, i)), SubSeq(t, i + 2, n)) \in R
    BY <1>2, <2>2, <2>5 DEF LeadsWithout
  <2> QED
    BY <2>2, <2>4, <2>6
<1> QED
  BY <1>5, <1>6

(* What leads from more than P, or not as far as Q, does it too.           *)
LEMMA LeadsWeaker ==
    ASSUME NEW P, NEW s, NEW I, NEW Q, NEW P1 \in SUBSET P, NEW Q1, Q \subseteq Q1, Leads(P, s, I, Q)
    PROVE  Leads(P1, s, I, Q1)
BY DEF Leads

(* Four sequences, one after the other.                                    *)
LEMMA LeadsFour ==
    ASSUME NEW S, NEW s1 \in Seq(S), NEW s2 \in Seq(S), NEW s3 \in Seq(S), NEW s4 \in Seq(S), NEW I,
           NEW P0, NEW P1, NEW P2, NEW P3, NEW P4,
           Leads(P0, s1, I, P1), Leads(P1, s2, I, P2), Leads(P2, s3, I, P3), Leads(P3, s4, I, P4)
    PROVE  s1 \o s2 \o s3 \o s4 \in Seq(S) /\ Leads(P0, s1 \o s2 \o s3 \o s4, I, P4)
<1>1. PICK a, b, c : a = s1 \o s2 /\ b = a \o s3 /\ c = b \o s4
  OBVIOUS
<1>2. a \in Seq(S) /\ b \in Seq(S) /\ c \in Seq(S)
  BY <1>1
<1>3. Leads(P0, a, I, P2)
  BY <1>1, LeadsOn
<1>4. Leads(P0, b, I, P3)
  BY <1>1, <1>2, <1>3, LeadsOn
<1>5. Leads(P0, c, I, P4)
  BY <1>1, <1>2, <1>4, LeadsOn
<1> QED
  BY <1>1, <1>2, <1>5

(* The same with an element of X left out, which is of no consequence.     *)
LEMMA LeadsFourWithout ==
    ASSUME NEW S, NEW s1 \in Seq(S), NEW s2 \in Seq(S), NEW s3 \in Seq(S), NEW s4 \in Seq(S), NEW I, NEW X,
           NEW P, \A s \in {s1, s2, s3, s4} : Leads(P, s, I, P) /\ LeadsWithout(P, s, X, P)
    PROVE  LeadsWithout(P, s1 \o s2 \o s3 \o s4, X, P)
<1>1. PICK a, b, c : a = s1 \o s2 /\ b = a \o s3 /\ c = b \o s4
  OBVIOUS
<1>2. a \in Seq(S) /\ b \in Seq(S) /\ c \in Seq(S)
  BY <1>1
<1>3. Leads(P, a, I, P) /\ LeadsWithout(P, a, X, P)
  BY <1>1, LeadsOn, LeadsOnWithout
<1>4. Leads(P, b, I, P) /\ LeadsWithout(P, b, X, P)
  BY <1>1, <1>2, <1>3, LeadsOn, LeadsOnWithout
<1>5. LeadsWithout(P, c, X, P)
  BY <1>1, <1>2, <1>4, LeadsOnWithout
<1> QED
  BY <1>1, <1>5

(* What a head and a tail come to when they stop after k elements, or go   *)
(* on without the next one.                                                *)
InHead(b, q, s, I) ==
    \A k \in 0 .. Len(q) - 1 : k < Len(s) => <<Fold(b, SubSeq(q, 1, k)), q[k + 1]>> \in I /\ q[k + 1] = s[k + 1]
InTail(b, q, s, J, X, W) ==
    \A k \in 0 .. Len(q) - 1 : k >= Len(s) =>
        /\ <<Fold(b, SubSeq(q, 1, k)), q[k + 1]>> \in J
        /\ q[k + 1] \in X => Fold(Fold(b, SubSeq(q, 1, k)), SubSeq(q, k + 2, Len(q))) \in W

(* What two sequences lead to, and what holds before each step of either.   *)
LEMMA LeadsThrough ==
    ASSUME NEW S, NEW s \in Seq(S), NEW t \in Seq(S), NEW P, NEW I, NEW Q, NEW J, NEW R, NEW X, NEW W,
           Leads(P, s, I, Q), Leads(Q, t, J, R), LeadsWithout(Q, t, X, W), NEW b \in P
    PROVE  /\ s \o t \in Seq(S) /\ Len(s \o t) = Len(s) + Len(t) /\ Fold(b, s \o t) \in R
           /\ InHead(b, s \o t, s, I) /\ InTail(b, s \o t, s, J, X, W)
<1>1. PICK q : q = s \o t
  OBVIOUS
<1>2. PICK m, n \in Nat : m = Len(s) /\ n = Len(t)
  OBVIOUS
<1>3. q \in Seq(S) /\ Len(q) = m + n /\ Joined(q, s, t, m, n)
  BY <1>2, <1>1, ConcatProperties DEF Joined
<1>4. Fold(b, s) \in Q /\ Fold(b, q) = Fold(Fold(b, s), t)
  BY <1>1, FoldConcat DEF Leads
<1>5. Fold(b, q) \in R
  BY <1>4 DEF Leads
<1>6. ASSUME NEW k \in 0 .. m + n - 1, k < m
      PROVE  <<Fold(b, SubSeq(q, 1, k)), q[k + 1]>> \in I /\ q[k + 1] = s[k + 1]
  <2>1. Before(k, m, n)
    BY <1>6 DEF Before
  <2>2. FirstPart(q, s, t, m, n, k)
    BY <1>3, <2>1, InFirst
  <2>3. k \in 0 .. m - 1 /\ SubSeq(q, 1, k) = SubSeq(s, 1, k) /\ q[k + 1] = s[k + 1]
    BY <2>2 DEF FirstPart
  <2> QED
    BY <1>2, <2>3 DEF Leads
<1>7. ASSUME NEW k \in 0 .. m + n - 1, k >= m
      PROVE  /\ <<Fold(b, SubSeq(q, 1, k)), q[k + 1]>> \in J
             /\ q[k + 1] \in X => Fold(Fold(b, SubSeq(q, 1, k)), SubSeq(q, k + 2, m + n)) \in W
  <2>1. Beyond(k, m, n)
    BY <1>7 DEF Beyond
  <2>2. SecondPart(q, s, t, m, n, k)
    BY <1>3, <2>1, InSecond
  <2>3. PICK i \in Int : i = k - m
    BY <1>7
  <2>4. /\ i \in 0 .. n - 1 /\ SubSeq(q, 1, k) = s \o SubSeq(t, 1, i) /\ q[k + 1] = t[i + 1]
        /\ SubSeq(q, k + 2, m + n) = SubSeq(t, i + 2, n)
    BY <2>2, <2>3 DEF SecondPart
  <2>5. SubSeq(t, 1, i) \in Seq(S)
    <3>1. i \in 0 .. Len(t)
      BY <1>2, <2>4
    <3> QED
      BY <3>1, PrefixAt
  <2>6. Fold(b, s \o SubSeq(t, 1, i)) = Fold(Fold(b, s), SubSeq(t, 1, i))
    BY <2>5, FoldConcat
  <2>7. <<Fold(Fold(b, s), SubSeq(t, 1, i)), t[i + 1]>> \in J
    BY <1>2, <1>4, <2>4 DEF Leads
  <2>8. t[i + 1] \in X => Fold(Fold(Fold(b, s), SubSeq(t, 1, i)), SubSeq(t, i + 2, n)) \in W
    BY <1>2, <1>4, <2>4 DEF LeadsWithout
  <2> QED
    BY <2>4, <2>6, <2>7, <2>8
<1> QED
  BY <1>2, <1>3, <1>5, <1>6, <1>7, <1>1 DEF InHead, InTail
=============================================================================
