--------------------------- MODULE ReviewerProofs ---------------------------
(***************************************************************************)
(* Proofs about Reviewer for every configuration, every set of replies and *)
(* every price of a call.                                                  *)
(***************************************************************************)
EXTENDS Reviewer, ReviewDocumentProofs, TLAPS

USE DEF setupVars, talkVars, outVars

-----------------------------------------------------------------------------
Call == pc \in {"first", "repair", "turn", "force"}

\* Each strategy stays among its own calls, and calls and turns are counted together.
TurnInv ==
    /\ nudges <= turn
    /\ pc = "diff" => calls = 0 /\ turn = 0 /\ exit = "running"
    /\ Call => exit = "running"
    /\ pc = "first" => cfg.strategy = "oneshot" /\ calls = 0
    /\ pc = "repair" => cfg.strategy = "oneshot" /\ calls = 1
    /\ pc = "turn" => cfg.strategy = "agentic" /\ turn < cfg.maxTurns /\ calls = turn
    /\ pc = "force" => cfg.strategy = "agentic" /\ calls = turn
    /\ CallsBounded

\* While the loop goes on, only the nudged turns may have eaten the budget.
BudgetInv ==
    /\ pc \in {"diff", "first", "repair"} => spent = 0 \/ cfg.strategy = "oneshot"
    /\ pc = "diff" => nudges = 0 /\ spent = 0
    /\ cfg.maxCost > 0 =>
          /\ pc = "turn" => spent < cfg.maxCost + nudges * MaxCallCost
          /\ pc = "force" => spent < cfg.maxCost + (nudges + 1) * MaxCallCost
    /\ SpendBounded

\* From the first call on, the flag says what was cut off.
TruncationInv ==
    /\ pc = "diff" => calls = 0
    /\ Call \/ calls > 0 => truncated = CutOff(diff)
    /\ Call \/ calls > 0 => shown = IF diff.size > cfg.maxBytes THEN cfg.maxBytes ELSE diff.size

IInv == TypeOK /\ TurnInv /\ BudgetInv /\ TruncationInv

\* The configuration the assumption speaks of.
LEMMA ConfigType ==
    ASSUME TypeOK
    PROVE  cfg \in [strategy : {"oneshot", "agentic"}, maxTurns : Nat,
                    maxFiles : Nat, maxBytes : Nat, maxCost : Nat]
  BY ReviewerAssumption DEF TypeOK

\* The initial values have their types.
LEMMA TypeInit == Init => TypeOK
<1> SUFFICES ASSUME Init PROVE TypeOK
  OBVIOUS
<1>1. cfg \in [strategy : {"oneshot", "agentic"}, maxTurns : Nat,
               maxFiles : Nat, maxBytes : Nat, maxCost : Nat]
  BY ReviewerAssumption DEF Init
<1>2. cfg.maxTurns \in Nat /\ 0 \in 0..cfg.maxTurns
  BY <1>1
<1>3. QED
  BY <1>2 DEF Init, TypeOK, PCs

\* The initial state satisfies the inductive invariant.
LEMMA InvInit == Init => IInv
<1> SUFFICES ASSUME Init PROVE IInv
  OBVIOUS
<1>1. TypeOK
  BY TypeInit
<1>2. cfg.maxTurns \in Nat /\ cfg.maxCost \in Nat
  BY <1>1, ConfigType
<1>3. 2 * MaxCallCost \in Nat
  BY ReviewerAssumption
<1>4. SpendBounded
  BY <1>2, <1>3, ReviewerAssumption DEF Init, SpendBounded
<1>5. QED
  BY <1>1, <1>2, <1>4
     DEF IInv, Init, TurnInv, BudgetInv, TruncationInv, Call, CallsBounded

\* A step of the reviewer.
LEMMA InvNext == IInv /\ [Next]_vars => IInv'
<1> SUFFICES ASSUME IInv, [Next]_vars PROVE IInv'
  OBVIOUS
<1> DEFINE C == MaxCallCost
<1>1. /\ cfg.strategy \in {"oneshot", "agentic"}
      /\ cfg.maxTurns \in Nat /\ cfg.maxBytes \in Nat /\ cfg.maxCost \in Nat
      /\ C \in Nat
  BY ConfigType, ReviewerAssumption DEF IInv
<1>2. UNCHANGED setupVars => cfg' = cfg
  OBVIOUS
<1>3. /\ nudges \in Nat /\ calls \in Nat /\ spent \in Nat /\ turn \in Nat
      /\ nudges * C \in Nat /\ (nudges + 1) * C = nudges * C + C
      /\ (nudges + 2) * C = nudges * C + 2 * C /\ (nudges + 3) * C = nudges * C + 3 * C
  BY <1>1 DEF IInv, TypeOK
<1>4. CASE ComputeDiff
  <2>1. ASSUME NEW d \in Diffs PROVE d.size \in Nat /\ d.files \in Nat
    BY ReviewerAssumption
  <2>2. TypeOK'
    BY <1>1, <1>4, <2>1 DEF ComputeDiff, IInv, TypeOK, Goto, Exit, PCs, CutOff
  <2>3. TurnInv'
    BY <1>1, <1>4 DEF ComputeDiff, IInv, TurnInv, Goto, Exit, Call, CallsBounded
  <2>4. BudgetInv'
    BY <1>1, <1>3, <1>4 DEF ComputeDiff, IInv, BudgetInv, Goto, Exit, SpendBounded
  <2>5. TruncationInv'
    BY <1>4 DEF ComputeDiff, IInv, TruncationInv, Goto, Exit, Call, CutOff
  <2>6. QED
    BY <2>2, <2>3, <2>4, <2>5 DEF IInv
<1>5. CASE CallFails
  BY <1>5 DEF CallFails, Exit, IInv, TypeOK, PCs, TurnInv, Call, CallsBounded, BudgetInv,
              SpendBounded, TruncationInv, CutOff
<1>6. ASSUME NEW cost \in 0..C, ToolTurn(cost) PROVE IInv'
  <2>1. TypeOK' /\ spent' <= spent + C
    BY <1>1, <1>3, <1>6 DEF ToolTurn, Paid, NextTurn, Goto, IInv, TypeOK, TurnInv, PCs
  <2>2. TurnInv'
    BY <1>1, <1>3, <1>6 DEF ToolTurn, Paid, NextTurn, Goto, IInv, TypeOK, TurnInv, Call, CallsBounded
  <2>3. BudgetInv'
    BY <1>1, <1>3, <1>6, <2>1
       DEF ToolTurn, Paid, NextTurn, Goto, IInv, TurnInv, BudgetInv, SpendBounded
  <2>4. TruncationInv'
    BY <1>3, <1>6 DEF ToolTurn, Paid, NextTurn, Goto, IInv, TruncationInv, Call, CutOff
  <2>5. QED
    BY <2>1, <2>2, <2>3, <2>4 DEF IInv
<1>7. ASSUME NEW cost \in 0..C, NEW answer \in Answers, First(answer, cost) PROVE IInv'
  BY <1>1, <1>3, <1>7 DEF First, Answer, Paid, Goto, IInv, TypeOK, PCs, TurnInv, Call,
              CallsBounded, BudgetInv, SpendBounded, TruncationInv, CutOff
<1>8. ASSUME NEW cost \in 0..C, NEW answer \in Answers, TextTurn(answer, cost) PROVE IInv'
  <2>1. TypeOK' /\ spent' <= spent + C
    BY <1>1, <1>3, <1>8 DEF TextTurn, Answer, Paid, NextTurn, Goto, IInv, TypeOK, TurnInv, PCs
  <2>2. TurnInv'
    BY <1>1, <1>3, <1>8
       DEF TextTurn, Answer, Paid, NextTurn, Goto, IInv, TypeOK, TurnInv, Call, CallsBounded
  <2>3. BudgetInv'
    <3>1. CASE nudges' = nudges + 1
      BY <1>1, <1>3, <1>8, <2>1, <3>1
         DEF TextTurn, Answer, Paid, NextTurn, Goto, IInv, TurnInv, BudgetInv, SpendBounded
    <3>2. CASE nudges' = nudges /\ pc' = "write"
      BY <1>1, <1>3, <1>8, <2>1, <3>2
         DEF TextTurn, Answer, Paid, IInv, TurnInv, BudgetInv, SpendBounded
    <3>3. QED
      BY <1>8, <3>1, <3>2 DEF TextTurn, Goto
  <2>4. TruncationInv'
    BY <1>3, <1>8 DEF TextTurn, Answer, Paid, NextTurn, Goto, IInv, TruncationInv, Call, CutOff
  <2>5. QED
    BY <2>1, <2>2, <2>3, <2>4 DEF IInv
<1>9. ASSUME NEW cost \in 0..C, NEW answer \in Answers, FinalCall(answer, cost) PROVE IInv'
  <2>1. TypeOK' /\ spent' <= spent + C
    BY <1>1, <1>3, <1>9 DEF FinalCall, Answer, Paid, Goto, Exit, IInv, TypeOK, PCs
  <2>2. TurnInv'
    BY <1>1, <1>3, <1>9
       DEF FinalCall, Answer, Paid, Goto, Exit, IInv, TypeOK, TurnInv, Call, CallsBounded
  <2>3. BudgetInv'
    BY <1>1, <1>3, <1>9, <2>1
       DEF FinalCall, Answer, Paid, Goto, Exit, IInv, TurnInv, BudgetInv, SpendBounded
  <2>4. TruncationInv'
    BY <1>3, <1>9 DEF FinalCall, Answer, Paid, Goto, Exit, IInv, TruncationInv, Call, CutOff
  <2>5. QED
    BY <2>1, <2>2, <2>3, <2>4 DEF IInv
<1>10. CASE WriteReview
  BY <1>10 DEF WriteReview, Exit, IInv, TypeOK, PCs, TurnInv, Call, CallsBounded, BudgetInv,
               SpendBounded, TruncationInv, CutOff
<1>11. CASE ReadReview
  BY <1>11 DEF ReadReview, Goto, IInv, TypeOK, PCs, TurnInv, Call, CallsBounded, BudgetInv,
               SpendBounded, TruncationInv, CutOff
<1>12. CASE UNCHANGED vars
  BY <1>12 DEF vars, IInv, TypeOK, TurnInv, Call, CallsBounded, BudgetInv, SpendBounded,
               TruncationInv, CutOff
<1>13. QED
  BY <1>4, <1>5, <1>6, <1>7, <1>8, <1>9, <1>10, <1>11, <1>12 DEF Next

\* The inductive invariant holds in every state.
THEOREM Invariance == Spec => []IInv
<1>1. QED
  BY InvInit, InvNext, PTL DEF Spec

\* The counters of a conversation keep their types.
THEOREM TypeCorrect == Spec => []TypeOK
<1>1. IInv => TypeOK
  BY DEF IInv
<1>2. QED
  BY <1>1, Invariance, PTL

\* The hard turn limit: for every limit and whatever the model answers, it is called at
\* most once more than that.
THEOREM CallsAlwaysBounded == Spec => []CallsBounded
<1>1. IInv => CallsBounded
  BY DEF IInv, TurnInv
<1>2. QED
  BY <1>1, Invariance, PTL

\* The running budget: the overshoot is two calls and the turns that only nudged.
THEOREM SpendAlwaysBounded == Spec => []SpendBounded
<1>1. IInv => SpendBounded
  BY DEF IInv, BudgetInv
<1>2. QED
  BY <1>1, Invariance, PTL

\* A review of a part of the diff is marked as one.
THEOREM TruncationAlwaysTold == Spec => []TruncationIsTold
<1>1. IInv => TruncationIsTold
  <2> SUFFICES ASSUME IInv, exit = "ok", shown < diff.size, calls > 0 PROVE truncated
    BY DEF TruncationIsTold
  <2>1. truncated = CutOff(diff) /\ shown = IF diff.size > cfg.maxBytes THEN cfg.maxBytes ELSE diff.size
    BY DEF IInv, TruncationInv
  <2>2. diff.size \in Nat
    BY ReviewerAssumption DEF IInv, TypeOK, NoDiff
  <2>3. diff.size > cfg.maxBytes
    BY <2>1, <2>2
  <2>4. QED
    BY <2>1, <2>3 DEF CutOff
<1>2. QED
  BY <1>1, Invariance, PTL

-----------------------------------------------------------------------------
(* Reviews, from the answer of the model to the publish step. *)

\* classify keeps a review, its findings and the absence of fences.
LEMMA ClassifyProperties ==
    ASSUME NEW rev, IsReview(rev), NEW outside \in SUBSET DOMAIN rev.findings
    PROVE  /\ IsReview(Classify(rev, outside))
           /\ ~Contains(Marshal(rev), Fence) => ~Contains(Marshal(Classify(rev, outside)), Fence)
           /\ \A i \in DOMAIN rev.findings :
                 \/ Contains(Classify(rev, outside).findings, rev.findings[i])
                 \/ \E a, b \in 0..Len(Classify(rev, outside).summary) :
                       SubSeq(Classify(rev, outside).summary, a + 1, b) = rev.findings[i]
<1> DEFINE f  == rev.findings
           D  == DOMAIN rev.findings
           s  == rev.summary
           h  == <<"text">>
           qs == [i \in D |-> h \o f[i]]
           es == At(qs, outside)
           x  == FlattenSeq(es)
           sx == s \o x
           kept == At(f, D \ outside)
           c  == Review(sx, kept)
<1>1. Classify(rev, outside) = c
  BY DEF Classify
<1>2. s \in AllStrings /\ f \in Seq(AllStrings)
  <2> DEFINE X == Texts(rev)
  <2>1. X \in Seq(AllStrings) /\ X # <<>> /\ rev = Review(Head(X), Tail(X))
    BY TextsProperties
  <2>2. Head(X) \in AllStrings /\ Tail(X) \in Seq(AllStrings)
    BY <2>1, HeadTailProperties
  <2> HIDE DEF X
  <2>3. s = Head(X) /\ f = Tail(X)
    BY <2>1, <2>2, ReviewType
  <2> QED
    BY <2>2, <2>3
<1>3. rev.summary # <<>> \/ rev.findings # <<>>
  BY DEF IsReview, Valid
<1> HIDE DEF f, s
<1>4. D = 1..Len(f) /\ Len(f) \in Nat
  <2>1. D = DOMAIN f
    BY DEF f
  <2> HIDE DEF D
  <2> QED
    BY <1>2, <2>1, LenProperties
<1>5. h \in AllStrings /\ h \in Seq(Tokens) /\ Len(h) = 1
  BY TextString, TokensType
<1> HIDE DEF h, D
\* The findings with the text before them, over any alphabet that has them.
<1>6. ASSUME NEW S, f \in Seq(S), \A y \in S : h \o y \in S
      PROVE  qs \in Seq(S) /\ es \in Seq(S) /\ kept \in Seq(S)
  <2>1. \A i \in 1..Len(f) : f[i] \in S
    BY <1>6, ElementOfSeq
  <2>2. qs \in [1..Len(f) -> S]
    BY <1>4, <1>6, <2>1
  <2>3. qs \in Seq(S)
    BY <1>4, <2>2
  <2> HIDE DEF qs
  <2> QED
    BY <1>6, <2>3, AtProperties
<1>7. qs \in Seq(AllStrings) /\ es \in Seq(AllStrings) /\ kept \in Seq(AllStrings)
  <2>1. \A y \in AllStrings : h \o y \in AllStrings
    BY <1>5, StringConcat
  <2> HIDE DEF qs, es, kept
  <2> QED
    BY <1>2, <1>6, <2>1
<1>8. Len(qs) = Len(f) /\ \A i \in D : qs[i] = h \o f[i]
  BY <1>4
<1>9. x \in AllStrings /\ \E o : Offsets(o, es, x)
  <2>1. es \in Seq(Seq(Tokens))
    BY <1>7, StringsAreTexts
  <2> HIDE DEF es
  <2> QED
    BY <1>7, <2>1, FlattenStrings, FlattenProperties
<1>10. sx \in AllStrings
  BY <1>2, <1>9, StringConcat

<1>11. Len(s) \in Nat /\ Len(x) \in Nat /\ s \in Seq(Tokens) /\ x \in Seq(Tokens)
  <2>1. s \in Seq(Tokens) /\ x \in Seq(Tokens)
    BY <1>2, <1>9 DEF AllStrings
  <2> HIDE DEF x
  <2> QED
    BY <2>1, LenProperties
<1> HIDE DEF qs, es, x, kept
<1>12. Len(sx) = Len(s) + Len(x) /\ \A j \in 1..Len(x) : sx[Len(s) + j] = x[j]
  <2>1. Follows(sx, s, x, Len(s), Len(x))
    BY <1>11, ConcatFollows
  <2> HIDE DEF sx
  <2> QED
    BY <2>1 DEF Follows
<1>13. c.ok /\ c.summary = sx /\ c.findings = kept /\ (Valid(c) => IsReview(c))
  <2> HIDE DEF sx
  <2> QED
    BY <1>7, <1>10, ReviewType
<1> HIDE DEF c, sx
\* A finding outside the diff stands in the summary.
<1>14. ASSUME NEW i \in D, i \in outside
       PROVE  /\ 1 <= Len(x)
              /\ \E a, b \in 0..Len(sx) : SubSeq(sx, a + 1, b) = f[i]
  <2> DEFINE y == f[i]
             z == h \o y
             l == Len(y)
  <2>1. y \in Seq(Tokens) /\ l \in Nat /\ y \in AllStrings
    <3>1. y \in AllStrings
      BY <1>2, <1>4, ElementOfSeq
    <3>2. y \in Seq(Tokens)
      BY <3>1 DEF AllStrings
    <3> HIDE DEF y
    <3> QED
      BY <3>1, <3>2, LenProperties
  <2>2. PICK j \in 1..Len(es) : es[j] = z
    <3>1. i \in 1..Len(qs) /\ qs[i] = z
      BY <1>4, <1>8
    <3>2. \A k \in 1..Len(qs) : k \in outside => \E j \in 1..Len(es) : es[j] = qs[k]
      <4>1. qs \in Seq(AllStrings)
        BY <1>7
      <4> QED
        BY <4>1, AtProperties DEF es
    <3> QED
      BY <1>14, <3>1, <3>2
  <2> HIDE DEF y
  <2>3. Len(z) = 1 + l /\ \A k \in 1..l : z[1 + k] = y[k]
    <3>1. Follows(z, h, y, 1, l)
      BY <1>5, <2>1, ConcatFollows
    <3> HIDE DEF z
    <3> QED
      BY <3>1 DEF Follows
  <2> HIDE DEF z
  <2>4. PICK o : Offsets(o, es, x)
    BY <1>9
  <2> DEFINE d == o[j - 1]
             e == o[j]
  <2>5. d \in 0..Len(x) /\ e \in 0..Len(x) /\ e = d + (1 + l) /\ \A k \in 1..1 + l : x[d + k] = z[k]
    <3>1. Len(es) \in Nat
      BY <1>7, LenProperties
    <3>2. j - 1 \in 0..Len(es) /\ j \in 0..Len(es)
      BY <3>1
    <3> QED
      BY <2>2, <2>3, <2>4, <3>2 DEF Offsets
  <2> HIDE DEF d, e, l
  <2>6. 1 <= Len(x) /\ d \in Nat /\ d + (1 + l) <= Len(x)
    BY <1>11, <2>1, <2>5 DEF l
  <2> DEFINE a == Len(s) + (d + 1)
             b == a + l
             w == SubSeq(sx, a + 1, b)
  <2>7. a \in 0..Len(sx) /\ b \in 0..Len(sx) /\ a \in Nat /\ b \in Nat /\ l \in Nat
    BY <1>11, <1>12, <2>1, <2>6 DEF l
  <2>8. \A k \in 1..l : sx[a + k] = y[k]
    <3> SUFFICES ASSUME NEW k \in 1..l PROVE sx[a + k] = y[k]
      OBVIOUS
    <3>1. 1 + k \in 1..1 + l /\ d + (1 + k) \in 1..Len(x) /\ Len(s) + (d + (1 + k)) = a + k
      BY <1>11, <2>6, <2>7
    <3>2. sx[Len(s) + (d + (1 + k))] = x[d + (1 + k)] /\ x[d + (1 + k)] = z[1 + k] /\ z[1 + k] = y[k]
      BY <1>12, <2>3, <2>5, <3>1
    <3> QED
      BY <3>1, <3>2
  <2> HIDE DEF a
  <2>9. /\ w \in Seq(Tokens)
        /\ Len(w) = l
        /\ \A k \in 1..l : w[k] = y[k]
    <3>1. sx \in Seq(Tokens) /\ Len(sx) \in Nat
      BY <1>10, LenProperties DEF AllStrings
    <3>2. a + 1 \in Nat /\ b \in Int /\ 1 <= a + 1 /\ b <= Len(sx)
      BY <2>7, <3>1
    <3>3. /\ w \in Seq(Tokens)
          /\ Len(w) = IF a + 1 <= b THEN b - (a + 1) + 1 ELSE 0
          /\ \A k \in 1..b - (a + 1) + 1 : w[k] = sx[(a + 1) + k - 1]
      BY <3>1, <3>2, PartOf
    <3>4. b - (a + 1) + 1 = l /\ (a + 1 <= b <=> 1 <= l) /\ \A k \in 1..l : (a + 1) + k - 1 = a + k
      BY <2>7
    <3> HIDE DEF w, b
    <3>5. Len(w) = l
      BY <2>7, <3>3, <3>4
    <3> QED
      BY <2>8, <3>3, <3>4, <3>5
  <2>10. w = y
    <3>1. Len(w) = Len(y)
      BY <2>9 DEF l
    <3> HIDE DEF w
    <3> QED
      BY <2>1, <2>9, <3>1, SeqEqual
  <2> HIDE DEF b
  <2> QED
    BY <2>6, <2>7, <2>10 DEF y
\* The others stay.
<1>15. ASSUME NEW i \in D, i \notin outside PROVE Contains(kept, f[i])
  <2>1. i \in 1..Len(f) /\ i \in D \ outside
    BY <1>4, <1>15
  <2>2. \E j \in 1..Len(At(f, D \ outside)) : At(f, D \ outside)[j] = f[i]
    BY <1>2, <2>1, AtProperties
  <2> QED
    BY <2>2 DEF Contains, kept
<1>16. Valid(c)
  <2>1. CASE s # <<>>
    <3>1. Len(s) # 0
      BY <1>2, <2>1
    <3>2. Len(sx) # 0
      BY <1>11, <1>12, <3>1
    <3>3. sx # <<>>
      BY <3>2
    <3> QED
      BY <1>13, <3>3 DEF Valid
  <2>2. CASE f # <<>>
    <3>1. 1 \in D
      BY <1>2, <1>4, <2>2
    <3>2. CASE 1 \in outside
      <4>1. Len(sx) # 0
        BY <1>11, <1>12, <1>14, <3>1, <3>2
      <4>2. sx # <<>>
        BY <4>1
      <4> QED
        BY <1>13, <4>2 DEF Valid
    <3>3. CASE 1 \notin outside
      <4>1. Contains(kept, f[1])
        BY <1>15, <3>1, <3>3
      <4>2. kept # <<>>
        BY <4>1 DEF Contains
      <4> QED
        BY <1>13, <4>2 DEF Valid
    <3> QED
      BY <3>2, <3>3
  <2> QED
    BY <1>3, <2>1, <2>2 DEF f, s
<1>17. ASSUME ~Contains(Marshal(rev), Fence) PROVE ~Contains(Marshal(c), Fence)
  <2> DEFINE T == Tokens \ {Fence}
             X == Texts(rev)
             u == <<sx>>
  <2>1. h \in Seq(T) /\ Len(h) = 1
    BY TokensType, TokensDiffer DEF h
  <2>2. X \in Seq(Seq(T)) /\ X # <<>>
    BY <1>17, FencelessTexts, TextsProperties
  <2>3. rev = Review(Head(X), Tail(X)) /\ X \in Seq(AllStrings)
    BY TextsProperties
  <2> HIDE DEF X, T
  <2>4. s \in Seq(T) /\ f \in Seq(Seq(T))
    <3>1. s = Head(X) /\ f = Tail(X)
      <4>1. Head(X) \in AllStrings /\ Tail(X) \in Seq(AllStrings)
        BY <2>2, <2>3, HeadTailProperties
      <4> QED
        BY <2>3, <4>1, ReviewType DEF s, f
    <3>2. Head(X) \in Seq(T) /\ Tail(X) \in Seq(Seq(T))
      BY <2>2, HeadTailProperties
    <3> QED
      BY <3>1, <3>2
  <2>5. \A y \in Seq(T) : h \o y \in Seq(T)
    BY <2>1, ConcatProperties
  <2>6. es \in Seq(Seq(T)) /\ kept \in Seq(Seq(T))
    <3> DEFINE S == Seq(T)
    <3>1. f \in Seq(S) /\ \A y \in S : h \o y \in S
      BY <2>4, <2>5
    <3> HIDE DEF S
    <3>2. es \in Seq(S) /\ kept \in Seq(S)
      BY <1>6, <3>1
    <3> QED
      BY <3>2 DEF S
  <2>7. x \in Seq(T)
    BY <2>6, FlattenProperties DEF x
  <2>8. sx \in Seq(T)
    BY <2>4, <2>7, ConcatProperties DEF sx
  <2>9. u \in Seq(Seq(T))
    BY <2>8
  <2>10. Texts(c) = u \o kept
    BY <1>13 DEF Texts
  <2> HIDE DEF u
  <2>11. Texts(c) \in Seq(Seq(T))
    BY <2>6, <2>9, <2>10, ConcatProperties
  <2> QED
    BY <2>11, FencelessDocument DEF T
<1>18. \A i \in D : \/ Contains(c.findings, f[i])
                    \/ \E a, b \in 0..Len(c.summary) : SubSeq(c.summary, a + 1, b) = f[i]
  BY <1>13, <1>14, <1>15
<1> QED
  BY <1>1, <1>13, <1>16, <1>17, <1>18 DEF D, f

\* What Parse makes of an answer: the review it means, or nothing if a fence is in it.
LEMMA AnswerRead ==
    ASSUME NEW answer \in Answers
    PROVE  /\ answer.parsed = Unreadable \/ IsReview(answer.parsed)
           /\ \/ answer.parsed = answer.meaning
              \/ answer.parsed = Unreadable /\ Fenced(answer.meaning)
<1>1. PICK reply \in Replies : answer = [parsed |-> Parse(reply.text), meaning |-> reply.meaning]
  BY DEF Answers
<1> DEFINE text == reply.text
           meaning == reply.meaning
<1>2. answer.parsed = Parse(text) /\ answer.meaning = meaning
  BY <1>1
<1>3. /\ text \in Seq(Tokens)
      /\ \/ IsReview(meaning) /\ Holds(text, meaning)
         \/ meaning = Unreadable /\ ~Contains(text, Good)
         \/ meaning = Parse(text)
  BY RepliesAssumption
<1> HIDE DEF text, meaning
<1>4. Parse(text) = Unreadable \/ IsReview(Parse(text))
  BY <1>3, ParseType
<1>5. CASE IsReview(meaning) /\ Holds(text, meaning)
  <2>1. Parse(text) = meaning \/ (Parse(text) = Unreadable /\ Fenced(meaning))
    BY <1>3, <1>5, ReplyRead
  <2>2. QED
    BY <1>2, <1>4, <2>1
<1>6. CASE meaning = Unreadable /\ ~Contains(text, Good)
  <2>1. text \in Seq(Tokens \ {Good})
    <3>1. \A i \in 1..Len(text) : text[i] \in Tokens \ {Good}
      BY <1>3, <1>6, ElementOfSeq DEF Contains
    <3>2. text \in [1..Len(text) -> Tokens \ {Good}] /\ Len(text) \in Nat
      BY <1>3, <3>1
    <3>3. QED
      BY <3>2
  <2>2. StripFences(text) \in Seq(Tokens \ {Good})
    BY <2>1, RepairType
  <2>3. QED
    BY <1>2, <1>6, <2>2, NoVerdict
<1>7. QED
  BY <1>2, <1>3, <1>4, <1>5, <1>6

\* The parsed review is the one meant, unless a fence in it made it unreadable.
MeaningInv ==
    /\ review = Unreadable \/ IsReview(review)
    /\ pc = "write" => review.ok
    /\ pc = "diff" \/ Call \/ calls > 0 =>
          review = meant \/ (review = Unreadable /\ Fenced(meant))

\* What WriteReview leaves: the whole document or a part of it.
Whole(doc) ==
    /\ IsReview(review)
    /\ \E outside \in SUBSET DOMAIN review.findings : doc = Marshal(Classify(review, outside))

\* The file is what the exit code says it is.
FileInv ==
    /\ pc \notin {"publish", "done"} => exit = "running" /\ file = <<>>
    /\ pc \in {"publish", "done"} =>
          \/ exit = "ok" /\ Whole(file)
          \/ exit = "error" /\ file = <<>>
          \/ exit = "error" /\ \E doc : Whole(doc) /\ \E n \in 0..Len(doc) - 1 : file = SubSeq(doc, 1, n)
    /\ pc = "done" => read = Parse(file)

DocumentInv == MeaningInv /\ FileInv

\* The review of an empty diff is one.
LEMMA MinimalReview == IsReview(Minimal)
<1> DEFINE x == <<"text">>
           none == <<>>
<1>1. x \in AllStrings /\ x # <<>> /\ none \in Seq(AllStrings)
  BY TextString
<1> HIDE DEF x, none
<1>2. /\ Valid(Review(x, none)) => IsReview(Review(x, none))
      /\ Review(x, none).ok /\ Review(x, none).summary = x
  BY <1>1, ReviewType
<1>3. QED
  BY <1>1, <1>2 DEF Valid, Minimal, x, none

\* Nothing is read and nothing is written at first.
LEMMA DocumentInit == Init => DocumentInv
BY DEF Init, DocumentInv, MeaningInv, FileInv

\* A step of the reviewer keeps what is said of its documents.
LEMMA DocumentNext == IInv /\ DocumentInv /\ [Next]_vars => DocumentInv'
<1> SUFFICES ASSUME IInv, DocumentInv, [Next]_vars PROVE DocumentInv'
  OBVIOUS
<1>1. pc \in PCs /\ calls \in Nat /\ (Call => exit = "running") /\ (pc = "diff" => calls = 0)
  BY DEF IInv, TypeOK, TurnInv
<1>2. Unreadable.ok = FALSE
  BY DEF Unreadable
<1>3. MeaningInv /\ FileInv
  BY DEF DocumentInv
<1>4. CASE ComputeDiff
  <2>1. MeaningInv'
    <3>1. CASE review' = review /\ pc' # "write"
      BY <1>1, <1>3, <1>4, <3>1 DEF ComputeDiff, MeaningInv, Goto, Exit, Call
    <3>2. CASE review' = Minimal /\ pc' = "write" /\ UNCHANGED calls
      <4>1. Minimal.ok
        BY MinimalReview DEF IsReview, Valid
      <4>2. QED
        BY <1>1, <1>4, <3>2, <4>1, MinimalReview DEF ComputeDiff, MeaningInv, Call
    <3>3. QED
      BY <1>4, <3>1, <3>2 DEF ComputeDiff, Goto, Exit
  <2>2. FileInv'
    BY <1>3, <1>4 DEF ComputeDiff, FileInv, Goto, Exit
  <2>3. QED
    BY <2>1, <2>2 DEF DocumentInv
<1>5. CASE CallFails
  <2>1. MeaningInv'
    BY <1>1, <1>3, <1>5 DEF CallFails, MeaningInv, Exit, Call
  <2>2. FileInv'
    BY <1>3, <1>5 DEF CallFails, FileInv, Exit
  <2>3. QED
    BY <2>1, <2>2 DEF DocumentInv
<1>6. ASSUME NEW cost \in 0..MaxCallCost, ToolTurn(cost) PROVE DocumentInv'
  <2>1. MeaningInv'
    BY <1>1, <1>3, <1>6 DEF ToolTurn, MeaningInv, Goto, NextTurn, Call, Paid
  <2>2. FileInv'
    BY <1>3, <1>6 DEF ToolTurn, FileInv, Goto, NextTurn
  <2>3. QED
    BY <2>1, <2>2 DEF DocumentInv
<1>7. ASSUME NEW cost, NEW answer \in Answers, Answer(answer, cost),
             pc' = "write" => review'.ok
      PROVE  MeaningInv'
  <2>1. review' = answer.parsed /\ meant' = answer.meaning
    BY <1>7 DEF Answer
  <2>2. QED
    BY <1>7, <2>1, AnswerRead DEF MeaningInv
<1>8. ASSUME NEW cost \in 0..MaxCallCost, NEW answer \in Answers, First(answer, cost)
      PROVE  DocumentInv'
  <2>1. MeaningInv'
    BY <1>7, <1>8 DEF First, Goto
  <2>2. FileInv'
    BY <1>3, <1>8 DEF First, FileInv, Goto
  <2>3. QED
    BY <2>1, <2>2 DEF DocumentInv
<1>9. ASSUME NEW cost \in 0..MaxCallCost, NEW answer \in Answers, TextTurn(answer, cost)
      PROVE  DocumentInv'
  <2>1. MeaningInv'
    BY <1>7, <1>9 DEF TextTurn, Goto, NextTurn
  <2>2. FileInv'
    BY <1>3, <1>9 DEF TextTurn, FileInv, Goto, NextTurn
  <2>3. QED
    BY <2>1, <2>2 DEF DocumentInv
<1>10. ASSUME NEW cost \in 0..MaxCallCost, NEW answer \in Answers, FinalCall(answer, cost)
       PROVE  DocumentInv'
  <2>1. MeaningInv'
    BY <1>7, <1>10 DEF FinalCall, Goto, Exit
  <2>2. FileInv'
    BY <1>3, <1>10 DEF FinalCall, FileInv, Goto, Exit
  <2>3. QED
    BY <2>1, <2>2 DEF DocumentInv
<1>11. CASE WriteReview
  <2>1. IsReview(review)
    BY <1>2, <1>3, <1>11 DEF WriteReview, MeaningInv
  <2>2. MeaningInv'
    BY <1>3, <1>11 DEF WriteReview, MeaningInv, Exit, Call
  <2>3. PICK outside \in SUBSET DOMAIN review.findings :
           \/ file' = Marshal(Classify(review, outside)) /\ Exit("ok")
           \/ \E n \in 0..Len(Marshal(Classify(review, outside))) - 1 :
                 file' = SubSeq(Marshal(Classify(review, outside)), 1, n) /\ Exit("error")
    BY <1>11 DEF WriteReview
  <2> DEFINE doc == Marshal(Classify(review, outside))
  <2>4. Whole(doc)' /\ doc' = doc
    BY <1>11, <2>1 DEF WriteReview, Whole
  <2>5. \/ file' = doc /\ Exit("ok")
        \/ \E n \in 0..Len(doc) - 1 : file' = SubSeq(doc, 1, n) /\ Exit("error")
    BY <2>3
  <2>6. FileInv'
    <3> HIDE DEF doc
    <3> QED
      BY <2>4, <2>5 DEF FileInv, Exit
  <2>7. QED
    BY <2>2, <2>6 DEF DocumentInv
<1>12. CASE ReadReview
  <2>1. MeaningInv'
    BY <1>3, <1>12 DEF ReadReview, MeaningInv, Goto, Call
  <2>2. \A doc : Whole(doc) <=> Whole(doc)'
    BY <1>12 DEF ReadReview, Whole
  <2>3. FileInv'
    BY <1>3, <1>12, <2>2 DEF ReadReview, FileInv, Goto
  <2>4. QED
    BY <2>1, <2>3 DEF DocumentInv
<1>13. CASE UNCHANGED vars
  BY <1>3, <1>13 DEF vars, DocumentInv, MeaningInv, FileInv, Whole, Call
<1>14. QED
  BY <1>4, <1>5, <1>6, <1>8, <1>9, <1>10, <1>11, <1>12, <1>13 DEF Next

\* What is said of the documents holds in every state.
THEOREM DocumentInvariance == Spec => []DocumentInv
<1>1. QED
  BY Invariance, DocumentInit, DocumentNext, PTL DEF Spec

\* Parse: for every set of replies and reviews of every length, what a model wraps around its
\* review neither changes it nor makes it unreadable; only a code fence in it may.
THEOREM ReadAlwaysAsMeant == Spec => []ReadAsMeant
<1>1. DocumentInv => ReadAsMeant
  BY DEF DocumentInv, MeaningInv, ReadAsMeant, Unreadable
<1>2. QED
  BY <1>1, DocumentInvariance, PTL

\* What the publish step reads of a review without a fence, whole or in part.
LEMMA Arrival ==
    ASSUME NEW rev, IsReview(rev), ~Fenced(rev), NEW outside \in SUBSET DOMAIN rev.findings
    PROVE  LET kept == Classify(rev, outside)
               doc  == Marshal(kept)
           IN  /\ Parse(doc) = kept
               /\ kept.ok
               /\ \A n \in 0..Len(doc) - 1 : ~Parse(SubSeq(doc, 1, n)).ok
<1> DEFINE kept == Classify(rev, outside)
           doc  == Marshal(kept)
<1>1. ~Contains(Marshal(rev), Fence)
  BY DEF Fenced, IsReview, Valid
<1>2. IsReview(kept) /\ ~Contains(Marshal(kept), Fence)
  BY <1>1, ClassifyProperties
<1> HIDE DEF kept
<1>3. Parse(Marshal(kept)) = kept
  BY <1>2, MarshalRead
<1>4. kept.ok
  BY <1>2 DEF IsReview, Valid
<1>5. \A n \in 0..Len(Marshal(kept)) - 1 : Parse(SubSeq(Marshal(kept), 1, n)) = Unreadable
  BY <1>2, PrefixUnread
<1>6. QED
  BY <1>3, <1>4, <1>5 DEF Unreadable, kept

\* Run and readReview: for reviews of every length and wherever a failure cut the file, the
\* publish step reads a review if and only if the reviewer exited with 0, with every finding.
THEOREM ReviewAlwaysArrives == Spec => []ReviewArrives
<1>1. DocumentInv => ReviewArrives
  <2> SUFFICES ASSUME DocumentInv, pc = "done", ~Fenced(review)
               PROVE  /\ exit = "ok" <=> read.ok
                      /\ exit = "ok" =>
                            \A i \in DOMAIN review.findings :
                               \/ Contains(read.findings, review.findings[i])
                               \/ \E a, b \in 0..Len(read.summary) :
                                     SubSeq(read.summary, a + 1, b) = review.findings[i]
    BY DEF ReviewArrives
  <2>1. /\ read = Parse(file)
        /\ \/ exit = "ok" /\ Whole(file)
           \/ exit = "error" /\ file = <<>>
           \/ exit = "error" /\ \E doc : Whole(doc) /\ \E n \in 0..Len(doc) - 1 : file = SubSeq(doc, 1, n)
    BY DEF DocumentInv, FileInv
  <2>2. CASE exit = "ok" /\ Whole(file)
    <3>1. IsReview(review)
      BY <2>2 DEF Whole
    <3>2. PICK outside \in SUBSET DOMAIN review.findings : file = Marshal(Classify(review, outside))
      BY <2>2 DEF Whole
    <3> DEFINE kept == Classify(review, outside)
    <3>3. read = kept /\ kept.ok
      BY <2>1, <3>1, <3>2, Arrival
    <3>4. \A i \in DOMAIN review.findings :
             \/ Contains(kept.findings, review.findings[i])
             \/ \E a, b \in 0..Len(kept.summary) :
                   SubSeq(kept.summary, a + 1, b) = review.findings[i]
      BY <3>1, ClassifyProperties
    <3> HIDE DEF kept
    <3>5. QED
      BY <2>2, <3>3, <3>4
  <2>3. CASE exit = "error" /\ file = <<>>
    BY <2>1, <2>3, EmptyUnread DEF Unreadable
  <2>4. CASE exit = "error" /\ \E doc : Whole(doc) /\ \E n \in 0..Len(doc) - 1 : file = SubSeq(doc, 1, n)
    <3>1. PICK doc : Whole(doc) /\ \E n \in 0..Len(doc) - 1 : file = SubSeq(doc, 1, n)
      BY <2>4
    <3>2. IsReview(review)
      BY <3>1 DEF Whole
    <3>3. PICK outside \in SUBSET DOMAIN review.findings : doc = Marshal(Classify(review, outside))
      BY <3>1 DEF Whole
    <3>4. \A n \in 0..Len(doc) - 1 : ~Parse(SubSeq(doc, 1, n)).ok
      BY <3>2, <3>3, Arrival
    <3>5. ~read.ok
      BY <2>1, <3>1, <3>4
    <3>6. QED
      BY <2>4, <3>5
  <2>5. QED
    BY <2>1, <2>2, <2>3, <2>4
<1>2. QED
  BY <1>1, DocumentInvariance, PTL
=============================================================================
