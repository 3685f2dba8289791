------------------------ MODULE ReviewDocumentProofs ------------------------
(***************************************************************************)
(* Proofs about ReviewDocument for documents and texts of every length:    *)
(* what the writer writes, what the decoder makes of it and of a part of   *)
(* it, and what Parse makes of a document that stands in a text.           *)
(*                                                                         *)
(* Modes, flattened sequences and selections are defined by recursion over *)
(* lengths; each has a lemma that says what it is (ModeDef, AtDef,         *)
(* FlattenDef), and these rest on SetInduction.                            *)
(***************************************************************************)
EXTENDS ReviewDocument, WellFoundedInduction, FiniteSetTheorems, SequenceTheorems, TLAPS
-----------------------------------------------------------------------------
(* Induction, and what the recursive definitions compute. *)

\* Induction over the numbers, as a statement about sets.
LEMMA SetInduction ==
    ASSUME NEW P, 0 \in P, \A n \in P \cap Nat : n + 1 \in P
    PROVE  Nat \subseteq P
<1> SUFFICES ASSUME Nat \ P # {} PROVE FALSE
  OBVIOUS
<1>1. PICK m \in Nat \ P : \A k \in Nat \ P : <<0..k, 0..m>> \notin StrictSubsetOrdering(Nat)
  <2> DEFINE R == StrictSubsetOrdering(Nat)
             T == {0..n : n \in Nat \ P}
             F == FiniteSubsetsOf(Nat)
  <2>1. IsWellFoundedOn(R, F)
    BY FS_StrictSubsetOrderingWellFounded
  <2>2. ASSUME NEW n \in Nat PROVE 0..n \in F
    BY FS_Interval DEF FiniteSubsetsOf
  <2>3. T \subseteq F /\ T # {}
    BY <2>2
  <2>4. \E t \in T : \A u \in T : <<u, t>> \notin R
    <3> HIDE DEF R, T, F
    <3> QED
      BY <2>1, <2>3, WFMin
  <2> QED
    BY <2>4
<1>2. m # 0 /\ m - 1 \in Nat /\ (m - 1) + 1 = m
  OBVIOUS
<1>3. <<0..(m - 1), 0..m>> \in StrictSubsetOrdering(Nat)
  <2>1. 0..(m - 1) \subseteq 0..m /\ 0..m \subseteq Nat /\ 0..(m - 1) # 0..m
    BY <1>2
  <2> QED
    BY <2>1 DEF StrictSubsetOrdering
<1>4. m - 1 \in P
  BY <1>1, <1>2, <1>3
<1> QED
  BY <1>2, <1>4

\* The largest element of a set of positions.
LEMMA MaxProperties ==
    ASSUME NEW n \in Nat, NEW S \in SUBSET (1..n), S # {}
    PROVE  Max(S) \in S /\ \A i \in S : i <= Max(S)
<1> DEFINE P == {m \in Nat : \A U \in SUBSET (1..m) : U # {} => \E x \in U : \A y \in U : x >= y}
<1>1. 0 \in P
  <2>1. 1..0 = {}
    OBVIOUS
  <2> QED
    BY <2>1
<1>2. ASSUME NEW m \in P \cap Nat PROVE m + 1 \in P
  <2> SUFFICES ASSUME NEW U \in SUBSET (1..(m + 1)), U # {} PROVE \E x \in U : \A y \in U : x >= y
    OBVIOUS
  <2>1. CASE m + 1 \in U
    BY <2>1
  <2>2. CASE m + 1 \notin U
    <3>1. U \in SUBSET (1..m)
      BY <2>2
    <3> QED
      BY <3>1
  <2> QED
    BY <2>1, <2>2
<1>3. n \in P
  <2> HIDE DEF P
  <2> QED
    BY <1>1, <1>2, SetInduction
<1>4. \E x \in S : \A y \in S : x >= y
  BY <1>3
<1> QED
  BY <1>4 DEF Max

\* The least element of a set of positions.
LEMMA MinProperties ==
    ASSUME NEW S \in SUBSET Nat, S # {}
    PROVE  Min(S) \in S /\ \A i \in S : Min(S) <= i
<1> DEFINE P == {m \in Nat : (\E x \in S : x <= m) => \E x \in S : \A y \in S : x <= y}
<1>1. 0 \in P
  OBVIOUS
<1>2. ASSUME NEW m \in P \cap Nat PROVE m + 1 \in P
  <2> SUFFICES ASSUME NEW z \in S, z <= m + 1 PROVE \E x \in S : \A y \in S : x <= y
    OBVIOUS
  <2>1. CASE \E x \in S : x <= m
    BY <2>1
  <2>2. CASE \A x \in S : ~(x <= m)
    <3>1. \A y \in S : z <= y
      BY <2>2
    <3> QED
      BY <3>1
  <2> QED
    BY <2>1, <2>2
<1>3. PICK z \in S : TRUE
  OBVIOUS
<1>4. z \in P
  <2>1. z \in Nat
    OBVIOUS
  <2> HIDE DEF P
  <2> QED
    BY <1>1, <1>2, <2>1, SetInduction
<1>5. \E x \in S : \A y \in S : x <= y
  BY <1>4
<1> QED
  BY <1>5 DEF Min

\* The modes of a scanner.
Modes == {"out", "in", "escaped"}

\* A scanner stays among its modes.
LEMMA StepType == ASSUME NEW m \in Modes, NEW t PROVE Step(m, t) \in Modes
  BY DEF Step, Modes

\* Mode takes one step per token.
LEMMA ModeDef ==
    ASSUME NEW T, NEW s \in Seq(T)
    PROVE  /\ Mode(s) \in [0..Len(s) -> Modes]
           /\ Mode(s)[0] = "out"
           /\ \A i \in 1..Len(s) : Mode(s)[i] = Step(Mode(s)[i - 1], s[i])
<1> DEFINE Scan(g, n) == /\ g \in [0..n -> Modes]
                         /\ g[0] = "out"
                         /\ \A i \in 1..n : g[i] = Step(g[i - 1], s[i])
           P == {n \in Nat : n <= Len(s) => \E g : Scan(g, n)}
<1>1. 0 \in P
  <2>1. Scan([i \in 0..0 |-> "out"], 0)
    BY DEF Modes
  <2> QED
    BY <2>1
<1>2. ASSUME NEW n \in P \cap Nat PROVE n + 1 \in P
  <2> SUFFICES ASSUME n + 1 <= Len(s) PROVE \E g : Scan(g, n + 1)
    OBVIOUS
  <2>1. PICK g : Scan(g, n)
    OBVIOUS
  <2> DEFINE h == [i \in 0..(n + 1) |-> IF i = n + 1 THEN Step(g[n], s[n + 1]) ELSE g[i]]
  <2>2. Step(g[n], s[n + 1]) \in Modes
    BY <2>1, StepType
  <2>3. h \in [0..(n + 1) -> Modes] /\ h[0] = "out"
    BY <2>1, <2>2
  <2>4. \A i \in 1..(n + 1) : h[i] = Step(h[i - 1], s[i])
    BY <2>1
  <2> QED
    BY <2>3, <2>4
<1>3. Len(s) \in Nat
  OBVIOUS
<1>4. Len(s) \in P
  <2> HIDE DEF P
  <2> QED
    BY <1>1, <1>2, <1>3, SetInduction
<1>5. PICK g : Scan(g, Len(s))
  BY <1>3, <1>4
<1>6. g = [i \in 0..Len(s) |-> IF i = 0 THEN "out" ELSE Step(g[i - 1], s[i])]
  BY <1>3, <1>5
<1>7. Mode(s) = [i \in 0..Len(s) |-> IF i = 0 THEN "out" ELSE Step(Mode(s)[i - 1], s[i])]
  BY <1>6 DEF Mode
<1>8. /\ Mode(s)[0] = "out"
      /\ \A i \in 1..Len(s) : Mode(s)[i] = Step(Mode(s)[i - 1], s[i])
  BY <1>3, <1>7
<1> DEFINE Q == {n \in Nat : n <= Len(s) => Mode(s)[n] \in Modes}
<1>9. Len(s) \in Nat /\ \A n \in Nat : n \in Q
  <2>1. 0 \in Q
    BY <1>8 DEF Modes
  <2>2. ASSUME NEW n \in Q \cap Nat PROVE n + 1 \in Q
    BY <1>3, <1>8, StepType
  <2> HIDE DEF Q
  <2> QED
    BY <1>3, <2>1, <2>2, SetInduction
<1> QED
  BY <1>7, <1>8, <1>9

\* The n tokens behind position a of s are those behind position b of t.
Aligned(s, t, a, b, n) ==
    /\ a + n <= Len(s) /\ b + n <= Len(t)
    /\ \A j \in 1..n : s[a + j] = t[b + j]

\* So are the modes.
ModesAligned(s, t, a, b, n) == \A j \in 0..n : Mode(s)[a + j] = Mode(t)[b + j]

\* Two scanners in the same mode that read the same tokens stay in the same modes.
LEMMA ModeShift ==
    ASSUME NEW T, NEW s \in Seq(T), NEW t \in Seq(T), NEW a \in Nat, NEW b \in Nat, NEW n \in Nat,
           Aligned(s, t, a, b, n), Mode(s)[a] = Mode(t)[b]
    PROVE  ModesAligned(s, t, a, b, n)
<1> USE DEF Aligned, ModesAligned
<1> DEFINE P == {j \in Nat : j <= n => Mode(s)[a + j] = Mode(t)[b + j]}
<1>1. 0 \in P
  OBVIOUS
<1>2. ASSUME NEW j \in P \cap Nat PROVE j + 1 \in P
  <2> SUFFICES ASSUME j + 1 <= n PROVE Mode(s)[a + (j + 1)] = Mode(t)[b + (j + 1)]
    OBVIOUS
  <2>1. Len(s) \in Nat /\ Len(t) \in Nat
    BY LenProperties
  <2>2. a + (j + 1) \in 1..Len(s) /\ b + (j + 1) \in 1..Len(t)
    BY <2>1
  <2>3. Mode(s)[a + (j + 1)] = Step(Mode(s)[a + j], s[a + (j + 1)])
    BY <2>2, ModeDef
  <2>4. Mode(t)[b + (j + 1)] = Step(Mode(t)[b + j], t[b + (j + 1)])
    BY <2>2, ModeDef
  <2>5. s[a + (j + 1)] = t[b + (j + 1)]
    <3>1. j + 1 \in 1..n
      OBVIOUS
    <3> QED
      BY <3>1
  <2>6. Mode(s)[a + j] = Mode(t)[b + j]
    OBVIOUS
  <2> QED
    BY <2>3, <2>4, <2>5, <2>6
<1>3. Nat \subseteq P
  <2> HIDE DEF P
  <2> QED
    BY <1>1, <1>2, SetInduction
<1> QED
  BY <1>3

\* g[i] is what the fold of At has kept of the first i tokens.
Kept(g, s, I) ==
    /\ g[0] = <<>>
    /\ \A i \in 1..Len(s) : g[i] = IF i \in I THEN Append(g[i - 1], s[i]) ELSE g[i - 1]

\* The recursion of the fold, over all sets of positions.
KeptOf(iter, s, I, n) ==
    iter = [S \in SUBSET (1..n) |->
              IF S = {} THEN <<>>
              ELSE IF Max(S) \in I THEN Append(iter[S \ {Max(S)}], s[Max(S)])
              ELSE iter[S \ {Max(S)}]]

\* It has a solution.
LEMMA KeptExists ==
    ASSUME NEW s, NEW I, NEW n \in Nat
    PROVE  \E iter : KeptOf(iter, s, I, n)
<1> DEFINE P == {m \in Nat : \E iter : KeptOf(iter, s, I, m)}
<1>1. 0 \in P
  <2>1. 1..0 = {}
    OBVIOUS
  <2>2. KeptOf([S \in SUBSET {} |-> <<>>], s, I, 0)
    BY <2>1 DEF KeptOf
  <2> QED
    BY <2>2
<1>2. ASSUME NEW m \in P \cap Nat PROVE m + 1 \in P
  <2>1. PICK f : KeptOf(f, s, I, m)
    OBVIOUS
  <2> DEFINE last == m + 1
             g == [S \in SUBSET (1..last) |->
                     IF last \in S
                     THEN IF last \in I THEN Append(f[S \ {last}], s[last]) ELSE f[S \ {last}]
                     ELSE f[S]]
  <2>2. ASSUME NEW S \in SUBSET (1..last), S # {}
        PROVE  g[S] = IF Max(S) \in I THEN Append(g[S \ {Max(S)}], s[Max(S)]) ELSE g[S \ {Max(S)}]
    <3>1. Max(S) \in S /\ Max(S) <= last /\ \A i \in S : i <= Max(S)
      <4>1. last \in Nat
        OBVIOUS
      <4> HIDE DEF last, g
      <4>2. S \in SUBSET (1..last)
        OBVIOUS
      <4>3. Max(S) \in S /\ \A i \in S : i <= Max(S)
        BY <2>2, <4>1, <4>2, MaxProperties
      <4>4. Max(S) \in 1..last
        BY <4>2, <4>3
      <4> QED
        BY <4>1, <4>3, <4>4
    <3>2. CASE last \in S
      <4>1. Max(S) = last
        <5>1. last \in Nat
          OBVIOUS
        <5> HIDE DEF last, g
        <5>2. Max(S) \in 1..last /\ last <= Max(S)
          BY <3>1, <3>2
        <5> QED
          BY <5>1, <5>2
      <4>2. S \ {last} \in SUBSET (1..last) /\ last \notin S \ {last}
        OBVIOUS
      <4>3. g[S \ {last}] = f[S \ {last}]
        BY <4>2
      <4>4. g[S] = IF last \in I THEN Append(f[S \ {last}], s[last]) ELSE f[S \ {last}]
        BY <3>2
      <4> HIDE DEF g, last
      <4> QED
        BY <4>1, <4>3, <4>4
    <3>3. CASE last \notin S
      <4>1. S \in SUBSET (1..m) /\ S \ {Max(S)} \in SUBSET (1..last) /\ last \notin S \ {Max(S)}
        <5>1. \A i \in 1..last : i # last => i \in 1..m
          BY SMTT(30)
        <5> HIDE DEF g, last
        <5> QED
          BY <3>3, <5>1
      <4>2. g[S] = f[S] /\ g[S \ {Max(S)}] = f[S \ {Max(S)}]
        BY <3>3, <4>1
      <4>3. f[S] = IF Max(S) \in I THEN Append(f[S \ {Max(S)}], s[Max(S)]) ELSE f[S \ {Max(S)}]
        BY <2>1, <2>2, <4>1 DEF KeptOf
      <4> HIDE DEF g, last
      <4> QED
        BY <4>2, <4>3
    <3> QED
      BY <3>2, <3>3
  <2>3. g[{}] = <<>>
    <3>1. f[{}] = <<>>
      BY <2>1 DEF KeptOf
    <3> QED
      BY <3>1
  <2>4. KeptOf(g, s, I, last)
    <3>1. g = [S \in SUBSET (1..last) |-> g[S]]
      OBVIOUS
    <3> HIDE DEF g, last
    <3> QED
      BY <2>2, <2>3, <3>1 DEF KeptOf
  <2> QED
    BY <2>4
<1>3. Nat \subseteq P
  <2> HIDE DEF P
  <2> QED
    BY <1>1, <1>2, SetInduction
<1> QED
  BY <1>3

\* At keeps the tokens at the positions in I, in order.
LEMMA AtDef ==
    ASSUME NEW T, NEW s \in Seq(T), NEW I
    PROVE  \E g \in [0..Len(s) -> Seq(T)] : Kept(g, s, I) /\ At(s, I) = g[Len(s)]
<1> DEFINE n == Len(s)
           raw(f) == f = [S \in SUBSET (DOMAIN [i \in DOMAIN s |-> i]) |->
                        IF S = {} THEN <<>>
                        ELSE IF [i \in DOMAIN s |-> i][Max(S)] \in I
                             THEN Append(f[S \ {Max(S)}], s[[i \in DOMAIN s |-> i][Max(S)]])
                             ELSE f[S \ {Max(S)}]]
           iter == CHOOSE f : raw(f)
<1>1. n \in Nat /\ DOMAIN s = 1..n
  BY LenProperties
<1>2. ASSUME NEW f PROVE raw(f) <=> KeptOf(f, s, I, n)
  <2>1. ASSUME NEW S \in SUBSET (1..n), S # {}
        PROVE  [i \in DOMAIN s |-> i][Max(S)] = Max(S)
    BY <1>1, <2>1, MaxProperties
  <2>2. DOMAIN [i \in DOMAIN s |-> i] = 1..n
    BY <1>1
  <2> HIDE DEF n
  <2> QED
    BY <2>1, <2>2 DEF KeptOf
<1>3. \E f : raw(f)
  BY <1>1, <1>2, KeptExists
<1>4. KeptOf(iter, s, I, n)
  BY <1>2, <1>3
<1>5. At(s, I) = iter[DOMAIN [i \in DOMAIN s |-> i]]
  BY DEF At, FoldLeftDomain, FoldLeft, MapThenFoldSet
<1>6. At(s, I) = iter[1..n]
  BY <1>1, <1>5
<1> HIDE DEF raw, iter
<1> DEFINE g == [i \in 0..n |-> iter[1..i]]
<1>7. ASSUME NEW i \in 1..n
      PROVE  g[i] = IF i \in I THEN Append(g[i - 1], s[i]) ELSE g[i - 1]
  <2> HIDE DEF n, g
  <2>0. i \in Nat /\ 1 <= i /\ i <= n
    BY <1>1
  <2>1. Max(1..i) = i
    <3>1. 1..i # {} /\ i \in 1..i /\ 1..i \in SUBSET (1..i)
      BY <2>0
    <3>2. Max(1..i) \in 1..i /\ \A j \in 1..i : j <= Max(1..i)
      BY <2>0, <3>1, MaxProperties
    <3> QED
      BY <2>0, <3>1, <3>2
  <2>2. (1..i) \ {i} = 1..(i - 1) /\ 1..i # {} /\ 1..i \in SUBSET (1..n)
    BY <1>1, <2>0
  <2>3. iter[1..i] = IF i \in I THEN Append(iter[1..(i - 1)], s[i]) ELSE iter[1..(i - 1)]
    BY <1>4, <2>1, <2>2 DEF KeptOf
  <2>4. i - 1 \in 0..n /\ i \in 0..n
    BY <1>1, <2>0
  <2> QED
    BY <2>3, <2>4 DEF g
<1>8. g[0] = <<>>
  <2>1. 1..0 = {}
    OBVIOUS
  <2> QED
    BY <1>1, <1>4, <2>1 DEF KeptOf
<1>9. g \in [0..n -> Seq(T)]
  <2> DEFINE P == {i \in Nat : i <= n => g[i] \in Seq(T)}
  <2>1. 0 \in P
    BY <1>8, EmptySeq
  <2>2. ASSUME NEW i \in P \cap Nat PROVE i + 1 \in P
    <3> SUFFICES ASSUME i + 1 <= n PROVE g[i + 1] \in Seq(T)
      OBVIOUS
    <3>1. g[i] \in Seq(T)
      BY <1>1
    <3> HIDE DEF g, P
    <3>2. i + 1 \in 1..n /\ (i + 1) - 1 = i
      BY <1>1
    <3>3. s[i + 1] \in T
      BY <3>2, ElementOfSeq
    <3>4. Append(g[i], s[i + 1]) \in Seq(T)
      BY <3>1, <3>3, AppendProperties
    <3>5. g[i + 1] = IF i + 1 \in I THEN Append(g[i], s[i + 1]) ELSE g[i]
      BY <1>7, <3>2
    <3> QED
      BY <3>1, <3>4, <3>5
  <2>3. Nat \subseteq P
    <3> HIDE DEF P
    <3> QED
      BY <2>1, <2>2, SetInduction
  <2>4. \A i \in 0..n : g[i] \in Seq(T)
    <3> SUFFICES ASSUME NEW i \in 0..n PROVE g[i] \in Seq(T)
      OBVIOUS
    <3>1. i \in Nat /\ i <= n
      BY <1>1
    <3>2. i \in P
      BY <2>3, <3>1
    <3> QED
      BY <3>1, <3>2
  <2> QED
    BY <2>4
<1>10. Kept(g, s, I)
  <2> HIDE DEF g
  <2> QED
    BY <1>7, <1>8 DEF Kept
<1>11. At(s, I) = g[n]
  BY <1>1, <1>6
<1> QED
  BY <1>9, <1>10, <1>11

\* g is the function into T that starts with base and goes on by F.
Recursion(g, T, base, n, F) ==
    /\ g \in [0..n -> T]
    /\ g[0] = base
    /\ \A i \in 1..n : g[i] = F[<<i, g[i - 1]>>]

\* There is one.
LEMMA RecursionExists ==
    ASSUME NEW T, NEW base \in T, NEW n \in Nat, NEW F \in [(1..n) \X T -> T]
    PROVE  \E g : Recursion(g, T, base, n, F)
<1> DEFINE Sol(g, m) == g \in [0..m -> T] /\ g[0] = base /\ \A i \in 1..m : g[i] = F[<<i, g[i - 1]>>]
           P == {m \in Nat : m <= n => \E g : Sol(g, m)}
<1>1. 0 \in P
  <2>1. Sol([i \in 0..0 |-> base], 0)
    OBVIOUS
  <2> QED
    BY <2>1
<1>2. ASSUME NEW m \in P \cap Nat PROVE m + 1 \in P
  <2> SUFFICES ASSUME m + 1 <= n PROVE \E g : Sol(g, m + 1)
    OBVIOUS
  <2>1. PICK g : Sol(g, m)
    OBVIOUS
  <2> DEFINE h == [i \in 0..(m + 1) |-> IF i = m + 1 THEN F[<<m + 1, g[m]>>] ELSE g[i]]
  <2>2. F[<<m + 1, g[m]>>] \in T
    BY <2>1
  <2>3. h \in [0..(m + 1) -> T] /\ h[0] = base
    BY <2>1, <2>2
  <2>4. ASSUME NEW i \in 1..(m + 1) PROVE h[i] = F[<<i, h[i - 1]>>]
    <3>1. h[i - 1] = g[i - 1] /\ m \in Nat
      OBVIOUS
    <3>2. CASE i = m + 1
      <4>1. i - 1 = m /\ h[i] = F[<<m + 1, g[m]>>]
        BY <3>2
      <4> HIDE DEF h
      <4> QED
        BY <3>1, <3>2, <4>1
    <3>3. CASE i # m + 1
      <4>1. i \in 1..m /\ h[i] = g[i]
        BY <3>1, <3>3
      <4> QED
        BY <2>1, <3>1, <4>1
    <3> QED
      BY <3>2, <3>3
  <2> QED
    BY <2>3, <2>4
<1>3. n \in P
  <2> HIDE DEF P
  <2> QED
    BY <1>1, <1>2, SetInduction
<1> QED
  BY <1>3 DEF Recursion

\* g[k] is the first k of the sequences qs, one behind the other.
Joined(g, qs) ==
    /\ g[0] = <<>>
    /\ \A k \in 1..Len(qs) : g[k] = g[k - 1] \o qs[k]

\* FlattenSeq joins them all.
LEMMA FlattenDef ==
    ASSUME NEW T, NEW qs \in Seq(Seq(T))
    PROVE  \E g \in [0..Len(qs) -> Seq(T)] : Joined(g, qs) /\ FlattenSeq(qs) = g[Len(qs)]
<1> DEFINE n == Len(qs)
           F == [x \in (1..n) \X Seq(T) |-> x[2] \o qs[x[1]]]
<1>1. n \in Nat /\ \A k \in 1..n : qs[k] \in Seq(T)
  BY LenProperties
<1>2. \A k \in 1..n, q \in Seq(T) : F[<<k, q>>] = q \o qs[k] /\ F[<<k, q>>] \in Seq(T)
  BY <1>1, ConcatProperties
<1>3. F \in [(1..n) \X Seq(T) -> Seq(T)]
  BY <1>1, ConcatProperties
<1>4. <<>> \in Seq(T)
  BY EmptySeq
<1> HIDE DEF F
<1>5. PICK g \in [0..n -> Seq(T)] : g[0] = <<>> /\ \A k \in 1..n : g[k] = F[<<k, g[k - 1]>>]
  <2> DEFINE T0   == Seq(T)
             none == <<>>
  <2>1. n \in Nat /\ none \in T0 /\ F \in [(1..n) \X T0 -> T0]
    BY <1>1, <1>3, <1>4
  <2>2. \E g : Recursion(g, T0, none, n, F)
    <3> HIDE DEF T0, none, n
    <3> QED
      BY <2>1, RecursionExists
  <2> QED
    BY <2>2 DEF Recursion
<1>6. Joined(g, qs)
  <2>1. ASSUME NEW k \in 1..n PROVE g[k] = g[k - 1] \o qs[k]
    <3>1. g[k - 1] \in Seq(T)
      <4>1. k - 1 \in 0..n
        BY <1>1
      <4> HIDE DEF n
      <4> QED
        BY <1>5, <4>1
    <3> QED
      BY <1>2, <1>5, <3>1
  <2> QED
    BY <1>5, <2>1 DEF Joined
<1>7. CASE n = 0
  <2>1. qs = <<>>
    BY <1>7
  <2>2. FlattenSeq(qs) = <<>>
    BY <1>7, <2>1 DEF FlattenSeq
  <2> QED
    BY <1>5, <1>6, <1>7, <2>2
<1>8. CASE n # 0
  <2> DEFINE Flat(f) == f = [i \in 1..n |-> IF i = 1 THEN qs[i] ELSE f[i - 1] \o qs[i]]
             flat == CHOOSE f : Flat(f)
             h == [i \in 1..n |-> g[i]]
  <2>1. ASSUME NEW i \in 1..n PROVE h[i] = IF i = 1 THEN qs[i] ELSE h[i - 1] \o qs[i]
    <3>1. g[i] = g[i - 1] \o qs[i]
      BY <1>6 DEF Joined
    <3>2. CASE i = 1
      <4>1. g[0] = <<>> /\ 1 - 1 = 0
        BY <1>5
      <4>2. <<>> \o qs[1] = qs[1]
        BY <1>1, <3>2, ConcatEmptySeq
      <4> HIDE DEF n
      <4> QED
        BY <3>1, <3>2, <4>1, <4>2
    <3>3. CASE i # 1
      <4>1. i - 1 \in 1..n
        BY <1>1, <3>3
      <4>2. h[i - 1] = g[i - 1] /\ h[i] = g[i]
        BY <4>1
      <4> HIDE DEF n, h
      <4> QED
        BY <3>1, <3>3, <4>2
    <3> QED
      BY <3>2, <3>3
  <2>2. Flat(h)
    <3>1. h = [i \in 1..n |-> h[i]]
      OBVIOUS
    <3> HIDE DEF h, n
    <3> QED
      BY <2>1, <3>1
  <2>3. Flat(flat)
    BY <2>2
  <2>4. FlattenSeq(qs) = flat[n]
    BY <1>8 DEF FlattenSeq
  <2> HIDE DEF flat
  <2>5. ASSUME NEW i \in 1..n PROVE flat[i] = IF i = 1 THEN qs[i] ELSE flat[i - 1] \o qs[i]
    BY <2>3
  <2> DEFINE Q == {m \in Nat : m + 1 <= n => flat[m + 1] = h[m + 1]}
  <2>6. 0 \in Q
    <3> SUFFICES ASSUME 1 <= n PROVE flat[1] = h[1]
      OBVIOUS
    <3>1. 1 \in 1..n
      BY <1>1
    <3> HIDE DEF h, n
    <3> QED
      BY <2>1, <2>5, <3>1
  <2>7. ASSUME NEW m \in Q \cap Nat PROVE m + 1 \in Q
    <3> SUFFICES ASSUME (m + 1) + 1 <= n PROVE flat[(m + 1) + 1] = h[(m + 1) + 1]
      OBVIOUS
    <3>1. (m + 1) + 1 \in 1..n /\ (m + 1) + 1 # 1 /\ ((m + 1) + 1) - 1 = m + 1
      BY <1>1
    <3>2. m + 1 <= n => flat[m + 1] = h[m + 1]
      OBVIOUS
    <3>3. m + 1 <= n
      BY <1>1
    <3> HIDE DEF h, n, Q
    <3>4. flat[(m + 1) + 1] = flat[m + 1] \o qs[(m + 1) + 1]
      BY <2>5, <3>1
    <3>5. h[(m + 1) + 1] = h[m + 1] \o qs[(m + 1) + 1]
      BY <2>1, <3>1
    <3> QED
      BY <3>2, <3>3, <3>4, <3>5
  <2>8. n - 1 \in Nat /\ (n - 1) + 1 = n
    BY <1>1, <1>8
  <2>9. n - 1 \in Q
    <3> HIDE DEF Q, n
    <3> QED
      BY <2>6, <2>7, <2>8, SetInduction
  <2>10. flat[n] = h[n]
    <3> HIDE DEF h, n
    <3> QED
      BY <2>8, <2>9
  <2>11. h[n] = g[n]
    BY <1>1, <1>8
  <2> QED
    BY <1>6, <2>4, <2>10, <2>11
<1> QED
  BY <1>7, <1>8

\* Nothing is kept where nothing is wanted.
LEMMA KeptNone ==
    ASSUME NEW T, NEW s \in Seq(T), NEW I, NEW g \in [0..Len(s) -> Seq(T)], Kept(g, s, I),
           NEW a \in 0..Len(s), NEW b \in a..Len(s), \A i \in a + 1..b : i \notin I
    PROVE  g[b] = g[a]
<1> DEFINE P == {n \in Nat : a + n <= b => g[a + n] = g[a]}
<1>1. Len(s) \in Nat /\ a \in Nat /\ b \in Nat /\ a <= b /\ b <= Len(s)
  BY LenProperties
<1>2. 0 \in P
  BY <1>1
<1>3. ASSUME NEW n \in P \cap Nat PROVE n + 1 \in P
  <2> SUFFICES ASSUME a + (n + 1) <= b PROVE g[a + (n + 1)] = g[a]
    OBVIOUS
  <2>1. a + n <= b => g[a + n] = g[a]
    OBVIOUS
  <2> HIDE DEF P
  <2>2. a + (n + 1) \in a + 1..b /\ a + (n + 1) \in 1..Len(s) /\ (a + (n + 1)) - 1 = a + n /\ a + n <= b
    BY <1>1
  <2>3. g[a + (n + 1)] = g[a + n]
    BY <2>2 DEF Kept
  <2> QED
    BY <2>1, <2>2, <2>3
<1>4. b - a \in P
  <2>1. b - a \in Nat
    BY <1>1
  <2> HIDE DEF P
  <2> QED
    BY <1>2, <1>3, <2>1, SetInduction
<1> QED
  BY <1>1, <1>4

\* v is u and then n tokens of s, those behind position a.
Extends(v, u, s, a, n) ==
    /\ Len(v) = Len(u) + n
    /\ \A j \in 1..Len(u) : v[j] = u[j]
    /\ \A j \in 1..n : v[Len(u) + j] = s[a + j]

\* Everything is kept where everything is wanted.
LEMMA KeptRun ==
    ASSUME NEW T, NEW s \in Seq(T), NEW I, NEW g \in [0..Len(s) -> Seq(T)], Kept(g, s, I),
           NEW a \in 0..Len(s), NEW n \in 0..Len(s), a + n <= Len(s),
           \A i \in a + 1..a + n : i \in I
    PROVE  Extends(g[a + n], g[a], s, a, n)
<1> DEFINE Run(m) == Extends(g[a + m], g[a], s, a, m)
           P      == {m \in Nat : m <= n => Run(m)}
<1> HIDE DEF Run
<1>1. Len(s) \in Nat /\ a \in Nat /\ n \in Nat /\ g[a] \in Seq(T) /\ Len(g[a]) \in Nat
  <2>1. Len(s) \in Nat /\ g[a] \in Seq(T)
    BY LenProperties
  <2> QED
    BY <2>1, LenProperties
<1>2. 0 \in P
  <2>1. Run(0)
    BY <1>1 DEF Run, Extends
  <2> QED
    BY <2>1
<1>3. ASSUME NEW m \in P \cap Nat PROVE m + 1 \in P
  <2> SUFFICES ASSUME m + 1 <= n PROVE Run(m + 1)
    OBVIOUS
  <2>1. m <= n => Run(m)
    OBVIOUS
  <2> HIDE DEF P
  <2>2. a + (m + 1) \in a + 1..a + n /\ a + (m + 1) \in 1..Len(s) /\ (a + (m + 1)) - 1 = a + m
        /\ a + m \in 0..Len(s) /\ m <= n /\ m \in Nat
    BY <1>1
  <2> DEFINE h == g[a + m]
             e == s[a + (m + 1)]
  <2>3. g[a + (m + 1)] = Append(h, e)
    BY <2>2 DEF Kept
  <2>4. e \in T /\ h \in Seq(T)
    BY <2>2, ElementOfSeq
  <2>5. /\ Len(h) = Len(g[a]) + m
        /\ \A j \in 1..Len(g[a]) : h[j] = g[a][j]
        /\ \A j \in 1..m : h[Len(g[a]) + j] = s[a + j]
    BY <2>1, <2>2 DEF Run, Extends
  <2> HIDE DEF h
  <2>6. /\ Len(Append(h, e)) = Len(h) + 1
        /\ \A j \in 1..Len(h) : Append(h, e)[j] = h[j]
        /\ Append(h, e)[Len(h) + 1] = e
    BY <2>4, AppendProperties
  <2> DEFINE k == g[a + (m + 1)]
  <2>7. /\ Len(k) = Len(g[a]) + (m + 1)
        /\ \A j \in 1..Len(g[a]) + m : k[j] = h[j]
        /\ k[Len(g[a]) + (m + 1)] = e
    <3> HIDE DEF k, e
    <3>1. k = Append(h, e)
      BY <2>3 DEF k, e
    <3> QED
      BY <1>1, <2>2, <2>5, <2>6, <3>1
  <2> HIDE DEF k
  <2>8. \A j \in 1..Len(g[a]) : k[j] = g[a][j]
    BY <1>1, <2>2, <2>5, <2>7
  <2>9. ASSUME NEW j \in 1..m + 1 PROVE k[Len(g[a]) + j] = s[a + j]
    <3>1. CASE j = m + 1
      BY <2>7, <3>1
    <3>2. CASE j # m + 1
      <4>1. j \in 1..m /\ Len(g[a]) + j \in 1..Len(g[a]) + m
        BY <1>1, <2>2, <3>2
      <4> HIDE DEF e
      <4> QED
        BY <2>5, <2>7, <4>1
    <3> QED
      BY <3>1, <3>2
  <2> QED
    BY <2>7, <2>8, <2>9 DEF k, Run, Extends
<1>4. n \in P
  <2> HIDE DEF P
  <2> QED
    BY <1>1, <1>2, <1>3, SetInduction
<1> QED
  BY <1>1, <1>4 DEF Run

\* What was kept of a part stays at the front.
LEMMA KeptGrows ==
    ASSUME NEW T, NEW s \in Seq(T), NEW I, NEW g \in [0..Len(s) -> Seq(T)], Kept(g, s, I),
           NEW a \in 0..Len(s)
    PROVE  /\ Len(g[a]) <= Len(g[Len(s)])
           /\ \A j \in 1..Len(g[a]) : g[Len(s)][j] = g[a][j]
<1> DEFINE Begins(m) == /\ Len(g[a]) <= Len(g[a + m])
                       /\ \A j \in 1..Len(g[a]) : g[a + m][j] = g[a][j]
           P        == {m \in Nat : a + m <= Len(s) => Begins(m)}
<1> HIDE DEF Begins
<1>1. Len(s) \in Nat /\ a \in Nat /\ a <= Len(s) /\ g[a] \in Seq(T) /\ Len(g[a]) \in Nat
  <2>1. Len(s) \in Nat /\ g[a] \in Seq(T)
    BY LenProperties
  <2> QED
    BY <2>1, LenProperties
<1>2. 0 \in P
  BY <1>1 DEF Begins
<1>3. ASSUME NEW m \in P \cap Nat PROVE m + 1 \in P
  <2> SUFFICES ASSUME a + (m + 1) <= Len(s) PROVE Begins(m + 1)
    OBVIOUS
  <2>1. a + m <= Len(s) => Begins(m)
    OBVIOUS
  <2> HIDE DEF P
  <2>2. a + (m + 1) \in 1..Len(s) /\ (a + (m + 1)) - 1 = a + m
        /\ a + m \in 0..Len(s) /\ a + m <= Len(s)
    BY <1>1
  <2> DEFINE h == g[a + m]
             e == s[a + (m + 1)]
  <2>3. g[a + (m + 1)] = Append(h, e) \/ g[a + (m + 1)] = h
    BY <2>2 DEF Kept
  <2>4. e \in T /\ h \in Seq(T)
    BY <2>2, ElementOfSeq
  <2>5. Len(g[a]) <= Len(h) /\ \A j \in 1..Len(g[a]) : h[j] = g[a][j]
    BY <2>1, <2>2 DEF Begins
  <2> HIDE DEF h, e
  <2>6. /\ Len(Append(h, e)) = Len(h) + 1 /\ Len(h) \in Nat
        /\ \A j \in 1..Len(h) : Append(h, e)[j] = h[j]
    BY <2>4, AppendProperties, LenProperties
  <2>7. \A j \in 1..Len(g[a]) : j \in 1..Len(h)
    BY <1>1, <2>5, <2>6
  <2> DEFINE k == g[a + (m + 1)]
  <2>8. Len(g[a]) <= Len(k) /\ \A j \in 1..Len(g[a]) : k[j] = g[a][j]
    <3>1. k = Append(h, e) \/ k = h
      BY <2>3
    <3> HIDE DEF k
    <3> QED
      BY <1>1, <2>5, <2>6, <2>7, <3>1
  <2> QED
    BY <2>8 DEF Begins
<1>4. Len(s) - a \in P
  <2>1. Len(s) - a \in Nat
    BY <1>1
  <2> HIDE DEF P
  <2> QED
    BY <1>2, <1>3, <2>1, SetInduction
<1>5. a + (Len(s) - a) = Len(s) /\ Begins(Len(s) - a)
  BY <1>1, <1>4
<1> QED
  BY <1>5 DEF Begins

\* What is kept is what was wanted.
LEMMA KeptElements ==
    ASSUME NEW T, NEW s \in Seq(T), NEW I, NEW g \in [0..Len(s) -> Seq(T)], Kept(g, s, I)
    PROVE  \A j \in 1..Len(g[Len(s)]) : \E i \in 1..Len(s) : i \in I /\ g[Len(s)][j] = s[i]
<1> DEFINE From(m) == \A j \in 1..Len(g[m]) : \E i \in 1..Len(s) : i \in I /\ g[m][j] = s[i]
           P       == {m \in Nat : m <= Len(s) => From(m)}
<1> HIDE DEF From
<1>1. Len(s) \in Nat
  BY LenProperties
<1>2. 0 \in P
  <2>1. 0 \in 0..Len(s) /\ g[0] = <<>>
    BY <1>1 DEF Kept
  <2>2. From(0)
    BY <2>1 DEF From
  <2> QED
    BY <2>2
<1>3. ASSUME NEW m \in P \cap Nat PROVE m + 1 \in P
  <2> SUFFICES ASSUME m + 1 <= Len(s) PROVE From(m + 1)
    OBVIOUS
  <2>1. m <= Len(s) => From(m)
    OBVIOUS
  <2> HIDE DEF P
  <2>2. m + 1 \in 1..Len(s) /\ (m + 1) - 1 = m /\ m \in 0..Len(s) /\ m <= Len(s)
    BY <1>1
  <2> DEFINE h == g[m]
             e == s[m + 1]
             k == g[m + 1]
  <2>3. (m + 1 \in I /\ k = Append(h, e)) \/ k = h
    BY <2>2 DEF Kept
  <2>4. e \in T /\ h \in Seq(T)
    BY <2>2, ElementOfSeq
  <2>5. \A j \in 1..Len(h) : \E i \in 1..Len(s) : i \in I /\ h[j] = s[i]
    BY <2>1, <2>2 DEF From
  <2> HIDE DEF h, k
  <2>6. /\ Len(Append(h, e)) = Len(h) + 1 /\ Len(h) \in Nat
        /\ \A j \in 1..Len(h) : Append(h, e)[j] = h[j]
        /\ Append(h, e)[Len(h) + 1] = e
    BY <2>4, AppendProperties, LenProperties
  <2>7. ASSUME NEW j \in 1..Len(k) PROVE \E i \in 1..Len(s) : i \in I /\ k[j] = s[i]
    <3>1. CASE k = h
      BY <2>5, <3>1
    <3>2. CASE m + 1 \in I /\ k = Append(h, e) /\ j = Len(h) + 1
      BY <2>2, <2>6, <3>2
    <3>3. CASE k = Append(h, e) /\ j # Len(h) + 1
      <4>1. j \in 1..Len(h)
        BY <2>6, <3>3
      <4>2. k[j] = h[j]
        BY <2>6, <3>3, <4>1
      <4> QED
        BY <2>5, <4>1, <4>2
    <3> QED
      BY <2>3, <3>1, <3>2, <3>3
  <2> QED
    BY <2>7 DEF From, k
<1>4. Len(s) \in P
  <2> HIDE DEF P
  <2> QED
    BY <1>1, <1>2, <1>3, SetInduction
<1> QED
  BY <1>4 DEF From

\* What At returns.
LEMMA AtProperties ==
    ASSUME NEW T, NEW s \in Seq(T), NEW I
    PROVE  /\ At(s, I) \in Seq(T)
           /\ \A j \in 1..Len(At(s, I)) : \E i \in 1..Len(s) : i \in I /\ At(s, I)[j] = s[i]
           /\ \A i \in 1..Len(s) : i \in I => \E j \in 1..Len(At(s, I)) : At(s, I)[j] = s[i]
<1>1. PICK g \in [0..Len(s) -> Seq(T)] : Kept(g, s, I) /\ At(s, I) = g[Len(s)]
  BY AtDef
<1>2. Len(s) \in Nat
  BY LenProperties
<1>3. At(s, I) \in Seq(T)
  BY <1>1, <1>2
<1>4. \A j \in 1..Len(At(s, I)) : \E i \in 1..Len(s) : i \in I /\ At(s, I)[j] = s[i]
  BY <1>1, KeptElements
<1>5. ASSUME NEW i \in 1..Len(s), i \in I
      PROVE  \E j \in 1..Len(At(s, I)) : At(s, I)[j] = s[i]
  <2> DEFINE h == g[i - 1]
             e == s[i]
  <2>1. i \in 0..Len(s) /\ i - 1 \in 0..Len(s)
    BY <1>2
  <2>2. h \in Seq(T) /\ e \in T
    BY <2>1, ElementOfSeq
  <2>3. g[i] = Append(h, e)
    BY <1>1, <1>5 DEF Kept
  <2> HIDE DEF h, e
  <2>4. Len(h) + 1 \in 1..Len(g[i]) /\ g[i][Len(h) + 1] = e
    BY <2>2, <2>3, AppendProperties, LenProperties
  <2>5. Len(g[i]) <= Len(At(s, I)) /\ \A j \in 1..Len(g[i]) : At(s, I)[j] = g[i][j]
    BY <1>1, <2>1, KeptGrows
  <2>6. Len(h) + 1 \in 1..Len(At(s, I))
    <3>1. Len(h) \in Nat /\ Len(At(s, I)) \in Nat /\ Len(g[i]) \in Nat
      BY <1>3, <2>1, <2>2, LenProperties
    <3> QED
      BY <2>4, <2>5, <3>1
  <2> QED
    BY <2>4, <2>5, <2>6 DEF e
<1> QED
  BY <1>3, <1>4, <1>5

\* It keeps everything, if everything is wanted.
LEMMA AtSame ==
    ASSUME NEW T, NEW s \in Seq(T), NEW I, \A i \in 1..Len(s) : i \in I
    PROVE  At(s, I) = s
<1>1. PICK g \in [0..Len(s) -> Seq(T)] : Kept(g, s, I) /\ At(s, I) = g[Len(s)]
  BY AtDef
<1> DEFINE n == Len(s)
           a == 0
<1>2. n \in Nat /\ a \in 0..n /\ n \in 0..n /\ a + n = n /\ g[a] = <<>> /\ Len(g[a]) = 0
  <2>1. n \in Nat /\ g[0] = <<>>
    BY <1>1, LenProperties DEF Kept
  <2>2. Len(g[0]) = 0
    BY <2>1
  <2> QED
    BY <2>1, <2>2
<1>3. Extends(g[a + n], g[a], s, a, n)
  <2>1. (\A i \in a + 1..a + n : i \in I) /\ a + n <= n
    BY <1>2
  <2> HIDE DEF a
  <2> QED
    BY <1>1, <1>2, <2>1, KeptRun
<1>4. Len(At(s, I)) = n /\ \A j \in 1..n : At(s, I)[j] = s[j]
  BY <1>1, <1>2, <1>3 DEF Extends
<1>5. At(s, I) \in Seq(T)
  BY AtProperties
<1> QED
  BY <1>4, <1>5, SeqEqual

\* The sequences qs stand in t one behind the other, the k-th of them behind position o[k - 1].
Offsets(o, qs, t) ==
    /\ o \in [0..Len(qs) -> 0..Len(t)]
    /\ o[0] = 0
    /\ o[Len(qs)] = Len(t)
    /\ \A k \in 1..Len(qs) : o[k] = o[k - 1] + Len(qs[k])
    /\ \A k \in 1..Len(qs) : \A j \in 1..Len(qs[k]) : t[o[k - 1] + j] = qs[k][j]

\* What is joined first stays at the front.
LEMMA JoinedGrows ==
    ASSUME NEW T, NEW qs \in Seq(Seq(T)), NEW g \in [0..Len(qs) -> Seq(T)], Joined(g, qs),
           NEW a \in 0..Len(qs)
    PROVE  /\ Len(g[a]) <= Len(g[Len(qs)])
           /\ \A j \in 1..Len(g[a]) : g[Len(qs)][j] = g[a][j]
<1> DEFINE Begins(m) == /\ Len(g[a]) <= Len(g[a + m])
                        /\ \A j \in 1..Len(g[a]) : g[a + m][j] = g[a][j]
           P        == {m \in Nat : a + m <= Len(qs) => Begins(m)}
<1> HIDE DEF Begins
<1>1. Len(qs) \in Nat /\ a \in Nat /\ a <= Len(qs) /\ g[a] \in Seq(T) /\ Len(g[a]) \in Nat
  <2>1. Len(qs) \in Nat /\ g[a] \in Seq(T)
    BY LenProperties
  <2> QED
    BY <2>1, LenProperties
<1>2. 0 \in P
  BY <1>1 DEF Begins
<1>3. ASSUME NEW m \in P \cap Nat PROVE m + 1 \in P
  <2> SUFFICES ASSUME a + (m + 1) <= Len(qs) PROVE Begins(m + 1)
    OBVIOUS
  <2>1. a + m <= Len(qs) => Begins(m)
    OBVIOUS
  <2> HIDE DEF P
  <2>2. a + (m + 1) \in 1..Len(qs) /\ (a + (m + 1)) - 1 = a + m
        /\ a + m \in 0..Len(qs) /\ a + m <= Len(qs)
    BY <1>1
  <2> DEFINE h == g[a + m]
             e == qs[a + (m + 1)]
             k == g[a + (m + 1)]
  <2>3. k = h \o e
    BY <2>2 DEF Joined
  <2>4. e \in Seq(T) /\ h \in Seq(T)
    BY <2>2, ElementOfSeq
  <2>5. Len(g[a]) <= Len(h) /\ \A j \in 1..Len(g[a]) : h[j] = g[a][j]
    BY <2>1, <2>2 DEF Begins
  <2> HIDE DEF h, e, k
  <2>6. /\ Len(h \o e) = Len(h) + Len(e) /\ Len(h) \in Nat /\ Len(e) \in Nat
        /\ \A j \in 1..Len(h) + Len(e) : (h \o e)[j] = IF j <= Len(h) THEN h[j] ELSE e[j - Len(h)]
    BY <2>4, ConcatProperties, LenProperties
  <2>7. ASSUME NEW j \in 1..Len(g[a]) PROVE k[j] = h[j]
    BY <1>1, <2>3, <2>5, <2>6
  <2>8. Len(g[a]) <= Len(k) /\ \A j \in 1..Len(g[a]) : k[j] = g[a][j]
    <3>1. Len(k) = Len(h) + Len(e)
      BY <2>3, <2>6
    <3>2. Len(g[a]) <= Len(k)
      BY <1>1, <2>5, <2>6, <3>1
    <3> QED
      BY <2>5, <2>7, <3>2
  <2> QED
    BY <2>8 DEF Begins, k
<1>4. Len(qs) - a \in P
  <2>1. Len(qs) - a \in Nat
    BY <1>1
  <2> HIDE DEF P
  <2> QED
    BY <1>2, <1>3, <2>1, SetInduction
<1>5. a + (Len(qs) - a) = Len(qs) /\ Begins(Len(qs) - a)
  BY <1>1, <1>4
<1> QED
  BY <1>5 DEF Begins

\* What FlattenSeq returns.
LEMMA FlattenProperties ==
    ASSUME NEW T, NEW qs \in Seq(Seq(T))
    PROVE  FlattenSeq(qs) \in Seq(T) /\ \E o : Offsets(o, qs, FlattenSeq(qs))
<1>1. PICK g \in [0..Len(qs) -> Seq(T)] : Joined(g, qs) /\ FlattenSeq(qs) = g[Len(qs)]
  BY FlattenDef
<1> DEFINE n == Len(qs)
           t == FlattenSeq(qs)
           o == [k \in 0..n |-> Len(g[k])]
<1>2. n \in Nat
  BY LenProperties
<1>3. t \in Seq(T) /\ t = g[n]
  BY <1>1, <1>2
<1> HIDE DEF t
<1>4. ASSUME NEW k \in 0..n
      PROVE  /\ Len(g[k]) \in 0..Len(t)
             /\ \A j \in 1..Len(g[k]) : t[j] = g[k][j]
  <2>1. g[k] \in Seq(T)
    OBVIOUS
  <2>2. Len(g[k]) \in Nat /\ Len(t) \in Nat
    BY <1>3, <2>1, LenProperties
  <2>3. Len(g[k]) <= Len(g[n]) /\ \A j \in 1..Len(g[k]) : g[n][j] = g[k][j]
    BY <1>1, JoinedGrows
  <2> QED
    BY <1>3, <2>2, <2>3
<1>5. ASSUME NEW k \in 1..n
      PROVE  /\ Len(g[k]) = Len(g[k - 1]) + Len(qs[k])
             /\ \A j \in 1..Len(qs[k]) : t[Len(g[k - 1]) + j] = qs[k][j]
  <2> DEFINE h == g[k - 1]
             e == qs[k]
             u == g[k]
  <2>1. h \in Seq(T) /\ e \in Seq(T) /\ k \in 0..n /\ k - 1 \in 0..n
    <3>1. k \in 0..n /\ k - 1 \in 0..n
      BY <1>2
    <3> QED
      BY <3>1, ElementOfSeq
  <2>2. u = h \o e
    BY <1>1 DEF Joined
  <2>3. \A j \in 1..Len(u) : t[j] = u[j]
    BY <1>4, <2>1
  <2> HIDE DEF h, e, u
  <2>4. /\ Len(h \o e) = Len(h) + Len(e) /\ Len(h) \in Nat /\ Len(e) \in Nat
        /\ \A j \in 1..Len(h) + Len(e) : (h \o e)[j] = IF j <= Len(h) THEN h[j] ELSE e[j - Len(h)]
    BY <2>1, ConcatProperties, LenProperties
  <2>5. Len(u) = Len(h) + Len(e)
    BY <2>2, <2>4
  <2>6. ASSUME NEW j \in 1..Len(e) PROVE t[Len(h) + j] = e[j]
    <3>1. Len(h) + j \in 1..Len(h) + Len(e) /\ ~(Len(h) + j <= Len(h)) /\ (Len(h) + j) - Len(h) = j
      BY <2>4
    <3>2. u[Len(h) + j] = e[j]
      BY <2>2, <2>4, <3>1
    <3> QED
      BY <2>3, <2>5, <3>1, <3>2
  <2> QED
    BY <2>5, <2>6 DEF h, e, u
<1>6. \A k \in 0..n : o[k] = Len(g[k])
  OBVIOUS
<1>7. o \in [0..n -> 0..Len(t)]
  BY <1>4
<1>8. Len(g[0]) = 0 /\ 0 \in 0..n /\ n \in 0..n
  <2>1. g[0] = <<>>
    BY <1>1 DEF Joined
  <2> QED
    BY <1>2, <2>1
<1>9. \A k \in 1..n : k \in 0..n /\ k - 1 \in 0..n
  BY <1>2
<1> HIDE DEF o
<1>10. o[0] = 0 /\ o[n] = Len(t)
  BY <1>3, <1>6, <1>8
<1>11. Offsets(o, qs, t)
  BY <1>5, <1>6, <1>7, <1>9, <1>10 DEF Offsets
<1> QED
  BY <1>3, <1>11 DEF t

\* w is u, of length a, and then v, of length b.
Follows(w, u, v, a, b) ==
    /\ Len(w) = a + b
    /\ \A i \in 1..a : w[i] = u[i]
    /\ \A i \in 1..b : w[a + i] = v[i]

\* Concatenation, by positions.
LEMMA ConcatFollows ==
    ASSUME NEW T, NEW u \in Seq(T), NEW v \in Seq(T), NEW a, NEW b, a = Len(u), b = Len(v)
    PROVE  u \o v \in Seq(T) /\ Follows(u \o v, u, v, a, b)
<1> DEFINE w == u \o v
<1>1. /\ w \in Seq(T)
      /\ Len(w) = Len(u) + Len(v)
      /\ \A i \in 1..Len(u) + Len(v) : w[i] = IF i <= Len(u) THEN u[i] ELSE v[i - Len(u)]
  BY ConcatProperties
<1>2. a \in Nat /\ b \in Nat
  BY LenProperties
<1> HIDE DEF w
<1>3. ASSUME NEW i \in 1..a PROVE w[i] = u[i]
  BY <1>1, <1>2
<1>4. ASSUME NEW i \in 1..b PROVE w[a + i] = v[i]
  <2>1. a + i \in 1..Len(u) + Len(v) /\ ~(a + i <= Len(u)) /\ (a + i) - Len(u) = i
    BY <1>2
  <2> QED
    BY <1>1, <2>1
<1>5. Follows(w, u, v, a, b)
  BY <1>1, <1>3, <1>4 DEF Follows
<1> QED
  BY <1>1, <1>5 DEF w

\* What Member writes around a string.
LEMMA MemberProperties ==
    ASSUME NEW T, Comma \in T, Quote \in T, NEW x \in Seq(T)
    PROVE  /\ Member(x) \in Seq(T)
           /\ Len(Member(x)) = Len(x) + 3
           /\ Member(x)[1] = Comma /\ Member(x)[2] = Quote /\ Member(x)[Len(x) + 3] = Quote
           /\ \A j \in 1..Len(x) : Member(x)[2 + j] = x[j]
<1> DEFINE u == <<Comma, Quote>>
           v == <<Quote>>
           w == u \o x
<1>1. u \in Seq(T) /\ v \in Seq(T) /\ Len(u) = 2 /\ Len(v) = 1 /\ u[1] = Comma /\ u[2] = Quote /\ v[1] = Quote
  OBVIOUS
<1>2. Len(x) \in Nat
  BY LenProperties
<1> HIDE DEF u, v
<1>3. w \in Seq(T) /\ Follows(w, u, x, 2, Len(x))
  BY <1>1, ConcatFollows
<1> DEFINE l == 2 + Len(x)
           y == w \o v
<1>4. Len(w) = l
  BY <1>3 DEF Follows
<1> HIDE DEF w, l
<1>5. y \in Seq(T) /\ Follows(y, w, v, l, 1)
  BY <1>1, <1>3, <1>4, ConcatFollows
<1>6. Member(x) = y
  BY DEF Member, u, v, w
<1> HIDE DEF y
<1>7. Len(y) = Len(x) + 3 /\ y[1] = u[1] /\ y[2] = u[2] /\ y[Len(x) + 3] = v[1]
  <2>1. 1 \in 1..2 /\ 2 \in 1..2 /\ 1 \in 1..l /\ 2 \in 1..l /\ l + 1 = Len(x) + 3
    BY <1>2 DEF l
  <2> QED
    BY <1>3, <1>5, <2>1 DEF Follows
<1>8. ASSUME NEW j \in 1..Len(x) PROVE y[2 + j] = x[j]
  <2>1. 2 + j \in 1..l
    BY <1>2 DEF l
  <2> QED
    BY <1>3, <1>5, <2>1 DEF Follows
<1> QED
  BY <1>1, <1>5, <1>6, <1>7, <1>8

\* s begins with the document of the strings in texts, the k-th of which ends, with its quote, at
\* position p[k].
Layout(p, texts, s) ==
    /\ p \in [0..Len(texts) -> 2..Len(s)]
    /\ p[0] = 2
    /\ s[1] = Open /\ s[2] = Good
    /\ p[Len(texts)] + 1 <= Len(s)
    /\ s[p[Len(texts)] + 1] = Close
    /\ \A k \in 1..Len(texts) :
          /\ p[k] = p[k - 1] + Len(texts[k]) + 3
          /\ s[p[k - 1] + 1] = Comma /\ s[p[k - 1] + 2] = Quote /\ s[p[k]] = Quote
          /\ \A j \in 1..Len(texts[k]) : s[p[k - 1] + 2 + j] = texts[k][j]

\* What Marshal returns.
LEMMA MarshalProperties ==
    ASSUME NEW T, {Open, Close, Comma, Quote, Good} \subseteq T,
           NEW review, Texts(review) \in Seq(Seq(T))
    PROVE  /\ Marshal(review) \in Seq(T)
           /\ \E p : /\ Layout(p, Texts(review), Marshal(review))
                     /\ Len(Marshal(review)) = p[Len(Texts(review))] + 1
<1> DEFINE X  == Texts(review)
           n  == Len(X)
           qs == [k \in 1..n |-> Member(X[k])]
           F  == FlattenSeq(qs)
           u  == <<Open, Good>>
           v  == <<Close>>
           w  == u \o F
           s  == w \o v
<1>1. Marshal(review) = s
  BY DEF Marshal
<1>2. n \in Nat /\ \A k \in 1..n : X[k] \in Seq(T) /\ Len(X[k]) \in Nat
  <2>1. n \in Nat /\ \A k \in 1..n : X[k] \in Seq(T)
    BY LenProperties, ElementOfSeq
  <2> QED
    BY <2>1, LenProperties
<1> HIDE DEF X
<1>3. \A k \in 1..n : Member(X[k]) \in Seq(T)
  BY <1>2, MemberProperties
<1>4. qs \in Seq(Seq(T)) /\ Len(qs) = n /\ \A k \in 1..n : qs[k] = Member(X[k])
  BY <1>2, <1>3
<1> HIDE DEF qs
<1>5. F \in Seq(T) /\ \E o : Offsets(o, qs, F)
  BY <1>4, FlattenProperties
<1>6. PICK o : Offsets(o, qs, F)
  BY <1>5
<1>7. Len(F) \in Nat
  BY <1>5, LenProperties
<1> HIDE DEF F
<1>8. u \in Seq(T) /\ v \in Seq(T) /\ Len(u) = 2 /\ Len(v) = 1 /\ u[1] = Open /\ u[2] = Good /\ v[1] = Close
  OBVIOUS
<1> HIDE DEF u, v
<1>9. w \in Seq(T) /\ Follows(w, u, F, 2, Len(F))
  BY <1>5, <1>8, ConcatFollows
<1> DEFINE m == 2 + Len(F)
<1>10. Len(w) = m
  BY <1>9 DEF Follows
<1> HIDE DEF w, m
<1>11. s \in Seq(T) /\ Follows(s, w, v, m, 1)
  BY <1>8, <1>9, <1>10, ConcatFollows
<1> HIDE DEF s
<1>12. /\ Len(s) = Len(F) + 3 /\ s[1] = Open /\ s[2] = Good /\ s[Len(F) + 3] = Close
       /\ \A i \in 1..Len(F) : s[2 + i] = F[i]
  <2>1. 1 \in 1..2 /\ 2 \in 1..2 /\ 1 \in 1..m /\ 2 \in 1..m /\ m + 1 = Len(F) + 3 /\ 1 \in 1..1
    BY <1>7 DEF m
  <2>2. Len(s) = Len(F) + 3 /\ s[1] = Open /\ s[2] = Good /\ s[Len(F) + 3] = Close
    BY <1>8, <1>9, <1>11, <2>1 DEF Follows
  <2>3. ASSUME NEW i \in 1..Len(F) PROVE s[2 + i] = F[i]
    <3>1. 2 + i \in 1..m
      BY <1>7 DEF m
    <3> QED
      BY <1>9, <1>11, <3>1 DEF Follows
  <2> QED
    BY <2>2, <2>3
<1> DEFINE p == [k \in 0..n |-> o[k] + 2]
<1>13. /\ o \in [0..n -> 0..Len(F)] /\ o[0] = 0 /\ o[n] = Len(F)
       /\ \A k \in 1..n : o[k] = o[k - 1] + Len(qs[k]) /\ o[k] \in Nat /\ o[k - 1] \in Nat /\ o[k] <= Len(F)
       /\ \A k \in 1..n : \A j \in 1..Len(qs[k]) : F[o[k - 1] + j] = qs[k][j]
  <2>1. /\ o \in [0..n -> 0..Len(F)] /\ o[0] = 0 /\ o[n] = Len(F)
        /\ \A k \in 1..n : o[k] = o[k - 1] + Len(qs[k])
        /\ \A k \in 1..n : \A j \in 1..Len(qs[k]) : F[o[k - 1] + j] = qs[k][j]
    BY <1>4, <1>6 DEF Offsets
  <2>2. ASSUME NEW k \in 1..n PROVE o[k] \in Nat /\ o[k - 1] \in Nat /\ o[k] <= Len(F)
    <3>1. k \in 0..n /\ k - 1 \in 0..n
      BY <1>2
    <3> QED
      BY <1>7, <2>1, <3>1
  <2> QED
    BY <2>1, <2>2
<1>14. p \in [0..n -> 2..Len(s)] /\ p[0] = 2 /\ p[n] = Len(F) + 2
  BY <1>2, <1>7, <1>12, <1>13
<1>15. \A k \in 1..n : p[k] = o[k] + 2 /\ p[k - 1] = o[k - 1] + 2
  BY <1>2
<1> HIDE DEF p
<1>16. ASSUME NEW k \in 1..n
       PROVE  /\ p[k] = p[k - 1] + Len(X[k]) + 3
              /\ s[p[k - 1] + 1] = Comma /\ s[p[k - 1] + 2] = Quote /\ s[p[k]] = Quote
              /\ \A j \in 1..Len(X[k]) : s[p[k - 1] + 2 + j] = X[k][j]
  <2> DEFINE a == o[k - 1]
             l == Len(X[k])
             q == qs[k]
  <2>1. /\ Len(q) = l + 3 /\ l \in Nat
        /\ q[1] = Comma /\ q[2] = Quote /\ q[l + 3] = Quote
        /\ \A j \in 1..l : q[2 + j] = X[k][j]
    <3> DEFINE x == X[k]
    <3>1. x \in Seq(T) /\ Len(x) \in Nat /\ qs[k] = Member(x)
      BY <1>2, <1>4
    <3> HIDE DEF x
    <3>2. /\ Len(qs[k]) = Len(x) + 3
          /\ qs[k][1] = Comma /\ qs[k][2] = Quote /\ qs[k][Len(x) + 3] = Quote
          /\ \A j \in 1..Len(x) : qs[k][2 + j] = x[j]
      BY <3>1, MemberProperties
    <3> QED
      BY <3>1, <3>2 DEF x
  <2>2. /\ o[k] = a + Len(q) /\ a \in Nat /\ o[k] <= Len(F) /\ p[k] = o[k] + 2 /\ p[k - 1] = a + 2
        /\ \A j \in 1..Len(q) : F[a + j] = q[j]
    BY <1>13, <1>15
  <2> HIDE DEF a, l, q
  <2>3. ASSUME NEW j \in 1..l + 3 PROVE s[p[k - 1] + j] = q[j]
    <3>1. a + j \in 1..Len(F) /\ p[k - 1] + j = 2 + (a + j)
      BY <1>7, <2>1, <2>2
    <3>2. s[2 + (a + j)] = F[a + j]
      BY <1>12, <3>1
    <3> QED
      BY <2>1, <2>2, <3>1, <3>2
  <2>4. p[k] = p[k - 1] + l + 3
    BY <2>1, <2>2
  <2>5. s[p[k - 1] + 1] = Comma /\ s[p[k - 1] + 2] = Quote
    BY <2>1, <2>3
  <2>6. s[p[k]] = Quote
    <3>1. l + 3 \in 1..l + 3 /\ p[k - 1] + (l + 3) = p[k]
      BY <2>1, <2>2
    <3>2. s[p[k - 1] + (l + 3)] = q[l + 3]
      BY <2>3, <3>1
    <3> QED
      BY <2>1, <3>1, <3>2
  <2>7. ASSUME NEW j \in 1..l PROVE s[p[k - 1] + 2 + j] = X[k][j]
    <3>1. 2 + j \in 1..l + 3 /\ p[k - 1] + (2 + j) = p[k - 1] + 2 + j
      BY <2>1, <2>2
    <3>2. s[p[k - 1] + (2 + j)] = q[2 + j]
      BY <2>3, <3>1
    <3> QED
      BY <2>1, <3>1, <3>2
  <2> QED
    BY <2>4, <2>5, <2>6, <2>7 DEF l
<1>17. p[n] + 1 <= Len(s) /\ s[p[n] + 1] = Close /\ Len(s) = p[n] + 1
  BY <1>7, <1>12, <1>14
<1>18. Layout(p, X, s)
  BY <1>12, <1>14, <1>16, <1>17 DEF Layout
<1> QED
  BY <1>1, <1>11, <1>17, <1>18 DEF X

\* The tokens that have a meaning are all different.
LEMMA TokensDiffer ==
    /\ Open # Quote /\ Good # Quote /\ Comma # Quote /\ Close # Quote /\ Escape # Quote
    /\ Close # Open /\ Close # Good /\ Close # Comma /\ Good # Open /\ Good # Comma /\ Comma # Open
    /\ "text" # Quote /\ "text" # Escape /\ Fence # "text"
    /\ Fence # Open /\ Fence # Good /\ Fence # Comma /\ Fence # Close /\ Fence # Quote
  BY DEF Open, Close, Comma, Good, Quote, Escape, Fence

\* They are tokens.
LEMMA TokensType ==
    {Open, Close, Comma, Quote, Good} \subseteq Tokens /\ "text" \in Tokens /\ Quote \in Tokens
    /\ Fence \in Tokens
  BY DEF Tokens

\* How a scanner meets a quote.
LEMMA StepQuote ==
    /\ Step("out", Quote) = "in"
    /\ Step("in", Quote) = "out"
    /\ \A t : t # Quote => Step("out", t) = "out"
  BY TokensDiffer DEF Step

\* The strings that may stand in a document.
AllStrings == {x \in Seq(Tokens) : IsString(x)}

\* A string behind its opening quote.
LEMMA QuotedString ==
    ASSUME NEW x \in Seq(Tokens)
    PROVE  /\ <<Quote>> \o x \in Seq(Tokens)
           /\ Follows(<<Quote>> \o x, <<Quote>>, x, 1, Len(x))
           /\ Len(x) \in Nat
           /\ (<<Quote>> \o x)[1] = Quote
<1> DEFINE u == <<Quote>>
<1>1. u \in Seq(Tokens) /\ Len(u) = 1 /\ u[1] = Quote
  BY TokensType
<1> HIDE DEF u
<1>2. u \o x \in Seq(Tokens) /\ Follows(u \o x, u, x, 1, Len(x))
  BY <1>1, ConcatFollows
<1>3. Len(x) \in Nat
  BY LenProperties
<1> DEFINE t == u \o x
<1>4. t[1] = Quote
  <2>1. Follows(t, u, x, 1, Len(x))
    BY <1>2
  <2> HIDE DEF t
  <2> QED
    BY <1>1, <2>1 DEF Follows
<1> QED
  BY <1>2, <1>3, <1>4 DEF u

\* A scanner that meets a string in s is inside it until its end.
LEMMA InsideString ==
    ASSUME NEW s \in Seq(Tokens), NEW x \in AllStrings, NEW a \in Nat, a + 1 + Len(x) <= Len(s),
           Mode(s)[a] = "out", s[a + 1] = Quote, \A j \in 1..Len(x) : s[a + 1 + j] = x[j]
    PROVE  /\ \A i \in a + 1..a + 1 + Len(x) : Mode(s)[i] # "out"
           /\ Mode(s)[a + 1 + Len(x)] = "in"
<1> DEFINE t == <<Quote>> \o x
           l == Len(x)
           n == l + 1
           b == 0
<1>1. x \in Seq(Tokens) /\ IsString(x)
  BY DEF AllStrings
<1>2. /\ t \in Seq(Tokens) /\ l \in Nat /\ Len(t) = n /\ t[1] = Quote
      /\ \A j \in 1..l : t[1 + j] = x[j]
  <2>1. t \in Seq(Tokens) /\ Follows(t, <<Quote>>, x, 1, l) /\ l \in Nat /\ t[1] = Quote
    BY <1>1, QuotedString
  <2> HIDE DEF t
  <2> QED
    BY <2>1 DEF Follows
<1>3. /\ \A i \in 1..n : Mode(t)[i] # "out"
      /\ Mode(t)[n] = "in"
  BY <1>1 DEF IsString
<1> HIDE DEF t
<1>4. ASSUME NEW j \in 1..n PROVE s[a + j] = t[b + j]
  <2>1. CASE j = 1
    BY <1>2, <2>1
  <2>2. CASE j # 1
    <3>1. j - 1 \in 1..l /\ a + 1 + (j - 1) = a + j /\ 1 + (j - 1) = b + j
      BY <1>2, <2>2
    <3>2. s[a + 1 + (j - 1)] = x[j - 1] /\ t[1 + (j - 1)] = x[j - 1]
      BY <1>2, <3>1
    <3> QED
      BY <3>1, <3>2
  <2> QED
    BY <2>1, <2>2
<1>5. Mode(t)[b] = "out" /\ b \in Nat /\ n \in Nat /\ a + n <= Len(s) /\ b + n <= Len(t)
  <2>1. Mode(t)[0] = "out"
    BY <1>2, ModeDef
  <2> QED
    BY <1>2, <2>1
<1>6. ModesAligned(s, t, a, b, n)
  <2> HIDE DEF b, n
  <2>1. Aligned(s, t, a, b, n)
    BY <1>4, <1>5 DEF Aligned
  <2> QED
    BY <1>2, <1>5, <2>1, ModeShift
<1>7. ASSUME NEW j \in 1..n PROVE Mode(s)[a + j] = Mode(t)[j]
  <2>1. j \in 0..n /\ b + j = j
    BY <1>2
  <2> HIDE DEF b, n
  <2> QED
    BY <1>6, <2>1 DEF ModesAligned
<1>8. ASSUME NEW i \in a + 1..a + 1 + l PROVE Mode(s)[i] # "out"
  <2>1. i - a \in 1..n /\ a + (i - a) = i
    BY <1>2
  <2> HIDE DEF n
  <2> QED
    BY <1>3, <1>7, <2>1
<1>9. n \in 1..n /\ a + n = a + 1 + l
  BY <1>2
<1> HIDE DEF n
<1> QED
  BY <1>3, <1>7, <1>8, <1>9

\* What a scanner meets inside quotes is a string.
LEMMA StringInside ==
    ASSUME NEW s \in Seq(Tokens), NEW a \in Nat, NEW l \in Nat, a + 1 + l <= Len(s),
           Mode(s)[a] = "out", s[a + 1] = Quote,
           \A i \in a + 1..a + 1 + l : Mode(s)[i] # "out",
           Mode(s)[a + 1 + l] = "in"
    PROVE  /\ SubSeq(s, a + 2, a + 1 + l) \in AllStrings
           /\ Len(SubSeq(s, a + 2, a + 1 + l)) = l
           /\ \A j \in 1..l : SubSeq(s, a + 2, a + 1 + l)[j] = s[a + 1 + j]
<1> DEFINE x == SubSeq(s, a + 2, a + 1 + l)
           t == <<Quote>> \o x
           n == l + 1
           b == 0
<1>0. Len(s) \in Nat
  BY LenProperties
<1>1. x \in Seq(Tokens) /\ Len(x) = l /\ \A j \in 1..l : x[j] = s[a + 1 + j]
  <2> DEFINE c == a + 2
             d == a + 1 + l
  <2>1. \A i \in c..d : s[i] \in Tokens
    <3>1. \A i \in c..d : i \in 1..Len(s)
      BY <1>0
    <3> QED
      BY <3>1, ElementOfSeq
  <2>2. c \in Int /\ d \in Int /\ d - c + 1 = l /\ (c <= d <=> l # 0) /\ \A j \in 1..l : c + j - 1 = a + 1 + j
    OBVIOUS
  <2> HIDE DEF c, d
  <2>3. /\ SubSeq(s, c, d) \in Seq(Tokens)
        /\ Len(SubSeq(s, c, d)) = IF c <= d THEN d - c + 1 ELSE 0
        /\ \A i \in 1..d - c + 1 : SubSeq(s, c, d)[i] = s[c + i - 1]
    BY <2>1, <2>2, SubSeqProperties
  <2>4. x = SubSeq(s, c, d)
    BY DEF c, d
  <2> HIDE DEF x
  <2> QED
    BY <2>2, <2>3, <2>4
<1> HIDE DEF x
<1>2. /\ t \in Seq(Tokens) /\ Len(t) = n /\ t[1] = Quote
      /\ \A j \in 1..l : t[1 + j] = x[j]
  <2>1. t \in Seq(Tokens) /\ Follows(t, <<Quote>>, x, 1, Len(x)) /\ t[1] = Quote
    BY <1>1, QuotedString
  <2> HIDE DEF t
  <2> QED
    BY <1>1, <2>1 DEF Follows
<1> HIDE DEF t
<1>4. ASSUME NEW j \in 1..n PROVE s[a + j] = t[b + j]
  <2>1. CASE j = 1
    BY <1>2, <2>1
  <2>2. CASE j # 1
    <3>1. j - 1 \in 1..l /\ a + 1 + (j - 1) = a + j /\ 1 + (j - 1) = b + j
      BY <2>2
    <3>2. s[a + 1 + (j - 1)] = x[j - 1] /\ t[1 + (j - 1)] = x[j - 1]
      BY <1>1, <1>2, <3>1
    <3> QED
      BY <3>1, <3>2
  <2> QED
    BY <2>1, <2>2
<1>5. Mode(t)[b] = "out" /\ b \in Nat /\ n \in Nat /\ a + n <= Len(s) /\ b + n <= Len(t)
  <2>1. Mode(t)[0] = "out"
    BY <1>2, ModeDef
  <2> QED
    BY <1>0, <1>2, <2>1
<1>6. ModesAligned(s, t, a, b, n)
  <2> HIDE DEF b, n
  <2>1. Aligned(s, t, a, b, n)
    BY <1>4, <1>5 DEF Aligned
  <2> QED
    BY <1>2, <1>5, <2>1, ModeShift
<1>7. ASSUME NEW j \in 1..n PROVE Mode(s)[a + j] = Mode(t)[j] /\ a + j \in a + 1..a + 1 + l
  <2>1. j \in 0..n /\ b + j = j /\ a + j \in a + 1..a + 1 + l
    OBVIOUS
  <2> HIDE DEF b, n
  <2> QED
    BY <1>6, <2>1 DEF ModesAligned
<1>8. n \in 1..n /\ a + n = a + 1 + l
  OBVIOUS
<1>9. \A j \in 1..n : Mode(t)[j] # "out"
  <2> HIDE DEF n
  <2> QED
    BY <1>7
<1>10. Mode(t)[n] = "in"
  <2> HIDE DEF n
  <2> QED
    BY <1>7, <1>8
<1>11. IsString(x)
  BY <1>1, <1>9, <1>10 DEF IsString, t
<1> QED
  BY <1>1, <1>11 DEF AllStrings, x

\* An opening quote before the end of a document has a closing quote, and a string between.
LEMMA QuotesMatch ==
    ASSUME NEW s \in Seq(Tokens), NEW e \in 1..Len(s), Mode(s)[e - 1] = "out", s[e] = Close,
           NEW i \in 1..e, Mode(s)[i - 1] = "out", s[i] = Quote
    PROVE  /\ \E j \in i + 1..e : Mode(s)[j] = "out" /\ \A k \in i + 1..j - 1 : Mode(s)[k] # "out"
           /\ \A j \in i + 1..e :
                 Mode(s)[j] = "out" /\ (\A k \in i + 1..j - 1 : Mode(s)[k] # "out")
                    => SubSeq(s, i + 1, j - 1) \in AllStrings
<1> DEFINE mode == Mode(s)
           S    == {j \in i + 1..e : mode[j] = "out"}
<1>1. Len(s) \in Nat /\ e \in Nat /\ i \in Nat /\ i < e
  <2>1. Len(s) \in Nat
    BY LenProperties
  <2>2. i # e
    BY TokensDiffer
  <2> QED
    BY <2>1, <2>2
<1>2. \A n \in 1..Len(s) : mode[n] = Step(mode[n - 1], s[n]) /\ mode[n - 1] \in Modes
  <2>1. \A n \in 1..Len(s) : n - 1 \in 0..Len(s)
    BY <1>1
  <2> QED
    BY <2>1, ModeDef
<1>3. mode[e] = "out" /\ mode[i] = "in"
  <2>1. mode[e] = Step("out", s[e]) /\ mode[i] = Step("out", s[i])
    BY <1>1, <1>2
  <2> QED
    BY <2>1, StepQuote, TokensDiffer
<1> HIDE DEF mode
<1>4. S \in SUBSET Nat /\ S # {}
  <2>1. e \in S
    BY <1>1, <1>3
  <2> QED
    BY <1>1, <2>1
<1>5. Min(S) \in S /\ \A k \in S : Min(S) <= k
  BY <1>4, MinProperties
<1>6. \E j \in i + 1..e : mode[j] = "out" /\ \A k \in i + 1..j - 1 : mode[k] # "out"
  <2>1. ASSUME NEW k \in i + 1..Min(S) - 1 PROVE mode[k] # "out"
    BY <1>1, <1>5
  <2> QED
    BY <1>5, <2>1
<1>7. ASSUME NEW j \in i + 1..e, mode[j] = "out", \A k \in i + 1..j - 1 : mode[k] # "out"
      PROVE  SubSeq(s, i + 1, j - 1) \in AllStrings
  <2> DEFINE a == i - 1
             l == (j - 1) - i
  <2>1. a \in Nat /\ l \in Nat /\ a + 1 + l = j - 1 /\ a + 1 + l <= Len(s) /\ a + 2 = i + 1 /\ a + 1 = i
    BY <1>1
  <2>2. mode[j - 1] = "in"
    <3>1. j \in 1..Len(s)
      BY <1>1
    <3>2. mode[j] = Step(mode[j - 1], s[j]) /\ mode[j - 1] \in Modes
      BY <1>2, <3>1
    <3>3. mode[j - 1] # "escaped"
      BY <1>7, <3>2 DEF Step
    <3>4. mode[j - 1] # "out"
      <4>1. CASE j = i + 1
        BY <1>1, <1>3, <4>1
      <4>2. CASE j # i + 1
        <5>1. j - 1 \in i + 1..j - 1
          BY <1>1, <4>2
        <5> QED
          BY <1>7, <5>1
      <4> QED
        BY <4>1, <4>2
    <3> QED
      BY <3>2, <3>3, <3>4 DEF Modes
  <2>3. ASSUME NEW k \in a + 1..a + 1 + l PROVE mode[k] # "out"
    <3>1. CASE k = i
      BY <1>3, <3>1
    <3>2. CASE k # i
      <4>1. k \in i + 1..j - 1
        BY <1>1, <2>1, <3>2
      <4> QED
        BY <1>7, <4>1
    <3> QED
      BY <3>1, <3>2
  <2> HIDE DEF a, l
  <2>4. SubSeq(s, a + 2, a + 1 + l) \in AllStrings
    <3>1. mode[a] = "out" /\ s[a + 1] = Quote /\ mode[a + 1 + l] = "in"
      BY <2>1, <2>2 DEF a, mode
    <3> QED
      BY <2>1, <2>3, <3>1, StringInside DEF mode
  <2> QED
    BY <2>1, <2>4
<1> QED
  BY <1>6, <1>7 DEF mode

\* Where a scanner of a document is outside strings.
LEMMA LayoutModes ==
    ASSUME NEW s \in Seq(Tokens), NEW texts \in Seq(AllStrings), NEW p, Layout(p, texts, s)
    PROVE  /\ Mode(s)[1] = "out"
           /\ \A k \in 0..Len(texts) : Mode(s)[p[k]] = "out"
           /\ \A k \in 1..Len(texts) :
                 /\ Mode(s)[p[k - 1] + 1] = "out"
                 /\ \A i \in p[k - 1] + 2..p[k] - 1 : Mode(s)[i] # "out"
<1> DEFINE mode == Mode(s)
           m    == Len(texts)
<1>1. m \in Nat /\ Len(s) \in Nat
  BY LenProperties
<1>2. \A n \in 1..Len(s) : mode[n] = Step(mode[n - 1], s[n])
  BY ModeDef
<1>3. mode[0] = "out"
  BY ModeDef
<1>4. p[0] = 2 /\ 2 <= Len(s) /\ s[1] = Open /\ s[2] = Good
  BY <1>1 DEF Layout
<1>5. mode[1] = "out" /\ mode[2] = "out"
  <2>1. mode[1] = Step(mode[0], s[1])
    BY <1>1, <1>2, <1>4
  <2>2. mode[2] = Step(mode[1], s[2])
    BY <1>1, <1>2, <1>4
  <2> QED
    BY <1>3, <1>4, <2>1, <2>2, StepQuote, TokensDiffer
<1> DEFINE Inside(k) == /\ mode[p[k - 1] + 1] = "out"
                        /\ mode[p[k]] = "out"
                        /\ \A i \in p[k - 1] + 2..p[k] - 1 : mode[i] # "out"
<1>6. ASSUME NEW k \in 1..m, mode[p[k - 1]] = "out" PROVE Inside(k)
  <2> DEFINE a == p[k - 1] + 1
             x == texts[k]
             l == Len(x)
  <2>1. p[k] \in 2..Len(s) /\ p[k - 1] \in 2..Len(s) /\ x \in AllStrings
    <3>1. k \in 0..m /\ k - 1 \in 0..m
      BY <1>1
    <3> QED
      BY <3>1, ElementOfSeq DEF Layout
  <2>2. l \in Nat
    BY <2>1, LenProperties DEF AllStrings
  <2>3. /\ p[k] = p[k - 1] + l + 3
        /\ s[a] = Comma /\ s[p[k - 1] + 2] = Quote /\ s[p[k]] = Quote
        /\ \A j \in 1..l : s[p[k - 1] + 2 + j] = x[j]
    BY DEF Layout
  <2>4. a \in 1..Len(s) /\ a + 1 + l <= Len(s) /\ a + 1 = p[k - 1] + 2 /\ a - 1 = p[k - 1]
        /\ p[k] - 1 = a + 1 + l /\ p[k] \in 1..Len(s) /\ a \in Nat
    <3> DEFINE b == p[k - 1]
               c == p[k]
    <3>1. c = b + l + 3 /\ b \in Nat /\ c \in Nat /\ 2 <= b /\ c <= Len(s)
      BY <1>1, <2>1, <2>3
    <3> HIDE DEF b, c, l
    <3>2. b + 1 \in 1..Len(s) /\ (b + 1) + 1 + l <= Len(s) /\ (b + 1) + 1 = b + 2 /\ (b + 1) - 1 = b
          /\ c - 1 = (b + 1) + 1 + l /\ c \in 1..Len(s) /\ b + 1 \in Nat
      BY ONLY <1>1, <2>2, <3>1
    <3> QED
      BY <3>2 DEF b, c
  <2>5. \A j \in 1..l : s[a + 1 + j] = x[j]
    BY <2>3, <2>4
  <2> HIDE DEF mode, x, l
  <2>6. mode[a] = "out"
    <3>1. mode[a] = Step(mode[a - 1], s[a])
      BY <1>2, <2>4
    <3> QED
      BY <1>6, <2>3, <2>4, <3>1, StepQuote, TokensDiffer
  <2> HIDE DEF a
  <2>7. /\ \A i \in a + 1..a + 1 + l : mode[i] # "out"
        /\ mode[a + 1 + l] = "in"
    <3>1. s[a + 1] = Quote
      BY <2>3, <2>4
    <3> QED
      BY <2>1, <2>4, <2>5, <2>6, <3>1, InsideString DEF l, mode
  <2>8. mode[p[k]] = "out"
    <3>1. mode[p[k]] = Step(mode[p[k] - 1], s[p[k]])
      BY <1>2, <2>4
    <3> QED
      BY <2>3, <2>4, <2>7, <3>1, StepQuote
  <2> QED
    BY <2>4, <2>6, <2>7, <2>8 DEF a
<1> HIDE DEF mode
<1> DEFINE P == {k \in Nat : k <= m => mode[p[k]] = "out"}
<1>7. 0 \in P
  BY <1>4, <1>5
<1>8. ASSUME NEW k \in P \cap Nat PROVE k + 1 \in P
  <2> SUFFICES ASSUME k + 1 <= m PROVE mode[p[k + 1]] = "out"
    OBVIOUS
  <2>1. k <= m => mode[p[k]] = "out"
    OBVIOUS
  <2>2. k + 1 \in 1..m /\ (k + 1) - 1 = k /\ k <= m
    BY <1>1
  <2> HIDE DEF P
  <2> QED
    BY <1>6, <2>1, <2>2
<1>9. ASSUME NEW k \in 0..m PROVE mode[p[k]] = "out"
  <2>1. k \in P
    <3>1. k \in Nat
      BY <1>1
    <3> HIDE DEF P
    <3> QED
      BY <1>7, <1>8, <3>1, SetInduction
  <2> QED
    BY <1>1, <2>1
<1>10. ASSUME NEW k \in 1..m PROVE Inside(k)
  <2>1. k - 1 \in 0..m
    BY <1>1
  <2> HIDE DEF Inside
  <2> QED
    BY <1>6, <1>9, <2>1
<1> QED
  BY <1>5, <1>9, <1>10 DEF mode

\* The bounds of a layout.
LEMMA LayoutBounds ==
    ASSUME NEW T, NEW s \in Seq(T), NEW U, NEW texts \in Seq(Seq(U)), NEW p, Layout(p, texts, s)
    PROVE  /\ Len(texts) \in Nat /\ Len(s) \in Nat
           /\ \A k \in 0..Len(texts) : p[k] \in Nat /\ 2 <= p[k] /\ p[k] <= Len(s)
           /\ \A k \in 1..Len(texts) : /\ k - 1 \in 0..Len(texts) /\ k \in 0..Len(texts)
                                       /\ texts[k] \in Seq(U) /\ Len(texts[k]) \in Nat
                                       /\ p[k] = p[k - 1] + Len(texts[k]) + 3
                                       /\ p[k - 1] + 3 <= p[k]
<1>1. Len(texts) \in Nat /\ Len(s) \in Nat
  BY LenProperties
<1>2. ASSUME NEW k \in 0..Len(texts) PROVE p[k] \in Nat /\ 2 <= p[k] /\ p[k] <= Len(s)
  <2>1. p[k] \in 2..Len(s)
    BY DEF Layout
  <2> QED
    BY <1>1, <2>1
<1>3. ASSUME NEW k \in 1..Len(texts)
      PROVE  /\ k - 1 \in 0..Len(texts) /\ k \in 0..Len(texts)
             /\ texts[k] \in Seq(U) /\ Len(texts[k]) \in Nat
             /\ p[k] = p[k - 1] + Len(texts[k]) + 3
             /\ p[k - 1] + 3 <= p[k]
  <2>1. k - 1 \in 0..Len(texts) /\ k \in 0..Len(texts)
    BY <1>1
  <2>2. texts[k] \in Seq(U)
    BY ElementOfSeq
  <2>3. Len(texts[k]) \in Nat
    BY <2>2, LenProperties
  <2>4. p[k] = p[k - 1] + Len(texts[k]) + 3
    BY DEF Layout
  <2> DEFINE b == p[k - 1]
             c == p[k]
             l == Len(texts[k])
  <2>5. b \in Nat /\ c \in Nat /\ l \in Nat /\ c = b + l + 3
    BY <1>2, <2>1, <2>3, <2>4
  <2> HIDE DEF b, c, l
  <2>6. b + 3 <= c
    BY ONLY <2>5
  <2> QED
    BY <2>1, <2>2, <2>3, <2>4, <2>6 DEF b, c
<1> QED
  BY <1>1, <1>2, <1>3

\* Where a scanner of a document is outside strings, and nowhere else.
LEMMA LayoutPlaces ==
    ASSUME NEW s \in Seq(Tokens), NEW texts \in Seq(AllStrings), NEW p, Layout(p, texts, s),
           NEW i \in 1..p[Len(texts)] + 1, Mode(s)[i - 1] = "out"
    PROVE  \/ i = 1 \/ i = 2 \/ i = p[Len(texts)] + 1
           \/ \E k \in 1..Len(texts) : i = p[k - 1] + 1 \/ i = p[k - 1] + 2
<1> DEFINE m == Len(texts)
           Segment(x, k) == p[k - 1] < x /\ x <= p[k]
           P == {n \in Nat : n <= m => \A x \in Nat : 2 < x /\ x <= p[n] => \E k \in 1..m : Segment(x, k)}
<1>0. texts \in Seq(Seq(Tokens))
  <2>1. AllStrings \subseteq Seq(Tokens)
    BY DEF AllStrings
  <2> QED
    BY <2>1, SeqMonotonic
<1>1. /\ m \in Nat /\ Len(s) \in Nat
      /\ \A k \in 0..m : p[k] \in Nat /\ 2 <= p[k] /\ p[k] <= Len(s)
      /\ \A k \in 1..m : k - 1 \in 0..m /\ k \in 0..m /\ p[k - 1] + 3 <= p[k]
  BY <1>0, LayoutBounds
<1>2. p[0] = 2
  BY DEF Layout
<1>3. 0 \in P
  BY <1>2
<1>4. ASSUME NEW n \in P \cap Nat PROVE n + 1 \in P
  <2> SUFFICES ASSUME n + 1 <= m, NEW x \in Nat, 2 < x, x <= p[n + 1] PROVE \E k \in 1..m : Segment(x, k)
    OBVIOUS
  <2>1. CASE x <= p[n]
    <3>1. n <= m
      BY <1>1
    <3> QED
      BY <2>1, <3>1
  <2>2. CASE ~(x <= p[n])
    <3>1. n + 1 \in 1..m /\ (n + 1) - 1 = n /\ n \in 0..m
      BY <1>1
    <3>2. p[n] \in Nat
      BY <1>1, <3>1
    <3>3. Segment(x, n + 1)
      BY <2>2, <3>1, <3>2
    <3> QED
      BY <3>1, <3>3
  <2> QED
    BY <2>1, <2>2
<1>5. m \in P
  <2> HIDE DEF P
  <2> QED
    BY <1>1, <1>3, <1>4, SetInduction
<1>6. p[m] \in Nat /\ i \in Nat /\ 1 <= i /\ i <= p[m] + 1
  BY <1>1
<1>7. CASE i = 1 \/ i = 2 \/ i = p[m] + 1
  BY <1>7
<1>8. CASE ~(i = 1 \/ i = 2 \/ i = p[m] + 1)
  <2>1. 2 < i /\ i <= p[m]
    BY <1>6, <1>8
  <2>2. PICK k \in 1..m : Segment(i, k)
    BY <1>1, <1>5, <1>6, <2>1
  <2>3. p[k] \in Nat /\ p[k - 1] \in Nat
    BY <1>1
  <2>4. \A x \in p[k - 1] + 2..p[k] - 1 : Mode(s)[x] # "out"
    BY LayoutModes
  <2>5. ~(i - 1 \in p[k - 1] + 2..p[k] - 1)
    BY <2>4
  <2>6. i = p[k - 1] + 1 \/ i = p[k - 1] + 2
    <3> DEFINE a == p[k - 1]
               c == p[k]
    <3>1. a < i /\ i <= c /\ a \in Nat /\ c \in Nat /\ i \in Nat /\ ~(i - 1 \in a + 2..c - 1)
      BY <1>6, <2>2, <2>3, <2>5
    <3> HIDE DEF a, c
    <3>2. i = a + 1 \/ i = a + 2
      BY ONLY <3>1
    <3> QED
      BY <3>2 DEF a
  <2> QED
    BY <2>6
<1> QED
  BY <1>7, <1>8

\* What a scanner of a document finds outside strings.
LEMMA LayoutTokens ==
    ASSUME NEW s \in Seq(Tokens), NEW texts \in Seq(AllStrings), NEW p, Layout(p, texts, s),
           NEW i \in 1..p[Len(texts)] + 1, Mode(s)[i - 1] = "out"
    PROVE  /\ s[i] = Close => i = p[Len(texts)] + 1
           /\ s[i] = Quote => \E k \in 1..Len(texts) : i = p[k - 1] + 2
           /\ s[i] = Comma => s[i + 1] = Quote
<1> DEFINE m == Len(texts)
<1>0. texts \in Seq(Seq(Tokens))
  <2>1. AllStrings \subseteq Seq(Tokens)
    BY DEF AllStrings
  <2> QED
    BY <2>1, SeqMonotonic
<1>1. /\ s[1] = Open /\ s[2] = Good /\ s[p[m] + 1] = Close
      /\ \A k \in 1..m : s[p[k - 1] + 1] = Comma /\ s[p[k - 1] + 2] = Quote
  BY DEF Layout
<1>2. \A k \in 1..m : p[k - 1] \in Nat
  BY <1>0, LayoutBounds
<1>3. \/ i = 1 \/ i = 2 \/ i = p[m] + 1
      \/ \E k \in 1..m : i = p[k - 1] + 1 \/ i = p[k - 1] + 2
  BY LayoutPlaces
<1>4. CASE i = 1 \/ i = 2 \/ i = p[m] + 1
  BY <1>1, <1>4, TokensDiffer
<1>5. ASSUME NEW k \in 1..m, i = p[k - 1] + 1 \/ i = p[k - 1] + 2
      PROVE  /\ s[i] = Close => i = p[Len(texts)] + 1
             /\ s[i] = Quote => \E n \in 1..Len(texts) : i = p[n - 1] + 2
             /\ s[i] = Comma => s[i + 1] = Quote
  <2>1. (p[k - 1] + 1) + 1 = p[k - 1] + 2
    BY <1>2
  <2> QED
    BY <1>1, <1>5, <2>1, TokensDiffer
<1> QED
  BY <1>3, <1>4, <1>5

\* The parts of Decode: the closing braces outside strings; for the first of them, e, the
\* positions outside strings, the opening quotes, their closing quotes, and the strings
\* between; and what must stand outside the strings members.
Ends(s)     == {i \in 1..Len(s) : Mode(s)[i - 1] = "out" /\ s[i] = Close}
\* The positions up to e that are outside strings, and the opening quotes among them.
Frame(s, e) == {i \in 1..e : Mode(s)[i - 1] = "out"}
Opens(s, e) == {i \in Frame(s, e) : s[i] = Quote}

\* The string that opens at i ends at j.
IsShut(s, i, j) == Mode(s)[j] = "out" /\ \A k \in i + 1..j - 1 : Mode(s)[k] # "out"

\* What is between an opening quote and the quote that shuts it.
Between(s, e) ==
    [i \in 1..Len(s) |->
       IF i \in Opens(s, e) THEN SubSeq(s, i + 1, (CHOOSE j \in i + 1..e : IsShut(s, i, j)) - 1)
       ELSE <<>>]

\* A document without its strings.
Skeleton(members) ==
    <<Open, Good>> \o FlattenSeq([k \in 1..Len(members) |-> <<Comma, Quote>>]) \o <<Close>>

\* Decode in these terms.
LEMMA DecodeDef ==
    ASSUME NEW s
    PROVE  /\ Ends(s) = {} => Decode(s) = Unreadable
           /\ Ends(s) # {} =>
                 LET e       == CHOOSE i \in Ends(s) : \A j \in Ends(s) : i <= j
                     members == At(Between(s, e), Opens(s, e))
                 IN  Decode(s) = IF At(s, Frame(s, e)) # Skeleton(members) \/ members = <<>>
                                 THEN Unreadable ELSE Review(Head(members), Tail(members))
<1> DEFINE e       == CHOOSE i \in Ends(s) : \A j \in Ends(s) : i <= j
           members == At(Between(s, e), Opens(s, e))
<1>1. Decode(s) = IF Ends(s) = {} \/ At(s, Frame(s, e)) # Skeleton(members) \/ members = <<>>
                  THEN Unreadable ELSE Review(Head(members), Tail(members))
  BY DEF Decode, Ends, Between, Opens, Frame, Skeleton, IsShut
<1> QED
  BY <1>1

\* Strings are sequences of tokens.
LEMMA StringsAreTexts == \A texts \in Seq(AllStrings) : texts \in Seq(Seq(Tokens))
<1>1. AllStrings \subseteq Seq(Tokens)
  BY DEF AllStrings
<1> QED
  BY <1>1, SeqMonotonic

\* What the decoder looks at, in a document.
LEMMA LayoutFrame ==
    ASSUME NEW s \in Seq(Tokens), NEW texts \in Seq(AllStrings), NEW p, Layout(p, texts, s),
           NEW e, e = p[Len(texts)] + 1
    PROVE  /\ Opens(s, e) \subseteq Frame(s, e)
           /\ {1, 2, e} \subseteq Frame(s, e) /\ {1, 2, e} \cap Opens(s, e) = {}
           /\ \A i \in e + 1..Len(s) : i \notin Frame(s, e)
           /\ \A k \in 1..Len(texts) :
                 /\ {p[k - 1] + 1, p[k - 1] + 2} \subseteq Frame(s, e)
                 /\ p[k - 1] + 1 \notin Opens(s, e) /\ p[k - 1] + 2 \in Opens(s, e)
                 /\ \A i \in p[k - 1] + 3..p[k] : i \notin Frame(s, e)
<1> DEFINE m    == Len(texts)
           mode == Mode(s)
<1>1. /\ m \in Nat /\ Len(s) \in Nat
      /\ \A k \in 0..m : p[k] \in Nat /\ 2 <= p[k] /\ p[k] <= Len(s)
      /\ \A k \in 1..m : k - 1 \in 0..m /\ k \in 0..m /\ p[k - 1] + 3 <= p[k]
  BY StringsAreTexts, LayoutBounds
<1>2. /\ s[1] = Open /\ s[2] = Good /\ s[e] = Close /\ e <= Len(s) /\ p[0] = 2
      /\ \A k \in 1..m : s[p[k - 1] + 1] = Comma /\ s[p[k - 1] + 2] = Quote
  BY DEF Layout
<1>3. /\ mode[1] = "out"
      /\ \A k \in 0..m : mode[p[k]] = "out"
      /\ \A k \in 1..m : /\ mode[p[k - 1] + 1] = "out"
                         /\ \A i \in p[k - 1] + 2..p[k] - 1 : mode[i] # "out"
  BY LayoutModes
<1>4. mode[0] = "out"
  BY ModeDef
<1> HIDE DEF mode
<1>5. Frame(s, e) = {i \in 1..e : mode[i - 1] = "out"}
  BY DEF Frame, mode
<1>6. Opens(s, e) = {i \in Frame(s, e) : s[i] = Quote}
  BY DEF Opens
<1>7. e \in Nat /\ 3 <= e /\ e - 1 = p[m] /\ m \in 0..m
  BY <1>1
<1>8. {1, 2, e} \subseteq Frame(s, e) /\ {1, 2, e} \cap Opens(s, e) = {}
  <2>1. 1 \in Frame(s, e)
    BY <1>4, <1>5, <1>7
  <2>2. 2 \in Frame(s, e)
    BY <1>3, <1>5, <1>7
  <2>3. e \in Frame(s, e)
    BY <1>3, <1>5, <1>7
  <2> QED
    BY <1>2, <1>6, <2>1, <2>2, <2>3, TokensDiffer
<1>9. \A i \in e + 1..Len(s) : i \notin Frame(s, e)
  BY <1>1, <1>5, <1>7
<1>10. ASSUME NEW k \in 1..m
       PROVE  /\ {p[k - 1] + 1, p[k - 1] + 2} \subseteq Frame(s, e)
              /\ p[k - 1] + 1 \notin Opens(s, e) /\ p[k - 1] + 2 \in Opens(s, e)
              /\ \A i \in p[k - 1] + 3..p[k] : i \notin Frame(s, e)
  <2> DEFINE a == p[k - 1]
             c == p[k]
  <2>1. a \in Nat /\ c \in Nat /\ 2 <= a /\ a + 3 <= c
    BY <1>1
  <2>2. mode[a] = "out" /\ mode[a + 1] = "out" /\ \A i \in a + 2..c - 1 : mode[i] # "out"
    BY <1>1, <1>3
  <2>3. s[a + 1] = Comma /\ s[a + 2] = Quote
    BY <1>2
  <2>4. c <= p[m]
    <3> DEFINE P == {n \in Nat : k + n <= m => p[k] <= p[k + n]}
    <3>1. 0 \in P
      BY <2>1
    <3>2. ASSUME NEW n \in P \cap Nat PROVE n + 1 \in P
      <4> SUFFICES ASSUME k + (n + 1) <= m PROVE p[k] <= p[k + (n + 1)]
        OBVIOUS
      <4>1. k + n <= m => p[k] <= p[k + n]
        OBVIOUS
      <4>2. k + (n + 1) \in 1..m /\ (k + (n + 1)) - 1 = k + n /\ k + n <= m /\ k + n \in 0..m
            /\ k + (n + 1) \in 0..m
        BY <1>1
      <4>3. p[k + n] + 3 <= p[k + (n + 1)] /\ p[k + n] \in Nat /\ p[k + (n + 1)] \in Nat /\ p[k] \in Nat
        BY <1>1, <2>1, <4>2
      <4> QED
        BY <4>1, <4>2, <4>3
    <3>3. m - k \in Nat /\ k + (m - k) = m
      BY <1>1
    <3>4. m - k \in P
      <4> HIDE DEF P
      <4> QED
        BY <3>1, <3>2, <3>3, SetInduction
    <3> QED
      BY <3>3, <3>4
  <2> HIDE DEF a, c
  <2>5. a + 1 \in 1..e /\ a + 2 \in 1..e /\ (a + 1) - 1 = a /\ (a + 2) - 1 = a + 1
    BY <1>7, <2>1, <2>4
  <2>6. a + 1 \in Frame(s, e) /\ a + 2 \in Frame(s, e)
    BY <1>5, <2>2, <2>5
  <2>7. ASSUME NEW i \in a + 3..c PROVE i \notin Frame(s, e)
    <3>1. i - 1 \in a + 2..c - 1
      BY <2>1
    <3> QED
      BY <1>5, <2>2, <3>1
  <2>8. a + 1 \notin Opens(s, e) /\ a + 2 \in Opens(s, e)
    BY <1>6, <2>3, <2>6, TokensDiffer
  <2> QED
    BY <2>6, <2>7, <2>8 DEF a, c
<1> QED
  BY <1>6, <1>8, <1>9, <1>10

\* The empty string.
LEMMA EmptyString == <<>> \in AllStrings
<1> DEFINE x == <<>>
           t == <<Quote>> \o x
<1>1. x \in Seq(Tokens) /\ Len(x) = 0
  OBVIOUS
<1> HIDE DEF x
<1>2. /\ t \in Seq(Tokens) /\ Follows(t, <<Quote>>, x, 1, Len(x)) /\ t[1] = Quote
  BY <1>1, QuotedString
<1> HIDE DEF t
<1>3. Len(t) = 1
  BY <1>1, <1>2 DEF Follows
<1>4. Mode(t)[0] = "out" /\ Mode(t)[1] = Step(Mode(t)[0], t[1])
  BY <1>2, <1>3, ModeDef
<1>5. Mode(t)[1] = "in"
  BY <1>2, <1>4, StepQuote
<1>6. IsString(x)
  BY <1>1, <1>5 DEF IsString, t
<1> QED
  BY <1>1, <1>6 DEF AllStrings, x

\* The decoder finds strings between quotes.
LEMMA BetweenType ==
    ASSUME NEW s \in Seq(Tokens), NEW e \in Ends(s)
    PROVE  Between(s, e) \in Seq(AllStrings) /\ Len(Between(s, e)) = Len(s)
<1> DEFINE shut(i) == CHOOSE j \in i + 1..e : IsShut(s, i, j)
           b == Between(s, e)
<1>1. Len(s) \in Nat /\ e \in 1..Len(s) /\ Mode(s)[e - 1] = "out" /\ s[e] = Close
  BY LenProperties DEF Ends
<1>2. ASSUME NEW i \in Opens(s, e) PROVE SubSeq(s, i + 1, shut(i) - 1) \in AllStrings
  <2>1. i \in 1..e /\ Mode(s)[i - 1] = "out" /\ s[i] = Quote
    BY DEF Opens, Frame
  <2>2. /\ \E j \in i + 1..e : IsShut(s, i, j)
        /\ \A j \in i + 1..e : IsShut(s, i, j) => SubSeq(s, i + 1, j - 1) \in AllStrings
    BY <1>1, <2>1, QuotesMatch DEF IsShut
  <2>3. shut(i) \in i + 1..e /\ IsShut(s, i, shut(i))
    BY <2>2
  <2> QED
    BY <2>2, <2>3
<1>3. b = [i \in 1..Len(s) |-> IF i \in Opens(s, e) THEN SubSeq(s, i + 1, shut(i) - 1) ELSE <<>>]
  BY DEF Between
<1> HIDE DEF b, shut
<1>4. \A i \in 1..Len(s) : b[i] \in AllStrings
  BY <1>2, <1>3, EmptyString
<1>5. b \in [1..Len(s) -> AllStrings]
  BY <1>3, <1>4
<1>6. b \in Seq(AllStrings) /\ Len(b) = Len(s)
  BY <1>1, <1>5
<1> QED
  BY <1>6 DEF b

\* The string behind an opening quote of a document.
LEMMA LayoutBetween ==
    ASSUME NEW s \in Seq(Tokens), NEW texts \in Seq(AllStrings), NEW p, Layout(p, texts, s),
           NEW e, e = p[Len(texts)] + 1, NEW k \in 1..Len(texts)
    PROVE  Between(s, e)[p[k - 1] + 2] = texts[k]
<1> DEFINE a == p[k - 1] + 1
           c == p[k]
           x == texts[k]
           l == Len(x)
           i == a + 1
           y == SubSeq(s, a + 2, a + 1 + l)
<1>1. /\ Len(texts) \in Nat /\ Len(s) \in Nat
      /\ \A n \in 0..Len(texts) : p[n] \in Nat /\ 2 <= p[n] /\ p[n] <= Len(s)
      /\ k - 1 \in 0..Len(texts) /\ k \in 0..Len(texts)
      /\ x \in Seq(Tokens) /\ l \in Nat
      /\ p[k] = p[k - 1] + Len(texts[k]) + 3
  BY StringsAreTexts, LayoutBounds
<1>2. a \in Nat /\ c \in Nat /\ c = a + l + 2 /\ c <= Len(s) /\ 3 <= a
  <2> DEFINE b == p[k - 1]
  <2>1. b \in Nat /\ 2 <= b /\ c \in Nat /\ c <= Len(s) /\ c = b + l + 3 /\ a = b + 1
    BY <1>1
  <2> HIDE DEF a, b, c, l
  <2> QED
    BY ONLY <1>1, <2>1
<1>3. /\ Mode(s)[c] = "out" /\ Mode(s)[a] = "out"
      /\ \A n \in a + 1..c - 1 : Mode(s)[n] # "out"
  <2>1. /\ Mode(s)[p[k]] = "out" /\ Mode(s)[p[k - 1] + 1] = "out"
        /\ \A n \in p[k - 1] + 2..p[k] - 1 : Mode(s)[n] # "out"
    BY <1>1, LayoutModes
  <2>2. a + 1 = p[k - 1] + 2
    BY <1>1
  <2> QED
    BY <2>1, <2>2
<1>4. /\ s[a + 1] = Quote
      /\ \A j \in 1..l : s[a + 1 + j] = x[j]
  <2>1. s[p[k - 1] + 2] = Quote /\ \A j \in 1..Len(texts[k]) : s[p[k - 1] + 2 + j] = texts[k][j]
    BY DEF Layout
  <2>2. a + 1 = p[k - 1] + 2
    BY <1>1
  <2> QED
    BY <2>1, <2>2
<1>5. i \in Opens(s, e)
  <2>1. p[k - 1] + 2 \in Opens(s, e)
    BY LayoutFrame
  <2> QED
    BY <1>1, <2>1
<1>6. e \in Nat /\ e <= Len(s) /\ i \in 1..e
  <2>1. e <= Len(s) /\ Len(texts) \in 0..Len(texts)
    BY <1>1 DEF Layout
  <2>2. i \in 1..e
    BY <1>5 DEF Opens, Frame
  <2> QED
    BY <1>1, <2>1, <2>2
<1>7. c \in i + 1..e
  <2>1. ~(e <= c)
    <3>1. SUFFICES ASSUME e <= c PROVE FALSE
      OBVIOUS
    <3>2. Mode(s)[e - 1] = "out" /\ s[e] = Close
      <4> DEFINE m == Len(texts)
                 b == p[m]
      <4>1. m \in 0..m
        BY <1>1
      <4>2. b \in Nat /\ e = b + 1 /\ Mode(s)[b] = "out"
        BY <1>1, <4>1, LayoutModes
      <4>3. e - 1 = b
        BY ONLY <4>2
      <4>4. s[e] = Close
        BY DEF Layout
      <4> QED
        BY <4>2, <4>3, <4>4
    <3> HIDE DEF a, c, l
    <3>3. e - 1 \in a + 1..c - 1 \/ e = i
      BY <1>2, <1>6, <3>1
    <3> QED
      BY <1>3, <1>4, <3>2, <3>3, TokensDiffer
  <2> HIDE DEF a, c, l
  <2> QED
    BY <1>1, <1>2, <1>6, <2>1
<1> HIDE DEF a, c, x, l
<1>8. y \in Seq(Tokens) /\ Len(y) = l /\ \A j \in 1..l : y[j] = x[j]
  <2>1. a + 1 + l <= Len(s) /\ a + 1 + l = c - 1
    BY <1>1, <1>2 DEF l
  <2>2. \A n \in a + 1..a + 1 + l : Mode(s)[n] # "out"
    BY <1>3, <2>1
  <2>3. Mode(s)[a + 1 + l] = "in"
    <3>1. x \in AllStrings
      BY ElementOfSeq DEF x
    <3> QED
      BY <1>2, <1>3, <1>4, <2>1, <3>1, InsideString DEF l
  <2>4. y \in AllStrings /\ Len(y) = l /\ \A j \in 1..l : y[j] = s[a + 1 + j]
    BY <1>1, <1>2, <1>3, <1>4, <2>1, <2>2, <2>3, StringInside
  <2> QED
    BY <1>4, <2>4 DEF AllStrings
<1>9. y = x
  <2>1. Len(y) = Len(x)
    BY <1>8 DEF l
  <2> HIDE DEF y
  <2> QED
    BY <1>1, <1>8, <2>1, SeqEqual
<1>10. (CHOOSE j \in i + 1..e : IsShut(s, i, j)) = c
  <2>1. IsShut(s, i, c)
    <3>1. \A n \in i + 1..c - 1 : n \in a + 1..c - 1
      BY <1>2
    <3> QED
      BY <1>3, <3>1 DEF IsShut
  <2>2. ASSUME NEW j \in i + 1..e, IsShut(s, i, j) PROVE j = c
    <3>1. j < c => j \in a + 1..c - 1
      BY <1>2
    <3>2. c < j => c \in i + 1..j - 1
      BY <1>2, <1>7
    <3>3. ~(j < c) /\ ~(c < j)
      BY <1>3, <2>2, <3>1, <3>2 DEF IsShut
    <3> QED
      BY <1>2, <1>6, <3>3
  <2> QED
    BY <1>7, <2>1, <2>2
<1>11. Between(s, e)[i] = SubSeq(s, i + 1, c - 1)
  <2>1. i \in 1..Len(s)
    BY <1>1, <1>6
  <2> HIDE DEF i
  <2> QED
    BY <1>5, <1>10, <2>1 DEF Between
<1>12. i + 1 = a + 2 /\ c - 1 = a + 1 + l /\ p[k - 1] + 2 = i
  <2>1. i + 1 = a + 2 /\ c - 1 = a + 1 + l
    BY <1>1, <1>2 DEF l
  <2>2. p[k - 1] + 2 = i
    BY <1>1 DEF a
  <2> QED
    BY <2>1, <2>2
<1> QED
  BY <1>9, <1>11, <1>12 DEF x

\* The steps of At, and where it rests.
AtSteps(g, s, I) ==
    /\ Kept(g, s, I)
    /\ At(s, I) = g[Len(s)]
    /\ \A x \in 0..Len(s) : \A y \in x..Len(s) : (\A i \in x + 1..y : i \notin I) => g[y] = g[x]

\* At has such steps.
LEMMA AtStepsExist ==
    ASSUME NEW T, NEW s \in Seq(T), NEW I
    PROVE  \E g \in [0..Len(s) -> Seq(T)] : AtSteps(g, s, I)
<1>1. PICK g \in [0..Len(s) -> Seq(T)] : Kept(g, s, I) /\ At(s, I) = g[Len(s)]
  BY AtDef
<1>2. ASSUME NEW x \in 0..Len(s), NEW y \in x..Len(s), \A i \in x + 1..y : i \notin I
      PROVE  g[y] = g[x]
  BY <1>1, <1>2, KeptNone
<1>3. AtSteps(g, s, I)
  BY <1>1, <1>2 DEF AtSteps
<1> QED
  BY <1>3

\* The decoder finds the strings of a document.
LEMMA LayoutMembers ==
    ASSUME NEW s \in Seq(Tokens), NEW texts \in Seq(AllStrings), NEW p, Layout(p, texts, s),
           NEW e \in Ends(s), e = p[Len(texts)] + 1
    PROVE  At(Between(s, e), Opens(s, e)) = texts
<1> DEFINE b == Between(s, e)
           I == Opens(s, e)
           m == Len(texts)
<1>1. b \in Seq(AllStrings) /\ Len(b) = Len(s)
  BY BetweenType
<1>2. /\ m \in Nat /\ Len(s) \in Nat
      /\ \A k \in 0..m : p[k] \in Nat /\ 2 <= p[k] /\ p[k] <= Len(s)
      /\ \A k \in 1..m : k - 1 \in 0..m /\ k \in 0..m /\ p[k - 1] + 3 <= p[k]
  BY StringsAreTexts, LayoutBounds
<1>3. /\ I \subseteq Frame(s, e)
      /\ 1 \notin I /\ 2 \notin I /\ e \notin I
      /\ \A i \in e + 1..Len(s) : i \notin Frame(s, e)
      /\ \A k \in 1..m : /\ p[k - 1] + 1 \notin I /\ p[k - 1] + 2 \in I
                         /\ \A i \in p[k - 1] + 3..p[k] : i \notin Frame(s, e)
  BY LayoutFrame
<1>4. \A k \in 1..m : b[p[k - 1] + 2] = texts[k] /\ texts[k] \in AllStrings
  BY LayoutBetween, ElementOfSeq
<1>5. p[0] = 2 /\ e <= Len(s)
  BY DEF Layout
<1> HIDE DEF b, I
<1>6. PICK g \in [0..Len(b) -> Seq(AllStrings)] : AtSteps(g, b, I)
  BY <1>1, AtStepsExist
<1>7. /\ g \in [0..Len(s) -> Seq(AllStrings)]
      /\ g[0] = <<>>
      /\ \A i \in 1..Len(s) : g[i] = IF i \in I THEN Append(g[i - 1], b[i]) ELSE g[i - 1]
      /\ At(b, I) = g[Len(s)]
  BY <1>1, <1>6 DEF AtSteps, Kept
<1>8. \A x \in 0..Len(s) : \A y \in x..Len(s) : (\A i \in x + 1..y : i \notin I) => g[y] = g[x]
  BY <1>1, <1>6 DEF AtSteps
<1> DEFINE Holding(k, h) == Len(h) = k /\ \A j \in 1..k : h[j] = texts[j]
           P == {k \in Nat : k <= m => Holding(k, g[p[k]])}
<1>9. 0 \in P
  <2>1. g[2] = g[0]
    <3>1. 2 <= Len(s)
      BY <1>2, <1>5
    <3>2. 0 \in 0..Len(s) /\ 2 \in 0..Len(s) /\ \A i \in 0 + 1..2 : i \notin I
      BY <1>2, <1>3, <3>1
    <3> QED
      BY <1>8, <3>2
  <2> QED
    BY <1>5, <1>7, <2>1
<1>10. ASSUME NEW n \in P \cap Nat PROVE n + 1 \in P
  <2> SUFFICES ASSUME n + 1 <= m PROVE Holding(n + 1, g[p[n + 1]])
    OBVIOUS
  <2>1. n <= m => Holding(n, g[p[n]])
    OBVIOUS
  <2> HIDE DEF P
  <2> DEFINE k == n + 1
             a == p[n]
             c == p[k]
             h == g[a]
             x == texts[k]
  <2>2. k \in 1..m /\ k - 1 = n /\ n <= m
    BY <1>2
  <2>3. a \in Nat /\ c \in Nat /\ c <= Len(s) /\ a + 3 <= c
    <3>1. p[k - 1] + 3 <= p[k] /\ k - 1 \in 0..m /\ k \in 0..m
      BY <1>2, <2>2
    <3> QED
      BY <1>2, <2>2, <3>1
  <2>4. /\ a + 1 \notin I /\ a + 2 \in I
        /\ \A i \in a + 3..c : i \notin I
    <3>1. /\ p[k - 1] + 1 \notin I /\ p[k - 1] + 2 \in I
          /\ \A i \in p[k - 1] + 3..p[k] : i \notin Frame(s, e)
      BY <1>3, <2>2
    <3> QED
      BY <1>3, <2>2, <3>1
  <2>5. b[a + 2] = x /\ x \in AllStrings
    <3>1. b[p[k - 1] + 2] = texts[k] /\ texts[k] \in AllStrings
      BY <1>4, <2>2
    <3> QED
      BY <2>2, <3>1
  <2>6. Holding(n, h)
    BY <2>1, <2>2
  <2> HIDE DEF k, a, c, x, h, Holding
  <2>7. /\ a \in 0..Len(s) /\ a + 1 \in 1..Len(s) /\ a + 2 \in 1..Len(s) /\ a + 2 \in 0..Len(s)
        /\ (a + 1) - 1 = a /\ (a + 2) - 1 = a + 1 /\ (a + 2) + 1 = a + 3 /\ c \in a + 2..Len(s)
    BY ONLY <1>2, <2>3
  <2>8. h \in Seq(AllStrings)
    BY <1>7, <2>7 DEF h
  <2>9. g[a + 2] = Append(h, x)
    <3>1. g[a + 1] = h
      BY <1>7, <2>4, <2>7 DEF h
    <3> QED
      BY <1>7, <2>4, <2>5, <2>7, <3>1
  <2>10. g[c] = Append(h, x)
    <3>1. \A i \in (a + 2) + 1..c : i \notin I
      BY <2>4, <2>7
    <3>2. g[c] = g[a + 2]
      BY <1>8, <2>7, <3>1
    <3> QED
      BY <2>9, <3>2
  <2>11. /\ Len(Append(h, x)) = Len(h) + 1
         /\ \A j \in 1..Len(h) : Append(h, x)[j] = h[j]
         /\ Append(h, x)[Len(h) + 1] = x
    BY <2>5, <2>8, AppendProperties
  <2> DEFINE y == Append(h, x)
  <2> HIDE DEF y
  <2>12. Holding(k, y)
    <3>1. Len(h) = n /\ \A j \in 1..n : h[j] = texts[j]
      BY <2>6 DEF Holding
    <3>2. Len(y) = n + 1 /\ (\A j \in 1..n : y[j] = texts[j]) /\ y[n + 1] = texts[n + 1]
      BY <2>11, <3>1 DEF y, x, k
    <3> QED
      BY <3>2 DEF Holding, k
  <2> QED
    BY <2>10, <2>12 DEF k, c, y
<1>11. Holding(m, g[p[m]])
  <2>1. m \in P
    <3> HIDE DEF P
    <3> QED
      BY <1>2, <1>9, <1>10, SetInduction
  <2> QED
    BY <1>2, <2>1
<1>12. g[Len(s)] = g[p[m]]
  <2>1. m \in 0..m
    BY <1>2
  <2>2. p[m] \in Nat /\ p[m] <= Len(s)
    BY <1>2, <2>1
  <2>3. \A i \in p[m] + 1..Len(s) : i = e \/ i \in e + 1..Len(s)
    BY <1>2, <2>2
  <2>4. \A i \in p[m] + 1..Len(s) : i \notin I
    BY <1>3, <2>3
  <2>5. p[m] \in 0..Len(s) /\ Len(s) \in p[m]..Len(s)
    BY <1>2, <2>2
  <2> QED
    BY <1>8, <2>4, <2>5
<1>13. At(b, I) \in Seq(AllStrings) /\ Holding(m, At(b, I))
  <2>1. Len(s) \in 0..Len(s)
    BY <1>2
  <2> HIDE DEF Holding
  <2> QED
    BY <1>7, <1>11, <1>12, <2>1
<1>14. At(b, I) = texts
  BY <1>13, SeqEqual
<1> QED
  BY <1>14 DEF b, I

\* What the decoder finds outside the strings of a document.
LEMMA LayoutSkeleton ==
    ASSUME NEW s \in Seq(Tokens), NEW texts \in Seq(AllStrings), NEW p, Layout(p, texts, s),
           NEW e, e = p[Len(texts)] + 1
    PROVE  At(s, Frame(s, e)) = Skeleton(texts)
<1> DEFINE I == Frame(s, e)
           m == Len(texts)
           q == <<Comma, Quote>>
           qs == [k \in 1..m |-> q]
           F == FlattenSeq(qs)
           u == <<Open, Good>>
           v == <<Close>>
           w == u \o F
<1>1. Skeleton(texts) = w \o v
  BY DEF Skeleton
<1>2. /\ m \in Nat /\ Len(s) \in Nat
      /\ \A k \in 0..m : p[k] \in Nat /\ 2 <= p[k] /\ p[k] <= Len(s)
      /\ \A k \in 1..m : k - 1 \in 0..m /\ k \in 0..m /\ p[k - 1] + 3 <= p[k]
  BY StringsAreTexts, LayoutBounds
<1>3. /\ Opens(s, e) \subseteq I
      /\ 1 \in I /\ 2 \in I /\ e \in I
      /\ \A i \in e + 1..Len(s) : i \notin I
      /\ \A k \in 1..m : /\ p[k - 1] + 1 \in I /\ p[k - 1] + 2 \in I
                         /\ \A i \in p[k - 1] + 3..p[k] : i \notin I
  BY LayoutFrame
<1>4. /\ p[0] = 2 /\ e <= Len(s) /\ s[1] = Open /\ s[2] = Good /\ s[e] = Close
      /\ \A k \in 1..m : s[p[k - 1] + 1] = Comma /\ s[p[k - 1] + 2] = Quote
  BY DEF Layout
<1> HIDE DEF I
<1>5. PICK g \in [0..Len(s) -> Seq(Tokens)] : AtSteps(g, s, I)
  BY AtStepsExist
<1>6. /\ g[0] = <<>>
      /\ \A i \in 1..Len(s) : g[i] = IF i \in I THEN Append(g[i - 1], s[i]) ELSE g[i - 1]
      /\ At(s, I) = g[Len(s)]
  BY <1>5 DEF AtSteps, Kept
<1>7. \A x \in 0..Len(s) : \A y \in x..Len(s) : (\A i \in x + 1..y : i \notin I) => g[y] = g[x]
  BY <1>5 DEF AtSteps
<1>8. /\ u \in Seq(Tokens) /\ Len(u) = 2 /\ u[1] = Open /\ u[2] = Good
      /\ v \in Seq(Tokens) /\ Len(v) = 1 /\ v[1] = Close
      /\ q \in Seq(Tokens) /\ Len(q) = 2 /\ q[1] = Comma /\ q[2] = Quote
  BY DEF Tokens
<1> HIDE DEF u, v, q
<1>9. qs \in Seq(Seq(Tokens)) /\ Len(qs) = m /\ \A k \in 1..m : qs[k] = q
  BY <1>2, <1>8
<1> HIDE DEF qs
<1>10. F \in Seq(Tokens) /\ \E o : Offsets(o, qs, F)
  BY <1>9, FlattenProperties
<1> HIDE DEF F
<1>11. PICK o : Offsets(o, qs, F)
  BY <1>10
<1>12. /\ o \in [0..m -> 0..Len(F)] /\ o[0] = 0 /\ o[m] = Len(F) /\ Len(F) \in Nat
       /\ \A k \in 1..m : o[k] = o[k - 1] + 2 /\ F[o[k - 1] + 1] = Comma /\ F[o[k - 1] + 2] = Quote
  <2>1. /\ o \in [0..m -> 0..Len(F)] /\ o[0] = 0 /\ o[m] = Len(F)
        /\ \A k \in 1..m : o[k] = o[k - 1] + Len(qs[k])
        /\ \A k \in 1..m : \A j \in 1..Len(qs[k]) : F[o[k - 1] + j] = qs[k][j]
    BY <1>9, <1>11 DEF Offsets
  <2>2. Len(F) \in Nat
    BY <1>10, LenProperties
  <2>3. ASSUME NEW k \in 1..m
        PROVE  o[k] = o[k - 1] + 2 /\ F[o[k - 1] + 1] = Comma /\ F[o[k - 1] + 2] = Quote
    <3>1. qs[k] = q /\ 1 \in 1..Len(q) /\ 2 \in 1..Len(q)
      BY <1>8, <1>9
    <3> QED
      BY <1>8, <2>1, <3>1
  <2> QED
    BY <2>1, <2>2, <2>3
<1>13. w \in Seq(Tokens) /\ Follows(w, u, F, 2, Len(F))
  BY <1>8, <1>10, ConcatFollows
<1> HIDE DEF w
<1>14. Len(w) = 2 + Len(F) /\ w[1] = Open /\ w[2] = Good /\ \A j \in 1..Len(F) : w[2 + j] = F[j]
  BY <1>8, <1>13 DEF Follows
<1> DEFINE Begins(n, h) == Len(h) = n /\ \A j \in 1..n : h[j] = w[j]
           P == {k \in Nat : k <= m => Begins(2 + o[k], g[p[k]])}
<1>15. ASSUME NEW n \in Nat, NEW h \in Seq(Tokens), Begins(n, h), NEW t \in Tokens, w[n + 1] = t
       PROVE  Append(h, t) \in Seq(Tokens) /\ Begins(n + 1, Append(h, t))
  <2>1. /\ Append(h, t) \in Seq(Tokens)
        /\ Len(Append(h, t)) = Len(h) + 1
        /\ \A j \in 1..Len(h) : Append(h, t)[j] = h[j]
        /\ Append(h, t)[Len(h) + 1] = t
    BY AppendProperties
  <2> DEFINE y == Append(h, t)
  <2> HIDE DEF y
  <2>2. Len(y) = n + 1 /\ (\A j \in 1..n : y[j] = w[j]) /\ y[n + 1] = w[n + 1]
    BY <1>15, <2>1 DEF y
  <2>3. Begins(n + 1, y)
    BY <2>2
  <2> QED
    BY <2>1, <2>3 DEF y
<1>16. 0 \in P
  <2>1. 2 <= Len(s)
    BY <1>2, <1>4
  <2>2. g[1] = Append(<<>>, Open) /\ g[2] = Append(g[1], Good)
    <3>1. 1 \in 1..Len(s) /\ 2 \in 1..Len(s) /\ 1 - 1 = 0 /\ 2 - 1 = 1
      BY <1>2, <2>1
    <3> QED
      BY <1>3, <1>4, <1>6, <3>1
  <2>3. Begins(2, g[2])
    <3>1. Len(g[2]) = 2 /\ g[2][1] = Open /\ g[2][2] = Good
      BY <2>2
    <3> QED
      BY <1>14, <3>1
  <2>4. 2 + o[0] = 2 /\ g[p[0]] = g[2]
    BY <1>4, <1>12
  <2> HIDE DEF Begins
  <2>5. Begins(2 + o[0], g[p[0]])
    BY <2>3, <2>4
  <2> QED
    BY <2>5
<1>17. ASSUME NEW n \in P \cap Nat PROVE n + 1 \in P
  <2> SUFFICES ASSUME n + 1 <= m PROVE Begins(2 + o[n + 1], g[p[n + 1]])
    OBVIOUS
  <2>1. n <= m => Begins(2 + o[n], g[p[n]])
    OBVIOUS
  <2> HIDE DEF P
  <2> DEFINE k == n + 1
             a == p[n]
             c == p[k]
             h == g[a]
             l == 2 + o[n]
  <2>2. k \in 1..m /\ k - 1 = n /\ n <= m
    BY <1>2
  <2>3. a \in Nat /\ c \in Nat /\ c <= Len(s) /\ a + 3 <= c
    <3>1. p[k - 1] + 3 <= p[k] /\ k - 1 \in 0..m /\ k \in 0..m
      BY <1>2, <2>2
    <3> QED
      BY <1>2, <2>2, <3>1
  <2>4. /\ a + 1 \in I /\ a + 2 \in I /\ s[a + 1] = Comma /\ s[a + 2] = Quote
        /\ \A i \in a + 3..c : i \notin I
    <3>1. /\ p[k - 1] + 1 \in I /\ p[k - 1] + 2 \in I
          /\ s[p[k - 1] + 1] = Comma /\ s[p[k - 1] + 2] = Quote
          /\ \A i \in p[k - 1] + 3..p[k] : i \notin I
      BY <1>3, <1>4, <2>2
    <3> QED
      BY <2>2, <3>1
  <2>5. l \in Nat /\ 2 + o[k] = l + 2 /\ w[l + 1] = Comma /\ w[l + 2] = Quote
    <3> DEFINE d == o[n]
    <3>1. n \in 0..m /\ k \in 0..m
      BY <2>2
    <3>2. d \in Nat /\ o[k] = d + 2 /\ o[k] \in Nat /\ o[k] <= Len(F) /\ F[d + 1] = Comma /\ F[d + 2] = Quote
      <4>1. o[k] = o[k - 1] + 2 /\ F[o[k - 1] + 1] = Comma /\ F[o[k - 1] + 2] = Quote
        BY <1>12, <2>2
      <4>2. o[n] \in 0..Len(F) /\ o[k] \in 0..Len(F)
        BY <1>12, <3>1
      <4> QED
        BY <1>12, <2>2, <4>1, <4>2
    <3> HIDE DEF d, k
    <3>3. d + 1 \in 1..Len(F) /\ d + 2 \in 1..Len(F) /\ (2 + d) + 1 = 2 + (d + 1) /\ (2 + d) + 2 = 2 + (d + 2)
          /\ 2 + d \in Nat /\ 2 + (d + 2) = (2 + d) + 2
      BY <1>12, <3>2
    <3>4. w[2 + (d + 1)] = Comma /\ w[2 + (d + 2)] = Quote
      BY <1>14, <3>2, <3>3
    <3> QED
      BY <3>2, <3>3, <3>4 DEF d
  <2>6. Begins(l, h)
    BY <2>1, <2>2
  <2>7. /\ a \in 0..Len(s) /\ a + 1 \in 1..Len(s) /\ a + 2 \in 1..Len(s) /\ a + 2 \in 0..Len(s)
        /\ (a + 1) - 1 = a /\ (a + 2) - 1 = a + 1 /\ (a + 2) + 1 = a + 3 /\ c \in a + 2..Len(s)
    <3> HIDE DEF a, c
    <3> QED
      BY ONLY <1>2, <2>3
  <2> HIDE DEF k, a, c, h, l, Begins
  <2>8. h \in Seq(Tokens)
    BY <1>5, <2>7 DEF h
  <2>9. g[a + 2] = Append(Append(h, Comma), Quote)
    <3>1. g[a + 1] = Append(h, Comma)
      BY <1>6, <2>4, <2>7 DEF h
    <3> QED
      BY <1>6, <2>4, <2>7, <3>1
  <2>10. g[c] = g[a + 2]
    <3>1. \A i \in (a + 2) + 1..c : i \notin I
      BY <2>4, <2>7
    <3> QED
      BY <1>7, <2>7, <3>1
  <2>11. Comma \in Tokens /\ Quote \in Tokens
    BY TokensType
  <2>12. Append(h, Comma) \in Seq(Tokens) /\ Begins(l + 1, Append(h, Comma))
    BY <1>15, <2>5, <2>6, <2>8, <2>11
  <2>13. Begins((l + 1) + 1, Append(Append(h, Comma), Quote))
    <3>1. l + 1 \in Nat /\ (l + 1) + 1 = l + 2
      BY <2>5
    <3> QED
      BY <1>15, <2>5, <2>11, <2>12, <3>1
  <2>14. (l + 1) + 1 = 2 + o[k]
    BY <2>5
  <2> QED
    BY <2>9, <2>10, <2>13, <2>14 DEF k, c
<1>18. Begins(2 + o[m], g[p[m]])
  <2>1. m \in P
    <3> HIDE DEF P
    <3> QED
      BY <1>2, <1>16, <1>17, SetInduction
  <2> QED
    BY <1>2, <2>1
<1>19. p[m] \in 0..Len(s) /\ e \in 1..Len(s) /\ e - 1 = p[m]
  <2>1. m \in 0..m
    BY <1>2
  <2>2. p[m] \in Nat /\ p[m] <= Len(s)
    BY <1>2, <2>1
  <2> QED
    BY <1>2, <1>4, <2>2
<1>20. g[p[m]] = w
  <2>1. g[p[m]] \in Seq(Tokens)
    BY <1>5, <1>19
  <2>2. 2 + o[m] = Len(w)
    BY <1>12, <1>14
  <2> QED
    BY <1>13, <1>18, <2>1, <2>2, SeqEqual
<1>21. g[e] = Append(w, Close)
  BY <1>3, <1>4, <1>6, <1>19, <1>20
<1>22. g[Len(s)] = g[e]
  <2>1. e \in 0..Len(s) /\ Len(s) \in e..Len(s)
    BY <1>2, <1>19
  <2> QED
    BY <1>3, <1>7, <2>1
<1>23. Append(w, Close) = w \o <<Close>>
  BY <1>13, TokensType, AppendIsConcat
<1> QED
  BY <1>1, <1>6, <1>21, <1>22, <1>23 DEF I, v

\* The decoder understands a document, whatever comes behind it.
LEMMA DecodeLayout ==
    ASSUME NEW s \in Seq(Tokens), NEW texts \in Seq(AllStrings), texts # <<>>,
           NEW p, Layout(p, texts, s)
    PROVE  Decode(s) = Review(Head(texts), Tail(texts))
<1> DEFINE m == Len(texts)
           e == p[m] + 1
<1>1. /\ m \in Nat /\ Len(s) \in Nat
      /\ \A k \in 0..m : p[k] \in Nat /\ 2 <= p[k] /\ p[k] <= Len(s)
  BY StringsAreTexts, LayoutBounds
<1>2. s[e] = Close /\ e <= Len(s) /\ m \in 0..m
  BY <1>1 DEF Layout
<1>3. Mode(s)[p[m]] = "out"
  BY <1>2, LayoutModes
<1>4. e \in Nat /\ 1 <= e /\ e - 1 = p[m]
  BY <1>1, <1>2
<1>5. e \in Ends(s)
  BY <1>1, <1>2, <1>3, <1>4 DEF Ends
<1>6. ASSUME NEW j \in Ends(s) PROVE e <= j
  <2>1. j \in 1..Len(s) /\ Mode(s)[j - 1] = "out" /\ s[j] = Close
    BY DEF Ends
  <2>2. SUFFICES ASSUME j < e PROVE FALSE
    BY <1>1, <1>4, <2>1
  <2>3. j \in 1..p[m] + 1
    BY <1>1, <1>4, <2>1, <2>2
  <2>4. j = p[m] + 1
    BY <2>1, <2>3, LayoutTokens
  <2> QED
    BY <1>4, <2>2, <2>4
<1>7. \A i \in Ends(s) : i \in Nat
  BY <1>1 DEF Ends
<1> HIDE DEF e
<1>8. (CHOOSE i \in Ends(s) : \A j \in Ends(s) : i <= j) = e
  <2>1. \A i \in Ends(s) : (\A j \in Ends(s) : i <= j) => i = e
    BY <1>5, <1>6, <1>7
  <2> QED
    BY <1>5, <1>6, <2>1
<1>9. At(Between(s, e), Opens(s, e)) = texts
  BY <1>5, LayoutMembers DEF e
<1>10. At(s, Frame(s, e)) = Skeleton(texts)
  BY LayoutSkeleton DEF e
<1> QED
  BY <1>5, <1>8, <1>9, <1>10, DecodeDef
-----------------------------------------------------------------------------
(* The steps of Repair. *)

Places(s, t) == {i \in 1..Len(s) : s[i] = t}

\* The first and the last place of a token.
LEMMA PlacesBounds ==
    ASSUME NEW T, NEW s \in Seq(T), NEW t, Places(s, t) # {}
    PROVE  LET P == Places(s, t)
           IN  /\ Min(P) \in 1..Len(s) /\ s[Min(P)] = t /\ \A i \in P : Min(P) <= i
               /\ Max(P) \in 1..Len(s) /\ s[Max(P)] = t /\ \A i \in P : i <= Max(P)
<1> DEFINE P == Places(s, t)
<1>1. Len(s) \in Nat
  BY LenProperties
<1>2. P \in SUBSET (1..Len(s)) /\ P \in SUBSET Nat /\ \A i \in P : s[i] = t
  BY <1>1 DEF Places
<1> HIDE DEF P
<1>3. P # {}
  BY DEF P
<1>4. Min(P) \in P /\ \A i \in P : Min(P) <= i
  BY <1>2, <1>3, MinProperties
<1>5. Max(P) \in P /\ \A i \in P : i <= Max(P)
  BY <1>1, <1>2, <1>3, MaxProperties
<1>6. Min(P) \in 1..Len(s) /\ s[Min(P)] = t /\ Max(P) \in 1..Len(s) /\ s[Max(P)] = t
  BY <1>2, <1>4, <1>5
<1> QED
  BY <1>4, <1>5, <1>6 DEF P

\* StripFences, by the places of the fences.
LEMMA StripFencesDef ==
    ASSUME NEW T, NEW s \in Seq(T)
    PROVE  LET P == Places(s, Fence)
           IN  /\ P = {} => StripFences(s) = s
               /\ P # {} => StripFences(s) =
                     SubSeq(s, Min(P) + 1, IF Max(P) = Min(P) THEN Len(s) ELSE Max(P) - 1)
<1> DEFINE P == Places(s, Fence)
           first == IF P # {} THEN Min(P) ELSE 0
           last  == IF P # {} THEN Max(P) ELSE 0
<1>1. StripFences(s) = IF first = 0 THEN s
                       ELSE SubSeq(s, first + 1, IF last = first THEN Len(s) ELSE last - 1)
  BY DEF StripFences, SelectInSeq, SelectLastInSeq, Places
<1>2. P # {} => Min(P) # 0
  BY PlacesBounds
<1> HIDE DEF P
<1> QED
  BY <1>1, <1>2 DEF P

\* Outermost, by the places of the braces.
LEMMA OutermostDef ==
    ASSUME NEW T, NEW s \in Seq(T)
    PROVE  LET open  == Places(s, Open)
               close == Places(s, Close)
           IN  \/ /\ ~(open # {} /\ close # {} /\ Max(close) > Min(open))
                  /\ Outermost(s) = s
               \/ /\ open # {} /\ close # {} /\ Max(close) > Min(open)
                  /\ Outermost(s) = SubSeq(s, Min(open), Max(close))
<1> DEFINE A == Places(s, Open)
           C == Places(s, Close)
           open  == IF A # {} THEN Min(A) ELSE 0
           close == IF C # {} THEN Max(C) ELSE 0
<1>1. Outermost(s) = IF open > 0 /\ close > open THEN SubSeq(s, open, close) ELSE s
  BY DEF Outermost, SelectInSeq, SelectLastInSeq, Places
<1>2. (A # {} => Min(A) \in 1..Len(s)) /\ (C # {} => Max(C) \in 1..Len(s))
  BY PlacesBounds
<1>3. Len(s) \in Nat
  BY LenProperties
<1> HIDE DEF A, C
<1>4. CASE A # {} /\ C # {}
  <2>1. Min(A) > 0 /\ open = Min(A) /\ close = Max(C)
    BY <1>2, <1>3, <1>4
  <2> QED
    BY <1>1, <1>4, <2>1 DEF A, C
<1>5. CASE A = {} \/ C = {}
  <2>1. ~(open > 0 /\ close > open)
    BY <1>2, <1>3, <1>5
  <2> QED
    BY <1>1, <1>5, <2>1 DEF A, C
<1> QED
  BY <1>4, <1>5

\* Repair invents no token.
LEMMA RepairType ==
    ASSUME NEW T, NEW s \in Seq(T)
    PROVE  StripFences(s) \in Seq(T) /\ RemoveTrailingCommas(Outermost(s)) \in Seq(T)
<1>1. ASSUME NEW u \in Seq(T), NEW a \in Nat, NEW b \in Int, 1 <= a, b <= Len(u)
      PROVE  SubSeq(u, a, b) \in Seq(T)
  <2>1. Len(u) \in Nat
    BY LenProperties
  <2>2. \A i \in a..b : u[i] \in T
    <3> SUFFICES ASSUME NEW i \in a..b PROVE u[i] \in T
      OBVIOUS
    <3>1. i \in 1..Len(u)
      BY <1>1, <2>1
    <3> QED
      BY <3>1, ElementOfSeq
  <2> QED
    BY <1>1, <2>2, SubSeqProperties
<1>2. StripFences(s) \in Seq(T)
  <2> DEFINE P == Places(s, Fence)
  <2>1. CASE P = {}
    BY <2>1, StripFencesDef
  <2>2. CASE P # {}
    <3> DEFINE a == Min(P)
               b == Max(P)
               e == IF b = a THEN Len(s) ELSE b - 1
    <3>1. StripFences(s) = SubSeq(s, a + 1, e)
      BY <2>2, StripFencesDef
    <3>2. a \in 1..Len(s) /\ b \in 1..Len(s) /\ Len(s) \in Nat
      BY <2>2, PlacesBounds, LenProperties
    <3> HIDE DEF P, a, b
    <3>3. a + 1 \in Nat /\ 1 <= a + 1 /\ e \in Int /\ e <= Len(s)
      BY <3>2
    <3> HIDE DEF e
    <3> QED
      BY <1>1, <3>1, <3>3
  <2> QED
    BY <2>1, <2>2
<1>3. Outermost(s) \in Seq(T)
  <2> DEFINE A == Places(s, Open)
             C == Places(s, Close)
  <2>2. CASE Outermost(s) = s
    BY <2>2
  <2>3. CASE A # {} /\ C # {} /\ Outermost(s) = SubSeq(s, Min(A), Max(C))
    <3>1. Min(A) \in 1..Len(s) /\ Max(C) \in 1..Len(s) /\ Len(s) \in Nat
      BY <2>3, PlacesBounds, LenProperties
    <3> DEFINE a == Min(A)
               b == Max(C)
    <3> HIDE DEF A, C, a, b
    <3>2. a \in Nat /\ b \in Int /\ 1 <= a /\ b <= Len(s)
      BY <3>1 DEF a, b
    <3>3. SubSeq(s, a, b) \in Seq(T)
      BY <1>1, <3>2
    <3> QED
      BY <2>3, <3>3 DEF a, b
  <2> QED
    BY <2>2, <2>3, OutermostDef
<1>4. RemoveTrailingCommas(Outermost(s)) \in Seq(T)
  BY <1>3, AtProperties DEF RemoveTrailingCommas
<1> QED
  BY <1>2, <1>4
-----------------------------------------------------------------------------
(* What Parse returns. *)

\* The first end of a document.
LEMMA EndsLeast ==
    ASSUME NEW s \in Seq(Tokens), Ends(s) # {}
    PROVE  (CHOOSE i \in Ends(s) : \A j \in Ends(s) : i <= j) \in Ends(s)
<1>1. Ends(s) \in SUBSET Nat
  <2>1. Len(s) \in Nat
    BY LenProperties
  <2> QED
    BY <2>1 DEF Ends
<1>2. Min(Ends(s)) \in Ends(s) /\ \A j \in Ends(s) : Min(Ends(s)) <= j
  BY <1>1, MinProperties
<1> QED
  BY <1>2

\* A document has its verdict behind the opening brace.
LEMMA SkeletonVerdict ==
    ASSUME NEW T, NEW members \in Seq(T)
    PROVE  2 \in 1..Len(Skeleton(members)) /\ Skeleton(members)[2] = Good
<1> DEFINE u == <<Open, Good>>
           q == <<Comma, Quote>>
           qs == [k \in 1..Len(members) |-> q]
           F == FlattenSeq(qs)
           v == <<Close>>
           w == u \o F
           y == w \o v
<1>1. u \in Seq(Tokens) /\ Len(u) = 2 /\ u[2] = Good /\ q \in Seq(Tokens) /\ v \in Seq(Tokens) /\ Len(v) = 1
  BY DEF Tokens
<1>2. Len(members) \in Nat
  BY LenProperties
<1> HIDE DEF u, v, q
<1>3. qs \in Seq(Seq(Tokens))
  BY <1>1, <1>2
<1> HIDE DEF qs
<1>4. F \in Seq(Tokens)
  BY <1>3, FlattenProperties
<1> HIDE DEF F
<1>5. w \in Seq(Tokens) /\ Follows(w, u, F, 2, Len(F)) /\ Len(F) \in Nat
  BY <1>1, <1>4, ConcatFollows, LenProperties
<1> HIDE DEF w
<1>6. y \in Seq(Tokens) /\ Follows(y, w, v, Len(w), 1) /\ Len(w) \in Nat
  BY <1>1, <1>5, ConcatFollows, LenProperties
<1> HIDE DEF y
<1>7. Len(w) = 2 + Len(F) /\ w[2] = u[2]
  BY <1>5 DEF Follows
<1>8. Len(y) = Len(w) + 1 /\ y[2] = w[2]
  <2>1. 2 \in 1..Len(w)
    BY <1>5, <1>7
  <2> QED
    BY <1>6, <2>1 DEF Follows
<1>9. 2 \in 1..Len(y) /\ y[2] = Good
  BY <1>1, <1>5, <1>7, <1>8
<1>10. Skeleton(members) = y
  BY DEF Skeleton, y, w, F, qs, q, u, v
<1> QED
  BY <1>9, <1>10

\* A text without a verdict is no review.
LEMMA NoVerdict ==
    ASSUME NEW s, StripFences(s) \in Seq(Tokens \ {Good})
    PROVE  Parse(s) = Unreadable
<1> DEFINE T == Tokens \ {Good}
           v == Repair(s)
           e == CHOOSE i \in Ends(v) : \A j \in Ends(v) : i <= j
           members == At(Between(v, e), Opens(v, e))
<1>1. v \in Seq(T)
  <2> HIDE DEF T
  <2>1. StripFences(s) \in Seq(T)
    BY DEF T
  <2> QED
    BY <2>1, RepairType DEF Repair
<1>2. v \in Seq(Tokens)
  <2>1. T \subseteq Tokens
    OBVIOUS
  <2> HIDE DEF T, v
  <2> QED
    BY <1>1, <2>1, SeqMonotonic
<1> HIDE DEF v
<1>3. ASSUME Ends(v) # {} PROVE At(v, Frame(v, e)) # Skeleton(members)
  <2>1. e \in Ends(v)
    BY <1>2, <1>3, EndsLeast
  <2> HIDE DEF e
  <2>2. Between(v, e) \in Seq(AllStrings)
    BY <1>2, <2>1, BetweenType
  <2>3. members \in Seq(AllStrings)
    BY <2>2, AtProperties
  <2> HIDE DEF members
  <2>4. 2 \in 1..Len(Skeleton(members)) /\ Skeleton(members)[2] = Good
    BY <2>3, SkeletonVerdict
  <2>5. At(v, Frame(v, e)) \in Seq(T)
    <3> HIDE DEF T
    <3> QED
      BY <1>1, AtProperties
  <2>6. SUFFICES ASSUME At(v, Frame(v, e)) = Skeleton(members) PROVE FALSE
    OBVIOUS
  <2>7. Skeleton(members)[2] \in T
    <3> HIDE DEF T
    <3> QED
      BY <2>4, <2>5, <2>6, ElementOfSeq
  <2> QED
    BY <2>4, <2>7
<1>4. Decode(v) = Unreadable
  <2> HIDE DEF e, members
  <2>1. CASE Ends(v) = {}
    BY <2>1, DecodeDef
  <2>2. CASE Ends(v) # {}
    BY <1>3, <2>2, DecodeDef DEF e, members
  <2> QED
    BY <2>1, <2>2
<1> QED
  BY <1>4 DEF Parse, Valid, Unreadable, v

\* A review made of strings.
LEMMA ReviewType ==
    ASSUME NEW a \in AllStrings, NEW b \in Seq(AllStrings)
    PROVE  /\ Review(a, b).ok /\ Review(a, b).summary = a /\ Review(a, b).findings = b
           /\ Valid(Review(a, b)) => IsReview(Review(a, b))
<1> DEFINE review == Review(a, b)
<1>1. b \in Seq(Seq(Tokens))
  BY StringsAreTexts
<1>2. review = [ok |-> TRUE, summary |-> a, findings |-> b]
  BY DEF Review
<1>3. /\ review \in [ok : {TRUE}, summary : Seq(Tokens), findings : Seq(Seq(Tokens))]
      /\ review.ok /\ review.summary = a /\ review.findings = b
  BY <1>1, <1>2 DEF AllStrings
<1> HIDE DEF review
<1>4. ASSUME NEW k \in DOMAIN b PROVE IsString(b[k])
  <2>1. k \in 1..Len(b)
    OBVIOUS
  <2>2. b[k] \in AllStrings
    BY <2>1, ElementOfSeq
  <2> QED
    BY <2>2 DEF AllStrings
<1>5. Valid(review) => IsReview(review)
  BY <1>3, <1>4 DEF IsReview, AllStrings
<1> QED
  BY <1>3, <1>5 DEF review

\* What Parse reads can be written.
THEOREM ParseType ==
    ASSUME NEW s \in Seq(Tokens)
    PROVE  Parse(s) = Unreadable \/ IsReview(Parse(s))
<1> DEFINE v == Repair(s)
           e == CHOOSE i \in Ends(v) : \A j \in Ends(v) : i <= j
           members == At(Between(v, e), Opens(v, e))
<1>1. v \in Seq(Tokens)
  BY RepairType DEF Repair
<1> HIDE DEF v
<1>2. CASE Ends(v) = {}
  <2>1. Decode(v) = Unreadable
    BY <1>2, DecodeDef
  <2> QED
    BY <2>1 DEF Parse, Valid, Unreadable, v
<1>3. CASE Ends(v) # {}
  <2>1. e \in Ends(v)
    BY <1>1, <1>3, EndsLeast
  <2>2. Decode(v) = IF At(v, Frame(v, e)) # Skeleton(members) \/ members = <<>>
                    THEN Unreadable ELSE Review(Head(members), Tail(members))
    BY <1>3, DecodeDef
  <2> HIDE DEF e
  <2>3. Between(v, e) \in Seq(AllStrings)
    BY <1>1, <2>1, BetweenType
  <2>4. members \in Seq(AllStrings)
    BY <2>3, AtProperties
  <2> HIDE DEF members
  <2>5. CASE Decode(v) = Unreadable
    BY <2>5 DEF Parse, Valid, Unreadable, v
  <2>6. CASE members # <<>> /\ Decode(v) = Review(Head(members), Tail(members))
    <3>1. Head(members) \in AllStrings /\ Tail(members) \in Seq(AllStrings)
      BY <2>4, <2>6, HeadTailProperties
    <3>2. Valid(Decode(v)) => IsReview(Decode(v))
      BY <2>6, <3>1, ReviewType
    <3> QED
      BY <3>2 DEF Parse, v
  <2> QED
    BY <2>2, <2>5, <2>6
<1> QED
  BY <1>2, <1>3
-----------------------------------------------------------------------------
(* A document in a text. *)

\* s begins with the document, but for a comma before its last brace.
Leads(s, doc) ==
    /\ \A j \in 1..Len(doc) - 1 : s[j] = doc[j]
    /\ \/ Len(doc) <= Len(s) /\ s[Len(doc)] = Close
       \/ Len(doc) + 1 <= Len(s) /\ s[Len(doc)] = Comma /\ s[Len(doc) + 1] = Close

\* The third step of Repair drops this comma, and no other in the document.
LEMMA CommasDropped ==
    ASSUME NEW s \in Seq(Tokens), NEW doc \in Seq(Tokens), NEW texts \in Seq(AllStrings), NEW p,
           Layout(p, texts, doc), Len(doc) = p[Len(texts)] + 1, Leads(s, doc)
    PROVE  /\ RemoveTrailingCommas(s) \in Seq(Tokens)
           /\ Len(doc) <= Len(RemoveTrailingCommas(s))
           /\ \A j \in 1..Len(doc) : RemoveTrailingCommas(s)[j] = doc[j]
<1> DEFINE n == Len(doc)
           m == Len(texts)
           mode == Mode(s)
           I == {i \in 1..Len(s) : ~(mode[i - 1] = "out" /\ s[i] = Comma /\ i < Len(s) /\ s[i + 1] = Close)}
           v == At(s, I)
           l == n - 1
           a == 0
<1>1. RemoveTrailingCommas(s) = v
  BY DEF RemoveTrailingCommas
<1>2. v \in Seq(Tokens)
  <2> HIDE DEF I
  <2> QED
    BY AtProperties
<1>3. /\ Len(s) \in Nat /\ n \in Nat /\ m \in Nat /\ p[m] \in Nat /\ 2 <= p[m] /\ n = p[m] + 1
      /\ n <= Len(s) /\ doc[n] = Close
  <2>1. /\ Len(s) \in Nat /\ n \in Nat /\ m \in Nat
        /\ \A k \in 0..m : p[k] \in Nat /\ 2 <= p[k]
    BY StringsAreTexts, LayoutBounds, LenProperties
  <2>2. m \in 0..m
    BY <2>1
  <2>3. n <= Len(s)
    BY <2>1 DEF Leads
  <2>4. doc[n] = Close
    BY DEF Layout
  <2> QED
    BY <2>1, <2>2, <2>3, <2>4
<1>4. /\ l \in Nat /\ l + 1 = n /\ l <= Len(s) /\ l <= Len(doc) /\ l = p[m]
      /\ \A j \in 1..l : s[j] = doc[j]
  BY <1>3 DEF Leads
<1>5. \A j \in 0..l : mode[j] = Mode(doc)[j]
  <2>1. mode[a] = Mode(doc)[a]
    BY ModeDef
  <2>2. a \in Nat /\ (\A j \in 1..l : a + j = j) /\ \A j \in 0..l : a + j = j
    BY <1>4
  <2> HIDE DEF a, l, mode
  <2>3. Aligned(s, doc, a, a, l)
    <3>1. \A j \in 1..l : s[a + j] = doc[a + j]
      BY <1>4, <2>2
    <3>2. a + l <= Len(s) /\ a + l <= Len(doc)
      <4>1. a + l = l
        BY <1>4, <2>2
      <4> QED
        BY <1>4, <4>1
    <3> QED
      BY <3>1, <3>2 DEF Aligned
  <2>4. ModesAligned(s, doc, a, a, l)
    BY <1>4, <2>1, <2>2, <2>3, ModeShift DEF mode
  <2>5. ASSUME NEW j \in 0..l PROVE mode[j] = Mode(doc)[j]
    <3>1. a + j = j
      BY <2>2
    <3>2. mode[a + j] = Mode(doc)[a + j]
      BY <2>4 DEF ModesAligned, mode
    <3> QED
      BY <3>1, <3>2
  <2> QED
    BY <2>5
<1>6. mode[l] = "out"
  <2>1. m \in 0..m
    BY <1>3
  <2>2. Mode(doc)[p[m]] = "out"
    BY <2>1, LayoutModes
  <2>3. l \in 0..l
    BY <1>4
  <2> HIDE DEF l, mode
  <2> QED
    BY <1>4, <1>5, <2>2, <2>3
<1> HIDE DEF mode, l
<1>7. ASSUME NEW i \in 1..l PROVE i \in I
  <2>1. SUFFICES ASSUME mode[i - 1] = "out", s[i] = Comma, s[i + 1] = Close PROVE FALSE
    BY <1>4
  <2>2. i \in 1..p[m] + 1 /\ i - 1 \in 0..l
    BY <1>3, <1>4
  <2>3. Mode(doc)[i - 1] = "out" /\ doc[i] = Comma
    BY <1>4, <1>5, <2>1, <2>2
  <2>4. doc[i + 1] = Quote
    BY <2>2, <2>3, LayoutTokens
  <2>5. i + 1 # n
    BY <1>3, <2>4, TokensDiffer
  <2>6. i + 1 \in 1..l
    BY <1>3, <1>4, <2>5
  <2> QED
    BY <1>4, <2>1, <2>4, <2>6, TokensDiffer
<1>8. \/ n \in I /\ s[n] = Close
      \/ n + 1 \in 1..Len(s) /\ n \notin I /\ n + 1 \in I /\ s[n + 1] = Close
  <2>1. CASE s[n] = Close
    <3>1. n \in I
      BY <1>3, <2>1, TokensDiffer
    <3> QED
      BY <2>1, <3>1
  <2>2. CASE n + 1 <= Len(s) /\ s[n] = Comma /\ s[n + 1] = Close
    <3>1. n - 1 = l
      BY <1>3, <1>4
    <3>2. n \notin I
      BY <1>3, <1>6, <2>2, <3>1
    <3>3. n + 1 \in I
      BY <1>3, <2>2, TokensDiffer
    <3> QED
      BY <1>3, <2>2, <3>2, <3>3
  <2> QED
    BY <2>1, <2>2 DEF Leads
<1> HIDE DEF I
<1>9. PICK g \in [0..Len(s) -> Seq(Tokens)] : Kept(g, s, I) /\ v = g[Len(s)]
  BY AtDef
<1>10. g[0] = <<>> /\ \A i \in 1..Len(s) : g[i] = IF i \in I THEN Append(g[i - 1], s[i]) ELSE g[i - 1]
  BY <1>9 DEF Kept
<1>11. Len(g[l]) = l /\ \A j \in 1..l : g[l][j] = doc[j]
  <2>1. a \in 0..Len(s) /\ l \in 0..Len(s) /\ a + l = l /\ a + l <= Len(s) /\ \A i \in a + 1..a + l : i \in I
    BY <1>3, <1>4, <1>7
  <2>2. Len(g[a]) = 0
    BY <1>10
  <2>3. \A j \in 1..l : a + j = j
    BY <1>4
  <2>4. \A j \in 1..l : 0 + j = j
    BY <1>4
  <2> HIDE DEF a
  <2>5. Extends(g[a + l], g[a], s, a, l)
    BY <1>9, <2>1, KeptRun
  <2>6. /\ Len(g[l]) = 0 + l
        /\ \A j \in 1..l : g[l][0 + j] = s[a + j]
    BY <2>1, <2>2, <2>5 DEF Extends
  <2> QED
    BY <1>4, <2>3, <2>4, <2>6
<1>12. PICK x \in 0..Len(s) : g[x] = Append(g[l], Close)
  <2>1. n \in 0..Len(s) /\ n \in 1..Len(s) /\ n - 1 = l /\ (n + 1) - 1 = n
    BY <1>3, <1>4
  <2>2. CASE n \in I /\ s[n] = Close
    BY <1>10, <2>1, <2>2
  <2>3. CASE n + 1 \in 1..Len(s) /\ n \notin I /\ n + 1 \in I /\ s[n + 1] = Close
    <3>1. n + 1 \in 0..Len(s)
      BY <1>3, <2>3
    <3>2. g[n] = g[l]
      BY <1>10, <2>1, <2>3
    <3>3. g[n + 1] = Append(g[n], Close)
      BY <1>10, <2>1, <2>3
    <3> QED
      BY <3>1, <3>2, <3>3
  <2> QED
    BY <1>8, <2>2, <2>3
<1> DEFINE h == g[l]
<1>13. h \in Seq(Tokens) /\ Close \in Tokens
  <2>1. l \in 0..Len(s)
    BY <1>3, <1>4
  <2> QED
    BY <1>9, <2>1, TokensType
<1> HIDE DEF h
<1>14. /\ Len(Append(h, Close)) = Len(h) + 1
       /\ \A j \in 1..Len(h) : Append(h, Close)[j] = h[j]
       /\ Append(h, Close)[Len(h) + 1] = Close
  BY <1>13, AppendProperties
<1>15. Len(h) = l /\ \A j \in 1..l : h[j] = doc[j]
  BY <1>11 DEF h
<1>16. g[x] = Append(h, Close)
  BY <1>12 DEF h
<1>17. Len(g[x]) = n /\ \A j \in 1..n : g[x][j] = doc[j]
  <2> DEFINE y == g[x]
  <2>1. Len(y) = l + 1 /\ (\A j \in 1..l : y[j] = doc[j]) /\ y[l + 1] = Close
    BY <1>14, <1>15, <1>16
  <2> HIDE DEF y
  <2>2. ASSUME NEW j \in 1..n PROVE y[j] = doc[j]
    <3>1. j = l + 1 \/ j \in 1..l
      BY <1>4
    <3> QED
      BY <1>3, <1>4, <2>1, <3>1
  <2> QED
    BY <1>4, <2>1, <2>2 DEF y
<1>18. Len(g[x]) <= Len(g[Len(s)]) /\ \A j \in 1..Len(g[x]) : g[Len(s)][j] = g[x][j]
  BY <1>9, KeptGrows
<1>19. n <= Len(v) /\ \A j \in 1..n : v[j] = doc[j]
  BY <1>9, <1>17, <1>18
<1> QED
  BY <1>1, <1>2, <1>19

\* A text that begins with a document has its layout.
LEMMA LayoutPrefix ==
    ASSUME NEW s \in Seq(Tokens), NEW doc \in Seq(Tokens), NEW texts \in Seq(AllStrings), NEW p,
           Layout(p, texts, doc), Len(doc) <= Len(s), \A j \in 1..Len(doc) : s[j] = doc[j]
    PROVE  Layout(p, texts, s)
<1> DEFINE m == Len(texts)
           n == Len(doc)
<1>1. /\ m \in Nat /\ n \in Nat /\ Len(s) \in Nat
      /\ \A k \in 0..m : p[k] \in Nat /\ 2 <= p[k] /\ p[k] <= n
      /\ \A k \in 1..m : k - 1 \in 0..m /\ k \in 0..m /\ p[k - 1] + 3 <= p[k]
                         /\ Len(texts[k]) \in Nat /\ p[k] = p[k - 1] + Len(texts[k]) + 3
  BY StringsAreTexts, LayoutBounds, LenProperties
<1>2. /\ p \in [0..m -> 2..n] /\ p[0] = 2 /\ doc[1] = Open /\ doc[2] = Good
      /\ p[m] + 1 <= n /\ doc[p[m] + 1] = Close
      /\ \A k \in 1..m :
            /\ doc[p[k - 1] + 1] = Comma /\ doc[p[k - 1] + 2] = Quote /\ doc[p[k]] = Quote
            /\ \A j \in 1..Len(texts[k]) : doc[p[k - 1] + 2 + j] = texts[k][j]
  BY DEF Layout
<1>3. p \in [0..m -> 2..Len(s)]
  BY <1>1, <1>2
<1>4. s[1] = Open /\ s[2] = Good /\ p[m] + 1 <= Len(s) /\ s[p[m] + 1] = Close
  <2> DEFINE b == p[m]
  <2>1. b \in Nat /\ 2 <= b /\ b + 1 <= n
    <3>1. m \in 0..m
      BY <1>1
    <3> QED
      BY <1>1, <1>2, <3>1
  <2> HIDE DEF b
  <2>2. 1 \in 1..n /\ 2 \in 1..n /\ b + 1 \in 1..n /\ b + 1 <= Len(s)
    BY <1>1, <2>1
  <2>3. doc[b + 1] = Close
    BY <1>2 DEF b
  <2> QED
    BY <1>2, <2>2, <2>3 DEF b
<1>5. ASSUME NEW k \in 1..m
      PROVE  /\ p[k] = p[k - 1] + Len(texts[k]) + 3
             /\ s[p[k - 1] + 1] = Comma /\ s[p[k - 1] + 2] = Quote /\ s[p[k]] = Quote
             /\ \A j \in 1..Len(texts[k]) : s[p[k - 1] + 2 + j] = texts[k][j]
  <2> DEFINE a == p[k - 1]
             c == p[k]
             x == texts[k]
             l == Len(x)
  <2>1. a \in Nat /\ c \in Nat /\ l \in Nat /\ c = a + l + 3 /\ c <= n
    BY <1>1
  <2>2. /\ doc[a + 1] = Comma /\ doc[a + 2] = Quote /\ doc[c] = Quote
        /\ \A j \in 1..l : doc[a + 2 + j] = x[j]
    BY <1>2
  <2> HIDE DEF a, c, l, x
  <2>3. a + 1 \in 1..n /\ a + 2 \in 1..n /\ c \in 1..n /\ \A j \in 1..l : a + 2 + j \in 1..n
    BY ONLY <1>1, <2>1
  <2>4. /\ s[a + 1] = Comma /\ s[a + 2] = Quote /\ s[c] = Quote
        /\ \A j \in 1..l : s[a + 2 + j] = x[j]
    BY <2>2, <2>3
  <2> QED
    BY <2>1, <2>4 DEF a, c, l, x
<1> QED
  BY <1>2, <1>3, <1>4, <1>5 DEF Layout

\* The document, but for a comma before its last brace, stands in s behind position a, and no
\* brace opens before it.
Behind(s, a, doc) ==
    /\ \A j \in 1..a : s[j] # Open
    /\ \A j \in 1..Len(doc) - 1 : s[a + j] = doc[j]
    /\ \/ a + Len(doc) <= Len(s) /\ s[a + Len(doc)] = Close
       \/ a + Len(doc) + 1 <= Len(s) /\ s[a + Len(doc)] = Comma /\ s[a + Len(doc) + 1] = Close

\* The second step of Repair finds it.
LEMMA OutermostBehind ==
    ASSUME NEW s \in Seq(Tokens), NEW doc \in Seq(Tokens), 3 <= Len(doc), doc[1] = Open,
           NEW a \in Nat, Behind(s, a, doc)
    PROVE  Outermost(s) \in Seq(Tokens) /\ Leads(Outermost(s), doc)
<1> DEFINE A == Places(s, Open)
           C == Places(s, Close)
           n == Len(doc)
           b == Max(C)
           u == SubSeq(s, a + 1, b)
<1>1. Len(s) \in Nat /\ n \in Nat /\ 3 <= n /\ a + n <= Len(s)
  <2>1. Len(s) \in Nat /\ n \in Nat
    BY LenProperties
  <2> QED
    BY <2>1 DEF Behind
<1>2. s[a + 1] = Open /\ a + 1 \in 1..Len(s) /\ \A j \in 1..a : s[j] # Open
  BY <1>1 DEF Behind
<1>3. A # {} /\ Min(A) = a + 1
  <2>1. a + 1 \in A
    BY <1>2 DEF Places
  <2>2. Min(A) \in 1..Len(s) /\ s[Min(A)] = Open /\ Min(A) <= a + 1
    BY <2>1, PlacesBounds
  <2> HIDE DEF A
  <2>3. Min(A) \notin 1..a
    BY <1>2, <2>2
  <2> QED
    BY <1>1, <2>1, <2>2, <2>3
<1>4. PICK z \in C : a + n <= z /\ (s[a + n] = Close \/ (z = a + n + 1 /\ s[a + n] = Comma))
  <2>1. CASE s[a + n] = Close
    <3>1. a + n \in 1..Len(s)
      BY <1>1
    <3> QED
      BY <1>1, <2>1, <3>1 DEF Places
  <2>2. CASE a + n + 1 <= Len(s) /\ s[a + n] = Comma /\ s[a + n + 1] = Close
    <3>1. a + n + 1 \in 1..Len(s)
      BY <1>1, <2>2
    <3> QED
      BY <1>1, <2>2, <3>1 DEF Places
  <2> QED
    BY <2>1, <2>2 DEF Behind
<1>5. b \in 1..Len(s) /\ z <= b /\ z \in Nat /\ s[z] = Close
  <2>1. b \in 1..Len(s) /\ \A i \in C : i <= b
    BY <1>4, PlacesBounds
  <2>2. z \in Nat /\ s[z] = Close
    BY <1>1, <1>4 DEF Places
  <2> QED
    BY <1>4, <2>1, <2>2
<1> HIDE DEF A, b
<1>6. Outermost(s) = u
  <2>1. C # {} /\ b > a + 1
    BY <1>1, <1>4, <1>5
  <2>2. Max(C) = b
    BY DEF b
  <2> HIDE DEF C
  <2> QED
    BY <1>3, <2>1, <2>2, OutermostDef DEF A, C
<1>7. /\ u \in Seq(Tokens)
      /\ Len(u) = b - a
      /\ \A j \in 1..b - a : u[j] = s[a + j]
  <2>1. \A i \in a + 1..b : s[i] \in Tokens
    <3> SUFFICES ASSUME NEW i \in a + 1..b PROVE s[i] \in Tokens
      OBVIOUS
    <3>1. i \in 1..Len(s)
      BY <1>1, <1>5
    <3> QED
      BY <3>1, ElementOfSeq
  <2>2. /\ u \in Seq(Tokens)
        /\ Len(u) = IF a + 1 <= b THEN b - (a + 1) + 1 ELSE 0
        /\ \A j \in 1..b - (a + 1) + 1 : u[j] = s[(a + 1) + j - 1]
    <3>1. a + 1 \in Int /\ b \in Int
      BY <1>1, <1>5
    <3> QED
      BY <2>1, <3>1, SubSeqProperties
  <2>3. a + 1 <= b /\ b - (a + 1) + 1 = b - a /\ \A j \in 1..b - a : (a + 1) + j - 1 = a + j
    BY <1>1, <1>4, <1>5
  <2> HIDE DEF u
  <2> QED
    BY <2>2, <2>3
<1> HIDE DEF u
<1>8. ASSUME NEW j \in 1..n - 1 PROVE u[j] = doc[j]
  <2>1. j \in 1..b - a
    BY <1>1, <1>4, <1>5
  <2>2. s[a + j] = doc[j]
    BY DEF Behind
  <2> QED
    BY <1>7, <2>1, <2>2
<1>9. n <= Len(u) /\ u[n] = s[a + n]
  <2>1. n \in 1..b - a
    BY <1>1, <1>4, <1>5
  <2> QED
    BY <1>7, <2>1
<1>10. CASE s[a + n] = Close
  BY <1>8, <1>9, <1>10, <1>6, <1>7 DEF Leads
<1>11. CASE z = a + n + 1 /\ s[a + n] = Comma
  <2>1. n + 1 \in 1..b - a /\ a + (n + 1) = z
    BY <1>1, <1>5, <1>11
  <2>2. n + 1 <= Len(u) /\ u[n + 1] = Close
    BY <1>5, <1>7, <2>1
  <2> QED
    BY <1>6, <1>7, <1>8, <1>9, <1>11, <2>2 DEF Leads
<1> QED
  BY <1>4, <1>10, <1>11

\* The strings of a review, and the review of these strings.
LEMMA TextsProperties ==
    ASSUME NEW review, IsReview(review)
    PROVE  /\ Texts(review) \in Seq(AllStrings) /\ Texts(review) # <<>>
           /\ review = Review(Head(Texts(review)), Tail(Texts(review)))
<1> DEFINE a == review.summary
           b == review.findings
           u == <<a>>
           w == u \o b
<1>1. /\ review = [ok |-> TRUE, summary |-> a, findings |-> b]
      /\ a \in AllStrings
      /\ b \in Seq(Seq(Tokens))
      /\ \A k \in DOMAIN b : IsString(b[k])
  BY DEF IsReview, AllStrings
<1> HIDE DEF a, b
<1>2. b \in Seq(AllStrings)
  <2>1. Len(b) \in Nat /\ b \in [1..Len(b) -> Seq(Tokens)]
    BY <1>1, LenProperties
  <2>2. b \in [1..Len(b) -> AllStrings]
    BY <1>1, <2>1 DEF AllStrings
  <2> QED
    BY <2>1, <2>2
<1>3. u \in Seq(AllStrings) /\ Len(u) = 1 /\ u[1] = a /\ Len(b) \in Nat
  BY <1>1, <1>2, LenProperties
<1> HIDE DEF u
<1>4. w \in Seq(AllStrings) /\ Follows(w, u, b, 1, Len(b))
  BY <1>2, <1>3, ConcatFollows
<1> HIDE DEF w
<1>5. Len(w) = 1 + Len(b) /\ w[1] = a /\ \A i \in 1..Len(b) : w[1 + i] = b[i]
  BY <1>3, <1>4 DEF Follows
<1>6. w # <<>>
  BY <1>3, <1>5
<1>7. Tail(w) = b
  <2>1. /\ Tail(w) \in Seq(AllStrings)
        /\ Len(Tail(w)) = Len(w) - 1
        /\ \A i \in 1..Len(Tail(w)) : Tail(w)[i] = w[i + 1]
    BY <1>4, <1>6, HeadTailProperties
  <2>2. Len(Tail(w)) = Len(b) /\ \A i \in 1..Len(b) : Tail(w)[i] = b[i]
    BY <1>3, <1>5, <2>1
  <2> QED
    BY <1>2, <2>1, <2>2, SeqEqual
<1>8. Head(w) = a
  BY <1>4, <1>5, <1>6
<1>9. Texts(review) = w
  BY DEF Texts, w, u, a, b
<1> QED
  BY <1>1, <1>4, <1>6, <1>7, <1>8, <1>9 DEF Review

\* The document of a review.
LEMMA DocumentProperties ==
    ASSUME NEW review, IsReview(review)
    PROVE  /\ Marshal(review) \in Seq(Tokens)
           /\ 3 <= Len(Marshal(review))
           /\ Marshal(review)[1] = Open /\ Marshal(review)[2] = Good
           /\ Marshal(review)[Len(Marshal(review))] = Close
           /\ \E p : /\ Layout(p, Texts(review), Marshal(review))
                     /\ Len(Marshal(review)) = p[Len(Texts(review))] + 1
<1> DEFINE doc == Marshal(review)
           X   == Texts(review)
<1>1. X \in Seq(AllStrings) /\ X \in Seq(Seq(Tokens))
  BY TextsProperties, StringsAreTexts
<1>2. doc \in Seq(Tokens) /\ \E p : Layout(p, X, doc) /\ Len(doc) = p[Len(X)] + 1
  BY <1>1, TokensType, MarshalProperties
<1> HIDE DEF doc, X
<1>3. PICK p : Layout(p, X, doc) /\ Len(doc) = p[Len(X)] + 1
  BY <1>2
<1>4. /\ doc[1] = Open /\ doc[2] = Good /\ doc[Len(doc)] = Close
  BY <1>3 DEF Layout
<1>5. 3 <= Len(doc)
  <2>1. Len(X) \in Nat /\ \A k \in 0..Len(X) : p[k] \in Nat /\ 2 <= p[k]
    BY <1>1, <1>2, <1>3, LayoutBounds
  <2>2. Len(X) \in 0..Len(X)
    BY <2>1
  <2> QED
    BY <1>3, <2>1, <2>2
<1> QED
  BY <1>2, <1>4, <1>5 DEF doc, X

\* Parse reads the review whose document stands in the text that is left without fences.
LEMMA ParseBehind ==
    ASSUME NEW s, StripFences(s) \in Seq(Tokens), NEW review, IsReview(review),
           NEW a \in Nat, Behind(StripFences(s), a, Marshal(review))
    PROVE  Parse(s) = review
<1> DEFINE t   == StripFences(s)
           u   == Outermost(t)
           v   == RemoveTrailingCommas(u)
           doc == Marshal(review)
           X   == Texts(review)
<1>1. doc \in Seq(Tokens) /\ 3 <= Len(doc) /\ doc[1] = Open
  BY DocumentProperties
<1>2. PICK p : Layout(p, X, doc) /\ Len(doc) = p[Len(X)] + 1
  BY DocumentProperties
<1>3. X \in Seq(AllStrings) /\ X # <<>> /\ review = Review(Head(X), Tail(X))
  BY TextsProperties
<1>4. t \in Seq(Tokens) /\ Behind(t, a, doc)
  OBVIOUS
<1>5. v = Repair(s)
  BY DEF Repair
<1> HIDE DEF t, doc, X
<1>6. u \in Seq(Tokens) /\ Leads(u, doc)
  BY <1>1, <1>4, OutermostBehind
<1> HIDE DEF u
<1>7. /\ v \in Seq(Tokens)
      /\ Len(doc) <= Len(v)
      /\ \A j \in 1..Len(doc) : v[j] = doc[j]
  BY <1>1, <1>2, <1>3, <1>6, CommasDropped
<1> HIDE DEF v
<1>8. Layout(p, X, v)
  BY <1>1, <1>2, <1>3, <1>7, LayoutPrefix
<1>9. Decode(v) = review
  BY <1>3, <1>7, <1>8, DecodeLayout
<1>10. Valid(review)
  BY DEF IsReview
<1> QED
  BY <1>5, <1>9, <1>10 DEF Parse

\* The document with a comma before its last brace, or without.
Ended(body, doc) ==
    /\ body \in Seq(Tokens)
    /\ \A j \in 1..Len(doc) - 1 : body[j] = doc[j]
    /\ \/ Len(body) = Len(doc) /\ body[Len(doc)] = Close
       \/ Len(body) = Len(doc) + 1 /\ body[Len(doc)] = Comma /\ body[Len(doc) + 1] = Close

\* What the model makes of the document.
LEMMA BodyEnded ==
    ASSUME NEW doc \in Seq(Tokens), 3 <= Len(doc), doc[Len(doc)] = Close, NEW comma \in BOOLEAN
    PROVE  Ended(IF comma THEN Front(doc) \o <<Comma, Close>> ELSE doc, doc)
<1> DEFINE n == Len(doc)
           u == SubSeq(doc, 1, n - 1)
           v == <<Comma, Close>>
           w == u \o v
<1>1. n \in Nat
  BY LenProperties
<1>2. CASE ~comma
  BY <1>2 DEF Ended
<1>3. u \in Seq(Tokens) /\ Len(u) = n - 1 /\ \A j \in 1..n - 1 : u[j] = doc[j]
  <2>1. \A i \in 1..n - 1 : doc[i] \in Tokens
    <3> SUFFICES ASSUME NEW i \in 1..n - 1 PROVE doc[i] \in Tokens
      OBVIOUS
    <3>1. i \in 1..n
      BY <1>1
    <3> QED
      BY <3>1, ElementOfSeq
  <2>2. /\ u \in Seq(Tokens)
        /\ Len(u) = IF 1 <= n - 1 THEN (n - 1) - 1 + 1 ELSE 0
        /\ \A i \in 1..(n - 1) - 1 + 1 : u[i] = doc[1 + i - 1]
    <3>1. 1 \in Int /\ n - 1 \in Int
      BY <1>1
    <3> QED
      BY <2>1, <3>1, SubSeqProperties
  <2> HIDE DEF u
  <2>3. 1 <= n - 1 /\ (n - 1) - 1 + 1 = n - 1 /\ \A i \in 1..n - 1 : 1 + i - 1 = i
    BY <1>1
  <2> QED
    BY <2>2, <2>3
<1>4. v \in Seq(Tokens) /\ Len(v) = 2 /\ v[1] = Comma /\ v[2] = Close
  BY DEF Tokens
<1>5. Front(doc) = u
  BY DEF Front
<1> HIDE DEF u, v
<1>6. w \in Seq(Tokens) /\ Follows(w, u, v, n - 1, 2)
  BY <1>3, <1>4, ConcatFollows
<1>7. Front(doc) \o <<Comma, Close>> = w
  BY <1>5 DEF v
<1> HIDE DEF w
<1>8. Ended(w, doc)
  <2>1. /\ Len(w) = (n - 1) + 2
        /\ \A i \in 1..n - 1 : w[i] = doc[i]
        /\ w[(n - 1) + 1] = Comma /\ w[(n - 1) + 2] = Close
    BY <1>3, <1>4, <1>6 DEF Follows
  <2>2. (n - 1) + 2 = n + 1 /\ (n - 1) + 1 = n
    BY <1>1
  <2> QED
    BY <1>6, <2>1, <2>2 DEF Ended
<1> QED
  BY <1>2, <1>7, <1>8

\* Where a reply has its parts: i tokens of prose, a fence or none, and the document with its
\* comma up to position e.
Shaped(s, i, c, e, doc) ==
    /\ Behind(s, c, doc)
    /\ e <= Len(s) /\ c + Len(doc) <= e /\ s[e] = Close
    /\ e = c + Len(doc) \/ (e = c + Len(doc) + 1 /\ s[c + Len(doc)] = Comma)
    /\ \A j \in 1..i : s[j] # Fence
    /\ \A j \in 1..Len(s) : s[j] = Good => j = c + 2
    /\ \/ c = i /\ \A j \in e + 1..Len(s) : s[j] # Fence
       \/ /\ c = i + 1 /\ s[c] = Fence
          /\ e + 1 <= Len(s) /\ s[e + 1] = Fence
          /\ \A j \in e + 2..Len(s) : s[j] # Fence

\* The document in its fence or not, behind the prose.
LEMMA ShapedOf ==
    ASSUME NEW s \in Seq(Tokens), NEW doc \in Seq(Tokens), 3 <= Len(doc), NEW body, Ended(body, doc),
           NEW inFence \in BOOLEAN, NEW before \in Seq(Tokens), NEW after \in Seq(Tokens),
           NEW X, X = (IF inFence THEN <<Fence>> \o body \o <<Fence>> ELSE body),
           s = before \o X \o after,
           \A j \in 1..Len(before) : before[j] # Open /\ before[j] # Fence,
           \A j \in 1..Len(after) : after[j] # Fence,
           \A j \in 1..Len(s) : s[j] = Good => j = Len(before) + (IF inFence THEN 3 ELSE 2)
    PROVE  \E c \in Nat, e \in Nat : Shaped(s, Len(before), c, e, doc)
<1> DEFINE i == Len(before)
           n == Len(doc)
           l == Len(body)
           d == IF inFence THEN 1 ELSE 0
           k == Len(X)
           u == before \o X
           c == i + d
           e == c + l
<1>1. i \in Nat /\ n \in Nat /\ l \in Nat /\ Len(after) \in Nat /\ Len(s) \in Nat /\ body \in Seq(Tokens)
      /\ (l = n \/ l = n + 1) /\ d \in Nat /\ k = k
  <2>1. body \in Seq(Tokens) /\ (Len(body) = n \/ Len(body) = n + 1)
    BY DEF Ended
  <2> QED
    BY <2>1, LenProperties
<1>2. /\ X \in Seq(Tokens)
      /\ Len(X) = l + 2 * d
      /\ \A j \in 1..l : X[d + j] = body[j]
      /\ inFence => X[1] = Fence /\ X[l + 2] = Fence
  <2>1. CASE inFence
    <3> DEFINE f == <<Fence>>
               y == f \o body
               z == y \o f
               r == l + 1
    <3>1. f \in Seq(Tokens) /\ Len(f) = 1 /\ f[1] = Fence
      BY TokensType
    <3> HIDE DEF f
    <3>2. y \in Seq(Tokens) /\ Follows(y, f, body, 1, l)
      BY <1>1, <3>1, ConcatFollows
    <3> HIDE DEF y
    <3>3. Len(y) = r /\ y[1] = Fence /\ (\A j \in 1..l : y[1 + j] = body[j]) /\ r \in Nat /\ 1 <= r
      <4>1. Len(y) = 1 + l /\ y[1] = f[1] /\ \A j \in 1..l : y[1 + j] = body[j]
        BY <3>2 DEF Follows
      <4> QED
        BY <1>1, <3>1, <4>1
    <3>4. \A j \in 1..l : 1 + j \in 1..r
      BY <1>1
    <3>5. r + 1 = l + 2 /\ l + 2 * 1 = r + 1
      BY <1>1
    <3> HIDE DEF r, l
    <3>6. z \in Seq(Tokens) /\ Follows(z, y, f, r, 1)
      BY <3>1, <3>2, <3>3, ConcatFollows
    <3> HIDE DEF z
    <3>7. Len(z) = r + 1 /\ (\A j \in 1..r : z[j] = y[j]) /\ z[r + 1] = Fence
      BY <3>1, <3>6 DEF Follows
    <3>8. z[1] = Fence
      <4>1. 1 \in 1..r
        BY <3>3
      <4> QED
        BY <3>3, <3>7, <4>1
    <3>9. \A j \in 1..l : z[1 + j] = body[j]
      BY <3>3, <3>4, <3>7
    <3>10. X = z /\ d = 1
      BY <2>1 DEF z, y, f
    <3> QED
      BY <3>5, <3>6, <3>7, <3>8, <3>9, <3>10
  <2>2. CASE ~inFence
    <3>1. X = body /\ d = 0 /\ l + 2 * 0 = l /\ \A j \in 1..l : 0 + j = j
      BY <1>1, <2>2
    <3> QED
      BY <1>1, <2>2, <3>1
  <2> QED
    BY <2>1, <2>2
<1> DEFINE q == i + k
<1>3. d \in {0, 1} /\ (inFence <=> d = 1) /\ k = l + 2 * d /\ k \in Nat /\ q \in Nat
  <2>1. k = l + 2 * d
    BY <1>2
  <2> QED
    BY <1>1, <2>1
<1>4. u \in Seq(Tokens) /\ Follows(u, before, X, i, k)
  BY <1>2, ConcatFollows
<1>5. Len(u) = q /\ (\A j \in 1..i : u[j] = before[j]) /\ \A j \in 1..k : u[i + j] = X[j]
  BY <1>4 DEF Follows
<1>6. s = u \o after
  OBVIOUS
<1> HIDE DEF u, q, k
<1>7. Follows(s, u, after, q, Len(after))
  <2>1. Follows(u \o after, u, after, q, Len(after))
    BY <1>4, <1>5, ConcatFollows
  <2> QED
    BY <1>6, <2>1
<1>8. /\ Len(s) = q + Len(after)
      /\ \A j \in 1..q : s[j] = u[j]
      /\ \A j \in 1..Len(after) : s[q + j] = after[j]
  BY <1>7 DEF Follows
<1> HIDE DEF d, i, l, n
<1>9. q = i + l + 2 * d
  BY <1>1, <1>3 DEF q
<1>10. /\ \A j \in 1..i : s[j] # Open /\ s[j] # Fence
       /\ \A j \in q + 1..Len(s) : s[j] # Fence
  <2>1. ASSUME NEW j \in 1..i PROVE s[j] # Open /\ s[j] # Fence
    <3>1. j \in 1..q
      BY <1>1, <1>3, <1>9
    <3>2. s[j] = before[j]
      BY <1>5, <1>8, <3>1
    <3> QED
      BY <3>2 DEF i
  <2>2. ASSUME NEW j \in q + 1..Len(s) PROVE s[j] # Fence
    <3>1. j - q \in 1..Len(after) /\ q + (j - q) = j
      BY <1>1, <1>3, <1>8
    <3>2. s[q + (j - q)] = after[j - q]
      BY <1>8, <3>1
    <3> QED
      BY <3>1, <3>2
  <2> QED
    BY <2>1, <2>2
<1>11. ASSUME NEW j \in 1..l PROVE s[c + j] = body[j]
  <2>1. d + j \in 1..k /\ i + (d + j) \in 1..q /\ i + (d + j) = c + j
    BY <1>1, <1>3, <1>9
  <2>2. s[i + (d + j)] = X[d + j] /\ X[d + j] = body[j]
    BY <1>2, <1>5, <1>8, <2>1 DEF l
  <2> QED
    BY <2>1, <2>2
<1>12. c \in Nat /\ e \in Nat /\ e <= Len(s) /\ q = e + d /\ 3 <= n
  <2>1. 3 <= n
    BY DEF n
  <2>2. Len(s) = q + Len(after)
    BY <1>8
  <2> QED
    BY ONLY <1>1, <1>3, <1>9, <2>1, <2>2
<1>13. d = 1 => s[i + 1] = Fence /\ s[e + 1] = Fence
  <2> SUFFICES ASSUME d = 1 PROVE s[i + 1] = Fence /\ s[e + 1] = Fence
    OBVIOUS
  <2>1. X[1] = Fence /\ X[l + 2] = Fence
    BY <1>2, <1>3 DEF l
  <2>2. 1 \in 1..k /\ l + 2 \in 1..k /\ i + 1 \in 1..q /\ i + (l + 2) \in 1..q /\ i + (l + 2) = e + 1
    BY <1>1, <1>3, <1>9
  <2>3. s[i + 1] = X[1] /\ s[i + (l + 2)] = X[l + 2]
    BY <1>5, <1>8, <2>2
  <2> QED
    BY <2>1, <2>2, <2>3
<1>14. /\ \A j \in 1..n - 1 : body[j] = doc[j]
       /\ \/ l = n /\ body[n] = Close
          \/ l = n + 1 /\ body[n] = Comma /\ body[n + 1] = Close
  BY DEF Ended, l, n
<1>15. /\ \A j \in 1..n - 1 : s[c + j] = doc[j]
       /\ s[c + n] = body[n]
       /\ l = n + 1 => s[c + (n + 1)] = body[n + 1]
  <2>1. ASSUME NEW j \in 1..n - 1 PROVE s[c + j] = doc[j]
    <3>1. j \in 1..l
      BY <1>1, <1>14
    <3> QED
      BY <1>11, <1>14, <3>1
  <2>2. n \in 1..l /\ (l = n + 1 => n + 1 \in 1..l)
    BY <1>1, <1>12, <1>14
  <2> HIDE DEF c
  <2> QED
    BY <1>11, <2>1, <2>2
<1>16. \A j \in 1..c : s[j] # Open
  <2> SUFFICES ASSUME NEW j \in 1..c PROVE s[j] # Open
    OBVIOUS
  <2>1. j \in 1..i \/ (d = 1 /\ j = i + 1)
    BY <1>1, <1>3
  <2> QED
    BY <1>10, <1>13, <2>1, TokensDiffer
<1>17. \A j \in 1..Len(s) : s[j] = Good => j = c + 2
  <2>1. (IF inFence THEN 3 ELSE 2) = d + 2 /\ i + (d + 2) = c + 2
    BY <1>1, <1>3 DEF d
  <2> QED
    BY <2>1 DEF i
<1>18. \/ l = n /\ e = c + n /\ s[c + n] = Close
       \/ l = n + 1 /\ e = c + n + 1 /\ s[c + n] = Comma /\ s[c + n + 1] = Close
  <2>1. c + (n + 1) = c + n + 1
    BY <1>1, <1>12
  <2> QED
    BY <1>1, <1>14, <1>15, <2>1
<1> HIDE DEF c, e
<1>19. Behind(s, c, doc)
  <2>1. \A j \in 1..n - 1 : s[c + j] = doc[j]
    BY <1>15
  <2>2. c + n <= Len(s) /\ (e = c + n + 1 => c + n + 1 <= Len(s))
    <3>1. e = c + n \/ e = c + n + 1
      BY <1>18
    <3> QED
      BY ONLY <1>1, <1>12, <3>1
  <2> QED
    BY <1>16, <1>18, <2>1, <2>2 DEF Behind, n
<1>20. c + n <= e /\ s[e] = Close
  <2>1. (e = c + n \/ e = c + n + 1) /\ s[e] = Close
    BY <1>18
  <2> QED
    BY ONLY <1>1, <1>12, <2>1
<1>21. \/ c = i /\ \A j \in e + 1..Len(s) : s[j] # Fence
       \/ /\ c = i + 1 /\ s[c] = Fence
          /\ e + 1 <= Len(s) /\ s[e + 1] = Fence
          /\ \A j \in e + 2..Len(s) : s[j] # Fence
  <2>1. CASE d = 0
    <3>1. q = e /\ c = i
      BY <1>1, <1>12, <2>1 DEF c
    <3> QED
      BY <1>10, <3>1
  <2>2. CASE d = 1
    <3>1. q = e + 1 /\ c = i + 1 /\ q + 1 = e + 2 /\ e + 1 <= Len(s)
      BY <1>1, <1>3, <1>8, <1>12, <2>2 DEF c
    <3> QED
      BY <1>10, <1>13, <2>2, <3>1
  <2> QED
    BY <1>3, <2>1, <2>2
<1>22. Shaped(s, i, c, e, doc)
  BY <1>10, <1>12, <1>17, <1>18, <1>19, <1>20, <1>21 DEF Shaped, n
<1> QED
  BY <1>12, <1>22 DEF i

\* A part of a text.
LEMMA PartOf ==
    ASSUME NEW T, NEW s \in Seq(T), NEW a \in Nat, NEW b \in Int, 1 <= a, b <= Len(s)
    PROVE  /\ SubSeq(s, a, b) \in Seq(T)
           /\ Len(SubSeq(s, a, b)) = IF a <= b THEN b - a + 1 ELSE 0
           /\ \A j \in 1..b - a + 1 : SubSeq(s, a, b)[j] = s[a + j - 1]
<1>1. Len(s) \in Nat
  BY LenProperties
<1>2. \A i \in a..b : s[i] \in T
  <2> SUFFICES ASSUME NEW i \in a..b PROVE s[i] \in T
    OBVIOUS
  <2>1. i \in 1..Len(s)
    BY <1>1
  <2> QED
    BY <2>1, ElementOfSeq
<1> QED
  BY <1>2, SubSeqProperties

\* A reply that holds a review has this shape.
LEMMA HoldsShaped ==
    ASSUME NEW text \in Seq(Tokens), NEW review, IsReview(review), Holds(text, review)
    PROVE  \E i \in Nat, c \in Nat, e \in Nat : Shaped(text, i, c, e, Marshal(review))
<1> DEFINE doc == Marshal(review)
           body(comma) == IF comma THEN Front(doc) \o <<Comma, Close>> ELSE doc
           wrap(comma, inFence) == IF inFence THEN <<Fence>> \o body(comma) \o <<Fence>> ELSE body(comma)
           before(i) == SubSeq(text, 1, i)
           n(i, comma, inFence) == i + Len((<<>> \o wrap(comma, inFence)) \o <<>>)
           after(i, comma, inFence) == SubSeq(text, n(i, comma, inFence) + 1, Len(text))
<1>1. doc \in Seq(Tokens) /\ 3 <= Len(doc) /\ doc[Len(doc)] = Close
  BY DocumentProperties
<1>2. Len(text) \in Nat
  BY LenProperties
<1>3. PICK i \in 0..Len(text), comma \in BOOLEAN, inFence \in BOOLEAN :
         /\ text = before(i) \o wrap(comma, inFence) \o after(i, comma, inFence)
         /\ ~Contains(before(i), Open) /\ ~Contains(before(i), Fence)
         /\ ~Contains(after(i, comma, inFence), Fence)
         /\ \A j \in 1..Len(text) : text[j] = Good => j = i + (IF inFence THEN 3 ELSE 2)
  BY DEF Holds, Reply
<1> DEFINE B == body(comma)
           X == wrap(comma, inFence)
           A == before(i)
           Z == after(i, comma, inFence)
           m == n(i, comma, inFence)
<1>4. Ended(B, doc)
  <2> HIDE DEF doc
  <2> QED
    BY <1>1, BodyEnded
<1>5. X = IF inFence THEN <<Fence>> \o B \o <<Fence>> ELSE B
  OBVIOUS
<1>6. m = i + Len((<<>> \o X) \o <<>>)
  OBVIOUS
<1>7. A = SubSeq(text, 1, i) /\ Z = SubSeq(text, m + 1, Len(text))
  OBVIOUS
<1>8. /\ text = A \o X \o Z
      /\ ~Contains(A, Open) /\ ~Contains(A, Fence) /\ ~Contains(Z, Fence)
  BY <1>3
<1> HIDE DEF doc, B, X, A, Z, m
<1>9. X \in Seq(Tokens)
  <2>1. B \in Seq(Tokens)
    BY <1>4 DEF Ended
  <2>2. <<Fence>> \in Seq(Tokens)
    BY TokensType
  <2> DEFINE f == <<Fence>>
  <2> HIDE DEF f
  <2>3. f \o B \in Seq(Tokens) /\ (f \o B) \o f \in Seq(Tokens)
    <3>1. f \in Seq(Tokens)
      BY <2>2 DEF f
    <3>2. f \o B \in Seq(Tokens)
      BY <2>1, <3>1, ConcatProperties
    <3> QED
      BY <3>1, <3>2, ConcatProperties
  <2> QED
    BY <1>5, <2>1, <2>3 DEF f
<1>10. m \in Nat
  <2> DEFINE o == <<>>
  <2>1. o \in Seq(Tokens)
    OBVIOUS
  <2> HIDE DEF o
  <2>2. o \o X \in Seq(Tokens) /\ (o \o X) \o o \in Seq(Tokens)
    BY <1>9, <2>1, ConcatProperties
  <2>3. Len((o \o X) \o o) \in Nat
    BY <2>2, LenProperties
  <2>4. m = i + Len((o \o X) \o o)
    BY <1>6 DEF o
  <2> QED
    BY <1>2, <2>3, <2>4
<1>11. A \in Seq(Tokens) /\ Len(A) = i
  <2>1. 1 \in Nat /\ i \in Int /\ 1 <= 1 /\ i <= Len(text)
    BY <1>2
  <2>2. A \in Seq(Tokens) /\ Len(A) = IF 1 <= i THEN i - 1 + 1 ELSE 0
    BY <1>7, <2>1, PartOf
  <2> QED
    BY <1>2, <2>2
<1>12. Z \in Seq(Tokens)
  <2>1. m + 1 \in Nat /\ Len(text) \in Int /\ 1 <= m + 1 /\ Len(text) <= Len(text)
    BY <1>2, <1>10
  <2> QED
    BY <1>7, <2>1, PartOf
<1>13. /\ \A j \in 1..Len(A) : A[j] # Open /\ A[j] # Fence
       /\ \A j \in 1..Len(Z) : Z[j] # Fence
       /\ \A j \in 1..Len(text) : text[j] = Good => j = Len(A) + (IF inFence THEN 3 ELSE 2)
  BY <1>3, <1>8, <1>11 DEF Contains
<1>14. \E c \in Nat, e \in Nat : Shaped(text, Len(A), c, e, doc)
  BY <1>1, <1>4, <1>5, <1>8, <1>11, <1>12, <1>13, ShapedOf
<1>15. i \in Nat
  BY <1>2
<1> QED
  BY <1>11, <1>14, <1>15 DEF doc

\* Parse reads a review out of a reply that holds it, or, if there is a code fence in the review,
\* nothing.
THEOREM ReplyRead ==
    ASSUME NEW text \in Seq(Tokens), NEW review, IsReview(review), Holds(text, review)
    PROVE  Parse(text) = review \/ (Parse(text) = Unreadable /\ Fenced(review))
<1> DEFINE doc == Marshal(review)
           n   == Len(doc)
           P   == Places(text, Fence)
           t   == StripFences(text)
<1>1. PICK i \in Nat, c \in Nat, e \in Nat : Shaped(text, i, c, e, doc)
  BY HoldsShaped
<1>2. doc \in Seq(Tokens) /\ 3 <= n /\ doc[1] = Open /\ doc[2] = Good
  BY DocumentProperties
<1>3. Len(text) \in Nat /\ n \in Nat
  BY <1>2, LenProperties
<1>4. review.ok
  BY DEF IsReview
<1>5. /\ Behind(text, c, doc)
      /\ e <= Len(text) /\ c + n <= e /\ text[e] = Close
      /\ e = c + n \/ (e = c + n + 1 /\ text[c + n] = Comma)
      /\ \A j \in 1..i : text[j] # Fence
      /\ \A j \in 1..Len(text) : text[j] = Good => j = c + 2
      /\ \/ c = i /\ \A j \in e + 1..Len(text) : text[j] # Fence
         \/ /\ c = i + 1 /\ text[c] = Fence
            /\ e + 1 <= Len(text) /\ text[e + 1] = Fence
            /\ \A j \in e + 2..Len(text) : text[j] # Fence
  BY <1>1 DEF Shaped
<1>6. /\ \A j \in 1..c : text[j] # Open
      /\ \A j \in 1..n - 1 : text[c + j] = doc[j]
      /\ \/ c + n <= Len(text) /\ text[c + n] = Close
         \/ c + n + 1 <= Len(text) /\ text[c + n] = Comma /\ text[c + n + 1] = Close
  BY <1>5 DEF Behind
<1> HIDE DEF doc, P
<1>7. CASE P = {}
  <2>1. t = text
    BY <1>7, StripFencesDef DEF P
  <2>2. Parse(text) = review
    BY <1>5, <2>1, ParseBehind DEF doc
  <2> QED
    BY <2>2
<1>8. CASE P # {} /\ c = i
  <2> DEFINE f == Min(P)
             z == Max(P)
             b == IF z = f THEN Len(text) ELSE z - 1
  <2>1. f \in 1..Len(text) /\ text[f] = Fence /\ z \in 1..Len(text)
    BY <1>8, PlacesBounds DEF P
  <2>2. t = SubSeq(text, f + 1, b)
    BY <1>8, StripFencesDef DEF P
  <2> HIDE DEF f, z, t
  <2>3. c < f /\ f <= e
    <3>1. f \notin 1..c /\ f \notin e + 1..Len(text)
      BY <1>3, <1>5, <1>8, <2>1, TokensDiffer
    <3> QED
      BY <1>3, <2>1, <3>1
  <2>4. f - c \in 1..n - 1 /\ doc[f - c] = Fence
    <3>1. f # c + n
      BY <1>5, <1>6, <2>1, TokensDiffer
    <3>2. f # e
      BY <1>5, <2>1, TokensDiffer
    <3>3. f - c \in 1..n - 1 /\ c + (f - c) = f
      <4>1. e = c + n \/ e = c + n + 1
        BY <1>5
      <4>2. f \in Nat
        BY <2>1
      <4> QED
        BY ONLY <1>3, <2>3, <3>1, <3>2, <4>1, <4>2, c \in Nat, e \in Nat
    <3> QED
      BY <1>6, <2>1, <3>3
  <2>5. Fenced(review)
    <3>1. f - c \in 1..Len(doc)
      BY <1>3, <2>4
    <3> QED
      BY <1>4, <2>4, <3>1 DEF Fenced, Contains, doc
  <2>6. c + 2 < f
    <3>1. f - c # 1 /\ f - c # 2
      BY <1>2, <2>4, TokensDiffer
    <3> QED
      BY <2>1, <2>3, <3>1
  <2>7. t \in Seq(Tokens \ {Good})
    <3>1. b \in Int /\ b <= Len(text)
      BY <1>3, <2>1
    <3> HIDE DEF b
    <3>2. ASSUME NEW j \in f + 1..b PROVE text[j] \in Tokens \ {Good}
      <4>1. j \in 1..Len(text) /\ j # c + 2
        BY <1>3, <2>1, <2>6, <3>1
      <4>2. text[j] \in Tokens
        BY <4>1, ElementOfSeq
      <4> QED
        BY <1>5, <4>1, <4>2
    <3>3. f + 1 \in Int
      BY <2>1
    <3> DEFINE T == Tokens \ {Good}
    <3>4. \A j \in f + 1..b : text[j] \in T
      BY <3>2
    <3> HIDE DEF T
    <3>5. t \in Seq(T)
      BY <2>2, <3>1, <3>3, <3>4, SubSeqProperties
    <3> QED
      BY <3>5 DEF T
  <2>8. Parse(text) = Unreadable
    BY <2>7, NoVerdict DEF t
  <2> QED
    BY <2>5, <2>8
<1>9. CASE P # {} /\ c # i
  <2>1. /\ c = i + 1 /\ text[c] = Fence
        /\ e + 1 <= Len(text) /\ text[e + 1] = Fence
        /\ \A j \in e + 2..Len(text) : text[j] # Fence
    BY <1>5, <1>9
  <2>2. c < e /\ c \in 1..Len(text) /\ e + 1 \in 1..Len(text)
    BY <1>2, <1>3, <1>5, <2>1
  <2>3. c \in P /\ e + 1 \in P
    BY <2>1, <2>2 DEF P, Places
  <2>4. /\ Min(P) \in 1..Len(text) /\ text[Min(P)] = Fence /\ Min(P) <= c
        /\ Max(P) \in 1..Len(text) /\ text[Max(P)] = Fence /\ e + 1 <= Max(P)
    BY <1>9, <2>3, PlacesBounds DEF P
  <2>5. Min(P) = c
    <3>1. Min(P) \notin 1..i
      BY <1>5, <2>4
    <3> QED
      BY <1>3, <2>1, <2>4, <3>1
  <2>6. Max(P) = e + 1
    <3>1. Max(P) \notin e + 2..Len(text)
      BY <2>1, <2>4
    <3> QED
      BY <1>3, <2>4, <3>1
  <2>7. t = SubSeq(text, c + 1, e)
    <3>1. t = SubSeq(text, c + 1, IF e + 1 = c THEN Len(text) ELSE (e + 1) - 1)
      BY <1>9, <2>5, <2>6, StripFencesDef DEF P
    <3>2. e + 1 # c /\ (e + 1) - 1 = e
      BY <2>2
    <3> HIDE DEF t
    <3> QED
      BY <3>1, <3>2
  <2> HIDE DEF t
  <2>8. /\ t \in Seq(Tokens)
        /\ Len(t) = e - c
        /\ \A j \in 1..e - c : t[j] = text[c + j]
    <3>1. c + 1 \in Nat /\ e \in Int /\ 1 <= c + 1 /\ e <= Len(text)
      BY <1>5
    <3>2. /\ t \in Seq(Tokens)
          /\ Len(t) = IF c + 1 <= e THEN e - (c + 1) + 1 ELSE 0
          /\ \A j \in 1..e - (c + 1) + 1 : t[j] = text[(c + 1) + j - 1]
      BY <2>7, <3>1, PartOf
    <3>3. c + 1 <= e /\ e - (c + 1) + 1 = e - c /\ \A j \in 1..e - c : (c + 1) + j - 1 = c + j
      BY <2>2
    <3> QED
      BY <3>2, <3>3
  <2> DEFINE a == 0
  <2>9. Behind(t, a, doc)
    <3>1. ASSUME NEW j \in 1..n - 1 PROVE t[a + j] = doc[j]
      <4>1. a + j = j /\ j \in 1..e - c
        BY <1>3, <1>5
      <4> QED
        BY <1>6, <2>8, <4>1
    <3>2. a + n = n /\ a + n + 1 = n + 1 /\ n \in 1..e - c /\ (e = c + n + 1 => n + 1 \in 1..e - c)
          /\ c + (n + 1) = c + n + 1
      BY <1>2, <1>3, <1>5
    <3>3. t[n] = text[c + n] /\ (e = c + n + 1 => t[n + 1] = text[c + n + 1])
      <4>1. n \in 1..e - c
        BY <3>2
      <4>2. t[n] = text[c + n]
        BY <2>8, <4>1
      <4>3. ASSUME e = c + n + 1 PROVE t[n + 1] = text[c + n + 1]
        <5>1. n + 1 \in 1..e - c /\ c + (n + 1) = c + n + 1
          BY <3>2, <4>3
        <5>2. t[n + 1] = text[c + (n + 1)]
          BY <2>8, <5>1
        <5> QED
          BY <5>1, <5>2
      <4> QED
        BY <4>2, <4>3
    <3>4. \/ e = c + n /\ t[n] = Close /\ n <= Len(t)
          \/ t[n] = Comma /\ t[n + 1] = Close /\ n + 1 <= Len(t)
      <4>1. CASE e = c + n
        BY <1>5, <2>8, <3>2, <3>3, <4>1
      <4>2. CASE e = c + n + 1 /\ text[c + n] = Comma
        BY <1>5, <2>8, <3>2, <3>3, <4>2
      <4> QED
        BY <1>5, <4>1, <4>2
    <3>5. \A j \in 1..a : t[j] # Open
      OBVIOUS
    <3> HIDE DEF a
    <3> QED
      BY <3>1, <3>2, <3>4, <3>5 DEF Behind
  <2>10. Parse(text) = review
    <3>1. a \in Nat
      OBVIOUS
    <3> HIDE DEF a
    <3> QED
      BY <2>8, <2>9, <3>1, ParseBehind DEF t, doc
  <2> QED
    BY <2>10
<1> QED
  BY <1>7, <1>8, <1>9
-----------------------------------------------------------------------------
(* Strings of strings. *)

\* The string "text".
LEMMA TextString == <<"text">> \in AllStrings
<1> DEFINE x == <<"text">>
           t == <<Quote>> \o x
<1>1. x \in Seq(Tokens) /\ Len(x) = 1 /\ x[1] = "text"
  BY TokensType
<1> HIDE DEF x
<1>2. /\ t \in Seq(Tokens) /\ Follows(t, <<Quote>>, x, 1, Len(x)) /\ t[1] = Quote
  BY <1>1, QuotedString
<1> HIDE DEF t
<1>3. Len(t) = 2 /\ t[2] = "text"
  BY <1>1, <1>2 DEF Follows
<1>4. Mode(t)[0] = "out" /\ Mode(t)[1] = Step(Mode(t)[0], t[1]) /\ Mode(t)[2] = Step(Mode(t)[1], t[2])
  BY <1>2, <1>3, ModeDef
<1>5. Mode(t)[1] = "in" /\ Mode(t)[2] = "in"
  <2>1. Step("in", "text") = "in"
    BY TokensDiffer DEF Step
  <2> QED
    BY <1>2, <1>3, <1>4, <2>1, StepQuote
<1>6. IsString(x)
  <2>1. \A i \in 1..Len(x) + 1 : i = 1 \/ i = 2
    BY <1>1
  <2> QED
    BY <1>1, <1>5, <2>1 DEF IsString, t
<1> QED
  BY <1>1, <1>6 DEF AllStrings, x

\* One string behind the other is a string.
LEMMA StringConcat ==
    ASSUME NEW x \in AllStrings, NEW y \in AllStrings
    PROVE  x \o y \in AllStrings
<1> DEFINE z == x \o y
           s == <<Quote>> \o z
           t == <<Quote>> \o y
           l == Len(x)
           k == Len(y)
           a == 1 + l
           b == 1
<1>1. x \in Seq(Tokens) /\ y \in Seq(Tokens) /\ IsString(y) /\ l \in Nat /\ k \in Nat
  <2>1. x \in Seq(Tokens) /\ y \in Seq(Tokens) /\ IsString(y)
    BY DEF AllStrings
  <2> QED
    BY <2>1, LenProperties
<1>2. z \in Seq(Tokens) /\ Follows(z, x, y, l, k)
  BY <1>1, ConcatFollows
<1> HIDE DEF z
<1>3. Len(z) = l + k /\ (\A j \in 1..l : z[j] = x[j]) /\ \A j \in 1..k : z[l + j] = y[j]
  BY <1>2 DEF Follows
<1>4. s \in Seq(Tokens) /\ Follows(s, <<Quote>>, z, 1, Len(z)) /\ s[1] = Quote
  BY <1>2, QuotedString
<1>5. t \in Seq(Tokens) /\ Follows(t, <<Quote>>, y, 1, k) /\ t[1] = Quote
  BY <1>1, QuotedString
<1> HIDE DEF s, t
<1>6. Len(s) = 1 + Len(z) /\ (\A j \in 1..Len(z) : s[1 + j] = z[j]) /\ Mode(s)[0] = "out"
  BY <1>4, ModeDef DEF Follows
<1>7. Len(t) = 1 + k /\ (\A j \in 1..k : t[1 + j] = y[j])
  BY <1>5 DEF Follows
<1>8. (\A i \in 1..k + 1 : Mode(t)[i] # "out") /\ Mode(t)[k + 1] = "in" /\ Mode(t)[1] = "in"
  <2>1. (\A i \in 1..k + 1 : Mode(t)[i] # "out") /\ Mode(t)[k + 1] = "in"
    BY <1>1 DEF IsString, t
  <2>2. Mode(t)[0] = "out" /\ Mode(t)[1] = Step(Mode(t)[0], t[1])
    <3>1. 1 \in 1..Len(t)
      BY <1>1, <1>7
    <3> QED
      BY <1>5, <3>1, ModeDef
  <2> QED
    BY <1>5, <2>1, <2>2, StepQuote
<1>9. /\ \A i \in 1..a : Mode(s)[i] # "out"
      /\ Mode(s)[a] = "in"
  <2> DEFINE o == 0
  <2>1. o \in Nat /\ o + 1 + l <= Len(s) /\ s[o + 1] = Quote /\ Mode(s)[o] = "out" /\ o + 1 + l = a /\ o + 1 = 1
    BY <1>1, <1>3, <1>4, <1>6
  <2>2. ASSUME NEW j \in 1..l PROVE s[o + 1 + j] = x[j]
    <3>1. j \in 1..Len(z) /\ o + 1 + j = 1 + j
      BY <1>1, <1>3
    <3> QED
      BY <1>3, <1>6, <3>1
  <2> HIDE DEF o, a
  <2>3. /\ \A i \in o + 1..o + 1 + l : Mode(s)[i] # "out"
        /\ Mode(s)[o + 1 + l] = "in"
    BY <1>4, <2>1, <2>2, InsideString
  <2> QED
    BY <2>1, <2>3
<1>10. \A j \in 0..k : Mode(s)[a + j] = Mode(t)[b + j]
  <2>1. ASSUME NEW j \in 1..k PROVE s[a + j] = t[b + j]
    <3>1. l + j \in 1..Len(z) /\ 1 + (l + j) = a + j /\ 1 + j = b + j
      BY <1>1, <1>3
    <3>2. s[1 + (l + j)] = z[l + j] /\ z[l + j] = y[j] /\ t[1 + j] = y[j]
      BY <1>3, <1>6, <1>7, <3>1
    <3> QED
      BY <3>1, <3>2
  <2>2. a \in Nat /\ b \in Nat /\ a + k <= Len(s) /\ b + k <= Len(t) /\ Mode(s)[a] = Mode(t)[b]
    BY <1>1, <1>3, <1>6, <1>7, <1>8, <1>9
  <2> HIDE DEF a, b
  <2>3. Aligned(s, t, a, b, k)
    BY <2>1, <2>2 DEF Aligned
  <2>4. ModesAligned(s, t, a, b, k)
    BY <1>1, <1>4, <1>5, <2>2, <2>3, ModeShift
  <2> QED
    BY <2>4 DEF ModesAligned
<1>11. ASSUME NEW j \in 0..k PROVE Mode(s)[a + j] = Mode(t)[j + 1]
  <2>1. j + 1 = b + j
    OBVIOUS
  <2> QED
    BY <1>10, <2>1
<1>12. ASSUME NEW i \in 1..Len(z) + 1 PROVE Mode(s)[i] # "out"
  <2>1. CASE i \in 1..a
    BY <1>9, <2>1
  <2>2. CASE i \notin 1..a
    <3>1. i - a \in 0..k /\ a + (i - a) = i /\ (i - a) + 1 \in 1..k + 1
      BY <1>1, <1>3, <2>2
    <3> QED
      BY <1>8, <1>11, <3>1
  <2> QED
    BY <2>1, <2>2
<1>13. Mode(s)[Len(z) + 1] = "in"
  <2>1. k \in 0..k /\ a + k = Len(z) + 1
    BY <1>1, <1>3
  <2> QED
    BY <1>8, <1>11, <2>1
<1>14. IsString(z)
  BY <1>2, <1>12, <1>13 DEF IsString, s
<1> QED
  BY <1>2, <1>14 DEF AllStrings, z

\* So are many.
LEMMA FlattenStrings ==
    ASSUME NEW qs \in Seq(AllStrings)
    PROVE  FlattenSeq(qs) \in AllStrings
<1>1. qs \in Seq(Seq(Tokens)) /\ Len(qs) \in Nat
  BY StringsAreTexts, LenProperties
<1>2. PICK g \in [0..Len(qs) -> Seq(Tokens)] : Joined(g, qs) /\ FlattenSeq(qs) = g[Len(qs)]
  BY <1>1, FlattenDef
<1>3. g[0] = <<>> /\ \A k \in 1..Len(qs) : g[k] = g[k - 1] \o qs[k]
  BY <1>2 DEF Joined
<1> DEFINE P == {k \in Nat : k <= Len(qs) => g[k] \in AllStrings}
<1>4. 0 \in P
  BY <1>3, EmptyString
<1>5. ASSUME NEW k \in P \cap Nat PROVE k + 1 \in P
  <2> SUFFICES ASSUME k + 1 <= Len(qs) PROVE g[k + 1] \in AllStrings
    OBVIOUS
  <2>1. k <= Len(qs) => g[k] \in AllStrings
    OBVIOUS
  <2> HIDE DEF P
  <2>2. k + 1 \in 1..Len(qs) /\ (k + 1) - 1 = k /\ k <= Len(qs)
    <3>1. k \in Nat /\ Len(qs) \in Nat /\ k + 1 <= Len(qs)
      BY <1>1
    <3> QED
      BY ONLY <3>1
  <2>3. qs[k + 1] \in AllStrings
    BY <2>2, ElementOfSeq
  <2>4. g[k] \in AllStrings
    BY <2>1, <2>2
  <2>5. g[k] \o qs[k + 1] \in AllStrings
    BY <2>3, <2>4, StringConcat
  <2> QED
    BY <1>3, <2>2, <2>5
<1>6. Len(qs) \in P
  <2> HIDE DEF P
  <2> QED
    BY <1>1, <1>4, <1>5, SetInduction
<1> QED
  BY <1>1, <1>2, <1>6

\* Which strings stand in a document.
LEMMA TextsStand ==
    ASSUME NEW review, IsReview(review), NEW k \in 1..Len(Texts(review)),
           NEW j \in 1..Len(Texts(review)[k])
    PROVE  \E i \in 1..Len(Marshal(review)) : Marshal(review)[i] = Texts(review)[k][j]
<1> DEFINE doc == Marshal(review)
           X   == Texts(review)
           x   == X[k]
           l   == Len(x)
<1>1. X \in Seq(AllStrings) /\ X \in Seq(Seq(Tokens))
  BY TextsProperties, StringsAreTexts
<1>2. doc \in Seq(Tokens)
  BY DocumentProperties
<1>3. PICK p : Layout(p, X, doc)
  BY DocumentProperties
<1> HIDE DEF doc, X
<1> DEFINE a == p[k - 1]
           c == p[k]
<1>4. a \in Nat /\ c \in Nat /\ l \in Nat /\ c = a + l + 3 /\ c <= Len(doc) /\ Len(doc) \in Nat /\ j \in 1..l
  <2>1. /\ Len(X) \in Nat /\ Len(doc) \in Nat
        /\ \A n \in 0..Len(X) : p[n] \in Nat /\ 2 <= p[n] /\ p[n] <= Len(doc)
        /\ \A n \in 1..Len(X) : /\ n - 1 \in 0..Len(X) /\ n \in 0..Len(X)
                                /\ X[n] \in Seq(Tokens) /\ Len(X[n]) \in Nat
                                /\ p[n] = p[n - 1] + Len(X[n]) + 3
    BY <1>1, <1>2, <1>3, LayoutBounds
  <2>2. k \in 1..Len(X) /\ j \in 1..l
    BY DEF X
  <2> QED
    BY <2>1, <2>2
<1>5. doc[a + 2 + j] = x[j]
  <2>1. k \in 1..Len(X) /\ j \in 1..Len(X[k])
    BY DEF X
  <2>2. \A n \in 1..Len(X) : \A y \in 1..Len(X[n]) : doc[p[n - 1] + 2 + y] = X[n][y]
    BY <1>3 DEF Layout
  <2> QED
    BY <2>1, <2>2
<1> HIDE DEF a, c, l, x
<1>6. a + 2 + j \in 1..Len(doc)
  BY ONLY <1>4
<1>7. \E i \in 1..Len(doc) : doc[i] = x[j]
  BY <1>5, <1>6
<1> QED
  BY <1>7 DEF doc, X, x

\* A document without a fence has strings without fences.
LEMMA FencelessTexts ==
    ASSUME NEW review, IsReview(review), ~Contains(Marshal(review), Fence)
    PROVE  Texts(review) \in Seq(Seq(Tokens \ {Fence}))
<1> DEFINE X == Texts(review)
           T == Tokens \ {Fence}
<1>1. X \in Seq(Seq(Tokens)) /\ Len(X) \in Nat /\ X \in [1..Len(X) -> Seq(Tokens)]
  <2>1. X \in Seq(Seq(Tokens))
    BY TextsProperties, StringsAreTexts
  <2> HIDE DEF X
  <2> QED
    BY <2>1, LenProperties
<1>2. ASSUME NEW k \in 1..Len(X) PROVE X[k] \in Seq(T)
  <2> DEFINE x == X[k]
  <2>1. \A j \in 1..Len(x) : \E i \in 1..Len(Marshal(review)) : Marshal(review)[i] = x[j]
    BY TextsStand
  <2>2. \A j \in 1..Len(x) : x[j] # Fence
    BY <2>1 DEF Contains
  <2>3. x \in Seq(Tokens)
    BY <1>1
  <2> HIDE DEF x, X
  <2>4. Len(x) \in Nat /\ x \in [1..Len(x) -> Tokens]
    BY <2>3, LenProperties
  <2>5. x \in [1..Len(x) -> T]
    BY <2>2, <2>4
  <2>6. x \in Seq(T)
    BY <2>4, <2>5
  <2> QED
    BY <2>6 DEF x
<1> HIDE DEF X, T
<1>3. X \in [1..Len(X) -> Seq(T)]
  BY <1>1, <1>2
<1>4. X \in Seq(Seq(T))
  <2>1. Len(X) \in Nat
    BY <1>1
  <2> QED
    BY ONLY <1>3, <2>1
<1> QED
  BY <1>4 DEF X, T

\* And the other way round.
LEMMA FencelessDocument ==
    ASSUME NEW review, Texts(review) \in Seq(Seq(Tokens \ {Fence}))
    PROVE  ~Contains(Marshal(review), Fence)
<1> DEFINE T == Tokens \ {Fence}
           doc == Marshal(review)
<1>1. {Open, Close, Comma, Quote, Good} \subseteq T
  BY TokensType, TokensDiffer
<1>2. doc \in Seq(T)
  <2>1. Texts(review) \in Seq(Seq(T))
    OBVIOUS
  <2> HIDE DEF T
  <2> QED
    BY <1>1, <2>1, MarshalProperties
<1> HIDE DEF doc
<1>3. ASSUME NEW i \in 1..Len(doc) PROVE doc[i] # Fence
  <2>1. doc[i] \in T
    <3> HIDE DEF T
    <3> QED
      BY <1>2, ElementOfSeq
  <2> QED
    BY <2>1
<1> QED
  BY <1>3 DEF Contains, doc

\* review.json is read as it was written.
THEOREM MarshalRead ==
    ASSUME NEW review, IsReview(review), ~Contains(Marshal(review), Fence)
    PROVE  Parse(Marshal(review)) = review
<1> DEFINE doc == Marshal(review)
           a == 0
<1>1. doc \in Seq(Tokens) /\ 3 <= Len(doc) /\ doc[Len(doc)] = Close /\ Len(doc) \in Nat
  BY DocumentProperties, LenProperties
<1>2. \A i \in 1..Len(doc) : doc[i] # Fence
  BY DEF Contains
<1> HIDE DEF doc
<1>3. StripFences(doc) = doc
  <2>1. Places(doc, Fence) = {}
    BY <1>2 DEF Places
  <2> QED
    BY <1>1, <2>1, StripFencesDef
<1>4. a \in Nat /\ (\A j \in 1..a : doc[j] # Open) /\ \A j \in 1..Len(doc) : a + j = j
  BY <1>1
<1>5. a + Len(doc) = Len(doc)
  BY <1>1
<1>6. Behind(doc, a, doc)
  <2> HIDE DEF a
  <2>1. \A j \in 1..Len(doc) - 1 : doc[a + j] = doc[j]
    <3>1. \A j \in 1..Len(doc) - 1 : j \in 1..Len(doc)
      BY <1>1
    <3> QED
      BY <1>4, <3>1
  <2>2. a + Len(doc) <= Len(doc) /\ doc[a + Len(doc)] = Close
    BY <1>1, <1>5
  <2> QED
    BY <1>4, <2>1, <2>2 DEF Behind
<1>7. StripFences(doc) \in Seq(Tokens) /\ Behind(StripFences(doc), a, Marshal(review))
  BY <1>1, <1>3, <1>6 DEF doc
<1> HIDE DEF a
<1> QED
  BY <1>4, <1>7, ParseBehind DEF doc

\* The first part of a document has no end, and no comma to drop.
LEMMA DecodePrefix ==
    ASSUME NEW u \in Seq(Tokens), NEW doc \in Seq(Tokens), NEW texts \in Seq(AllStrings), NEW p,
           Layout(p, texts, doc), Len(doc) = p[Len(texts)] + 1,
           Len(u) < Len(doc), \A j \in 1..Len(u) : u[j] = doc[j]
    PROVE  RemoveTrailingCommas(u) = u /\ Decode(u) = Unreadable
<1> DEFINE n == Len(u)
           a == 0
           mode == Mode(u)
           I == {i \in 1..n : ~(mode[i - 1] = "out" /\ u[i] = Comma /\ i < n /\ u[i + 1] = Close)}
<1>1. n \in Nat /\ Len(doc) \in Nat /\ n < Len(doc)
  BY LenProperties
<1>2. \A j \in 0..n : mode[j] = Mode(doc)[j]
  <2>1. mode[a] = Mode(doc)[a]
    BY ModeDef
  <2>2. a \in Nat /\ (\A j \in 0..n : a + j = j) /\ (\A j \in 1..n : a + j = j) /\ a + n = n
    BY <1>1
  <2> HIDE DEF a, n, mode
  <2>3. Aligned(u, doc, a, a, n)
    <3>1. \A j \in 1..n : u[a + j] = doc[a + j]
      BY <2>2 DEF n
    <3>2. a + n <= Len(u) /\ a + n <= Len(doc)
      BY <1>1, <2>2 DEF n
    <3> QED
      BY <3>1, <3>2 DEF Aligned
  <2>4. ModesAligned(u, doc, a, a, n)
    BY <1>1, <2>1, <2>2, <2>3, ModeShift DEF mode
  <2>5. ASSUME NEW j \in 0..n PROVE mode[j] = Mode(doc)[j]
    <3>1. a + j = j
      BY <2>2
    <3>2. mode[a + j] = Mode(doc)[a + j]
      BY <2>4 DEF ModesAligned, mode
    <3> QED
      BY <3>1, <3>2
  <2> QED
    BY <2>5
<1>3. ASSUME NEW i \in 1..n, mode[i - 1] = "out"
      PROVE  u[i] # Close /\ (u[i] = Comma => doc[i + 1] = Quote)
  <2>1. i - 1 \in 0..n /\ i \in 1..p[Len(texts)] + 1 /\ i # Len(doc)
    BY <1>1
  <2>2. Mode(doc)[i - 1] = "out" /\ u[i] = doc[i]
    BY <1>2, <1>3, <2>1
  <2> QED
    BY <2>1, <2>2, LayoutTokens
<1>4. \A i \in 1..n : i \in I
  <2> SUFFICES ASSUME NEW i \in 1..n, mode[i - 1] = "out", u[i] = Comma, i < n, u[i + 1] = Close
               PROVE  FALSE
    OBVIOUS
  <2>1. i + 1 \in 1..n
    BY <1>1
  <2>2. u[i + 1] = doc[i + 1] /\ doc[i + 1] = Quote
    BY <1>3, <2>1
  <2> QED
    BY <2>2, TokensDiffer
<1>5. RemoveTrailingCommas(u) = u
  <2>1. RemoveTrailingCommas(u) = At(u, I)
    BY DEF RemoveTrailingCommas
  <2> HIDE DEF I
  <2> QED
    BY <1>4, <2>1, AtSame
<1>6. Ends(u) = {}
  BY <1>3 DEF Ends
<1> QED
  BY <1>5, <1>6, DecodeDef

\* A part of review.json is no review.
THEOREM PrefixUnread ==
    ASSUME NEW review, IsReview(review), ~Contains(Marshal(review), Fence),
           NEW n \in 0..Len(Marshal(review)) - 1
    PROVE  Parse(SubSeq(Marshal(review), 1, n)) = Unreadable
<1> DEFINE doc == Marshal(review)
           X == Texts(review)
           s == SubSeq(doc, 1, n)
           u == Outermost(s)
<1>1. doc \in Seq(Tokens) /\ 3 <= Len(doc) /\ doc[1] = Open /\ Len(doc) \in Nat
  BY DocumentProperties, LenProperties
<1>2. \A i \in 1..Len(doc) : doc[i] # Fence
  BY DEF Contains
<1>3. PICK p : Layout(p, X, doc) /\ Len(doc) = p[Len(X)] + 1
  BY DocumentProperties
<1>4. X \in Seq(AllStrings)
  BY TextsProperties
<1>5. n \in Nat /\ n < Len(doc)
  BY <1>1
<1> HIDE DEF doc, X
<1>6. s \in Seq(Tokens) /\ Len(s) = n /\ \A j \in 1..n : s[j] = doc[j]
  <2>1. 1 \in Nat /\ n \in Int /\ 1 <= 1 /\ n <= Len(doc)
    BY <1>1, <1>5
  <2>2. /\ s \in Seq(Tokens)
        /\ Len(s) = IF 1 <= n THEN n - 1 + 1 ELSE 0
        /\ \A j \in 1..n - 1 + 1 : s[j] = doc[1 + j - 1]
    BY <1>1, <2>1, PartOf
  <2>3. n - 1 + 1 = n /\ \A j \in 1..n : 1 + j - 1 = j
    BY <1>5
  <2> HIDE DEF s
  <2>4. Len(s) = n
    BY <1>5, <2>2
  <2> QED
    BY <2>2, <2>3, <2>4
<1> HIDE DEF s
<1>7. StripFences(s) = s
  <2>1. \A j \in 1..n : j \in 1..Len(doc)
    BY <1>1, <1>5
  <2>2. Places(s, Fence) = {}
    BY <1>2, <1>6, <2>1 DEF Places
  <2> QED
    BY <1>6, <2>2, StripFencesDef
<1>8. u \in Seq(Tokens) /\ Len(u) < Len(doc) /\ \A j \in 1..Len(u) : u[j] = doc[j]
  <2> DEFINE A == Places(s, Open)
             C == Places(s, Close)
             b == Max(C)
  <2>1. CASE u = s
    BY <1>5, <1>6, <2>1
  <2>2. CASE A # {} /\ C # {} /\ b > Min(A) /\ u = SubSeq(s, Min(A), b)
    <3>1. Min(A) \in 1..n /\ b \in 1..n
      BY <1>6, <2>2, PlacesBounds
    <3>2. Min(A) = 1
      <4>1. 1 \in 1..n
        BY <1>5, <3>1
      <4>2. s[1] = Open
        BY <1>1, <1>6, <4>1
      <4>3. 1 \in A
        BY <1>6, <4>1, <4>2 DEF Places
      <4>4. Min(A) <= 1
        BY <1>6, <2>2, <4>3, PlacesBounds
      <4> HIDE DEF A
      <4> QED
        BY <1>5, <3>1, <4>4
    <3> HIDE DEF A, b
    <3>3. u = SubSeq(s, 1, b)
      BY <2>2, <3>2
    <3>4. 1 \in Nat /\ b \in Int /\ 1 <= 1 /\ b <= Len(s) /\ b <= n /\ 1 <= b
      BY <1>5, <1>6, <3>1
    <3>5. /\ u \in Seq(Tokens)
          /\ Len(u) = IF 1 <= b THEN b - 1 + 1 ELSE 0
          /\ \A j \in 1..b - 1 + 1 : u[j] = s[1 + j - 1]
      BY <1>6, <3>3, <3>4, PartOf
    <3>6. b - 1 + 1 = b /\ \A j \in 1..b : 1 + j - 1 = j /\ j \in 1..n
      BY <1>5, <3>1
    <3> HIDE DEF u
    <3>7. Len(u) = b
      BY <3>4, <3>5, <3>6
    <3> QED
      BY <1>5, <1>6, <3>1, <3>5, <3>6, <3>7
  <2> QED
    BY <1>6, <2>1, <2>2, OutermostDef
<1>9. RemoveTrailingCommas(u) = u /\ Decode(u) = Unreadable
  <2> HIDE DEF u
  <2> QED
    BY <1>1, <1>3, <1>4, <1>8, DecodePrefix
<1>10. Repair(s) = u
  BY <1>7, <1>9 DEF Repair
<1>11. Parse(s) = Unreadable
  <2>1. Decode(Repair(s)) = Unreadable
    BY <1>9, <1>10
  <2> QED
    BY <2>1 DEF Parse, Valid, Unreadable
<1> QED
  BY <1>11 DEF s, doc

\* Neither is an empty file.
LEMMA EmptyUnread == Parse(<<>>) = Unreadable
<1> DEFINE s == <<>>
           T == Tokens \ {Good}
<1>1. s \in Seq(T)
  OBVIOUS
<1> HIDE DEF s, T
<1>2. StripFences(s) \in Seq(T)
  BY <1>1, RepairType
<1>3. Parse(s) = Unreadable
  BY <1>2, NoVerdict DEF T
<1> QED
  BY <1>3 DEF s
====
