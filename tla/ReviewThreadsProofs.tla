------------------------- MODULE ReviewThreadsProofs -------------------------
(***************************************************************************)
(* Proofs about ReviewThreads for every page size, every cap and any       *)
(* number of threads, comments and runs.  The size of the block is a sum   *)
(* over a set; what is needed of sums is proved first, by induction over   *)
(* the subsets of a finite set.                                            *)
(***************************************************************************)
EXTENDS ReviewThreads, WellFoundedInduction, FiniteSetTheorems, SequenceTheorems, TLAPS

-----------------------------------------------------------------------------
(* Sums over finite sets. *)

\* Induction: a collection that has a set whenever it has the sets with one element less
\* has every subset of a finite set.
LEMMA SubsetInduction ==
    ASSUME NEW S, IsFiniteSet(S), NEW F,
           \A B \in SUBSET S : (\A x \in B : B \ {x} \in F) => B \in F
    PROVE  SUBSET S \subseteq F
<1> SUFFICES ASSUME (SUBSET S) \ F # {} PROVE FALSE
  OBVIOUS
<1>1. PICK B \in (SUBSET S) \ F : \A C \in (SUBSET S) \ F : <<C, B>> \notin StrictSubsetOrdering(S)
  <2> DEFINE R == StrictSubsetOrdering(S)
             T == (SUBSET S) \ F
             G == FiniteSubsetsOf(S)
  <2>1. IsWellFoundedOn(R, G)
    BY FS_StrictSubsetOrderingWellFounded
  <2>2. T \subseteq G /\ T # {}
    BY FS_FiniteSubsetsOfFinite
  <2>3. \E t \in T : \A u \in T : <<u, t>> \notin R
    <3> HIDE DEF R, T, G
    <3> QED
      BY <2>1, <2>2, WFMin
  <2> QED
    BY <2>3
<1>2. PICK x \in B : B \ {x} \notin F
  BY <1>1
<1>3. <<B \ {x}, B>> \in StrictSubsetOrdering(S)
  <2>1. B \ {x} \subseteq B /\ B \ {x} # B
    OBVIOUS
  <2> QED
    BY <2>1 DEF StrictSubsetOrdering
<1> QED
  BY <1>1, <1>2, <1>3

\* A finite set of numbers that is not empty has a largest element.
LEMMA LargestExists ==
    ASSUME NEW S, IsFiniteSet(S), S # {}, S \subseteq Int
    PROVE  \E m \in S : \A i \in S : i <= m
<1> DEFINE F == {B \in SUBSET S : B = {} \/ \E m \in B : \A i \in B : i <= m}
<1>1. ASSUME NEW B \in SUBSET S, \A x \in B : B \ {x} \in F
      PROVE  B \in F
  <2> SUFFICES ASSUME B # {} PROVE \E m \in B : \A i \in B : i <= m
    OBVIOUS
  <2>1. PICK x \in B : TRUE
    OBVIOUS
  <2>2. CASE B \ {x} = {}
    BY <2>1, <2>2
  <2>3. CASE B \ {x} # {}
    <3>1. PICK m \in B \ {x} : \A i \in B \ {x} : i <= m
      BY <1>1, <2>3
    <3>2. x \in Int /\ m \in Int /\ B \subseteq Int
      OBVIOUS
    <3> DEFINE y == IF x <= m THEN m ELSE x
    <3>3. y \in B /\ \A i \in B : i <= y
      BY <3>1, <3>2
    <3> QED
      BY <3>3
  <2> QED
    BY <2>2, <2>3
<1>2. SUBSET S \subseteq F
  <2> HIDE DEF F
  <2> QED
    BY <1>1, SubsetInduction
<1> QED
  BY <1>2

\* f is the sum of the weights w over every subset of S.
IsSum(f, w, S) ==
    /\ f \in [SUBSET S -> Nat]
    /\ f[{}] = 0
    /\ \A A \in SUBSET S : \A x \in A : f[A] = w[x] + f[A \ {x}]

\* There is one.
LEMMA SumExists ==
    ASSUME NEW S, IsFiniteSet(S), NEW w \in [S -> Nat]
    PROVE  \E f : IsSum(f, w, S)
<1> DEFINE F == {B \in SUBSET S : \E f : IsSum(f, w, B)}
<1>1. ASSUME NEW B \in SUBSET S, \A x \in B : B \ {x} \in F
      PROVE  B \in F
  <2>1. CASE B = {}
    <3>1. IsSum([A \in SUBSET {} |-> 0], w, {})
      BY DEF IsSum
    <3> QED
      BY <2>1, <3>1
  <2>2. CASE B # {}
    <3>1. PICK x \in B : TRUE
      BY <2>2
    <3>2. PICK f : IsSum(f, w, B \ {x})
      BY <1>1
    <3> DEFINE g == [A \in SUBSET B |-> IF x \in A THEN w[x] + f[A \ {x}] ELSE f[A]]
    <3>3. w[x] \in Nat /\ \A A \in SUBSET B : A \ {x} \in SUBSET (B \ {x})
      OBVIOUS
    <3>4. g \in [SUBSET B -> Nat]
      BY <3>2, <3>3 DEF IsSum
    <3>5. g[{}] = 0
      BY <3>2 DEF IsSum
    <3>6. ASSUME NEW A \in SUBSET B, NEW y \in A
          PROVE  g[A] = w[y] + g[A \ {y}]
      <4>1. CASE y = x
        BY <4>1
      <4>2. CASE y # x /\ x \in A
        <5>1. (A \ {x}) \ {y} = (A \ {y}) \ {x}
          OBVIOUS
        <5>2. f[A \ {x}] = w[y] + f[(A \ {x}) \ {y}]
          BY <3>2, <4>2 DEF IsSum
        <5>3. g[A \ {y}] = w[x] + f[(A \ {y}) \ {x}]
          BY <4>2
        <5>4. g[A] = w[x] + f[A \ {x}]
          BY <4>2
        <5>5. f[(A \ {x}) \ {y}] \in Nat
          BY <3>2 DEF IsSum
        <5>6. w[x] \in Nat /\ w[y] \in Nat
          OBVIOUS
        <5>7. w[x] + (w[y] + f[(A \ {x}) \ {y}]) = w[y] + (w[x] + f[(A \ {x}) \ {y}])
          BY <5>5, <5>6
        <5> HIDE DEF g
        <5> QED
          BY <5>1, <5>2, <5>3, <5>4, <5>7
      <4>3. CASE x \notin A
        BY <3>2, <4>3 DEF IsSum
      <4> QED
        BY <4>1, <4>2, <4>3
    <3>7. IsSum(g, w, B)
      BY <3>4, <3>5, <3>6 DEF IsSum
    <3> QED
      BY <3>7
  <2> QED
    BY <2>1, <2>2
<1>2. SUBSET S \subseteq F
  <2> HIDE DEF F
  <2> QED
    BY <1>1, SubsetInduction
<1> QED
  BY <1>2

\* The recursion by which MapThenSumSet adds up the weights w over S.
IsFold(iter, w, S) ==
    iter = [s \in SUBSET S |->
              IF s = {} THEN 0
              ELSE w[CHOOSE x \in s : TRUE] + iter[s \ {CHOOSE x \in s : TRUE}]]

\* It computes the sum.
LEMMA RecursionIsSum ==
    ASSUME NEW D, NEW w, NEW f, IsSum(f, w, D),
           NEW S \in SUBSET D, IsFiniteSet(S), NEW iter, IsFold(iter, w, S)
    PROVE  iter[S] = f[S]
<1> DEFINE F == {B \in SUBSET S : iter[B] = f[B]}
<1>1. ASSUME NEW B \in SUBSET S, \A x \in B : B \ {x} \in F
      PROVE  B \in F
  <2>1. CASE B = {}
    BY <2>1 DEF IsSum, IsFold
  <2>2. CASE B # {}
    <3> DEFINE x == CHOOSE x \in B : TRUE
    <3>1. x \in B
      BY <2>2
    <3>2. iter[B] = w[x] + iter[B \ {x}]
      BY <2>2 DEF IsFold
    <3> HIDE DEF x
    <3>3. iter[B \ {x}] = f[B \ {x}]
      BY <1>1, <3>1
    <3>4. f[B] = w[x] + f[B \ {x}]
      BY <3>1 DEF IsSum
    <3> QED
      BY <3>2, <3>3, <3>4
  <2> QED
    BY <2>1, <2>2
<1>2. SUBSET S \subseteq F
  <2> HIDE DEF F
  <2> QED
    BY <1>1, SubsetInduction
<1> QED
  BY <1>2

\* More terms, a larger sum.
LEMMA SumMonotone ==
    ASSUME NEW S, IsFiniteSet(S), NEW w \in [S -> Nat], NEW f, IsSum(f, w, S),
           NEW A \in SUBSET S, NEW B \in SUBSET A
    PROVE  f[B] <= f[A]
<1> DEFINE F == {C \in SUBSET S : B \subseteq C => f[B] <= f[C]}
<1>1. ASSUME NEW C \in SUBSET S, \A x \in C : C \ {x} \in F
      PROVE  C \in F
  <2> SUFFICES ASSUME B \subseteq C, B # C PROVE f[B] <= f[C]
    BY DEF IsSum
  <2>1. PICK x \in C : x \notin B
    OBVIOUS
  <2>2. f[B] <= f[C \ {x}]
    BY <1>1, <2>1
  <2>3. f[C] = w[x] + f[C \ {x}]
    BY DEF IsSum
  <2>4. w[x] \in Nat /\ f[C \ {x}] \in Nat /\ f[B] \in Nat
    BY DEF IsSum
  <2> QED
    BY <2>2, <2>3, <2>4
<1>2. SUBSET S \subseteq F
  <2> HIDE DEF F
  <2> QED
    BY <1>1, SubsetInduction
<1> QED
  BY <1>2

\* Terms up to b add up to b for each of them.
LEMMA SumBounded ==
    ASSUME NEW S, IsFiniteSet(S), NEW b \in Nat, NEW w \in [S -> 0..b], NEW f, IsSum(f, w, S)
    PROVE  \A A \in SUBSET S : f[A] <= Cardinality(A) * b
<1> DEFINE F == {A \in SUBSET S : f[A] <= Cardinality(A) * b}
<1>1. ASSUME NEW A \in SUBSET S, \A x \in A : A \ {x} \in F
      PROVE  A \in F
  <2>1. CASE A = {}
    BY <2>1, FS_EmptySet DEF IsSum
  <2>2. CASE A # {}
    <3>1. PICK x \in A : TRUE
      BY <2>2
    <3>2. IsFiniteSet(A)
      BY FS_Subset
    <3> DEFINE n == Cardinality(A \ {x})
    <3>3. n \in Nat /\ Cardinality(A) = n + 1
      <4>1. IsFiniteSet(A \ {x}) /\ n = Cardinality(A) - 1
        BY <3>2, FS_RemoveElement
      <4>2. n \in Nat /\ Cardinality(A) \in Nat
        BY <3>2, <4>1, FS_CardinalityType
      <4> QED
        BY <4>1, <4>2
    <3>4. f[A \ {x}] <= n * b
      BY <1>1
    <3>5. f[A] = w[x] + f[A \ {x}]
      BY DEF IsSum
    <3>6. w[x] \in 0..b /\ f[A \ {x}] \in Nat
      BY DEF IsSum
    <3> HIDE DEF n
    <3>7. (n + 1) * b = n * b + b /\ n * b \in Nat
      BY <3>3, SMTT(30)
    <3>8. f[A] <= Cardinality(A) * b
      BY <3>3, <3>4, <3>5, <3>6, <3>7
    <3> QED
      BY <3>8
  <2> QED
    BY <2>1, <2>2
<1>2. SUBSET S \subseteq F
  <2> HIDE DEF F
  <2> QED
    BY <1>1, SubsetInduction
<1> QED
  BY <1>2

-----------------------------------------------------------------------------
(* Threads and their sizes. *)

\* The first n of a sequence.
LEMMA PrefixProperties ==
    ASSUME NEW T, NEW s \in Seq(T), NEW n \in Nat
    PROVE  /\ Prefix(s, n) \in Seq(T)
           /\ DOMAIN Prefix(s, n) = 1..(IF n <= Len(s) THEN n ELSE Len(s))
           /\ DOMAIN Prefix(s, n) \subseteq DOMAIN s
<1> DEFINE m == IF n <= Len(s) THEN n ELSE Len(s)
<1>1. m \in 0..Len(s) /\ Len(s) \in Nat
  OBVIOUS
<1>2. Min({n, Len(s)}) = m
  BY <1>1 DEF Min
<1> HIDE DEF m
<1>3. \A i \in 1..m : s[i] \in T
  BY <1>1
<1>4. SubSeq(s, 1, m) \in Seq(T) /\ Len(SubSeq(s, 1, m)) = m
  BY <1>1, <1>3, SubSeqProperties
<1>5. Prefix(s, n) \in Seq(T) /\ DOMAIN Prefix(s, n) = 1..m
  BY <1>2, <1>4, LenProperties DEF Prefix
<1> QED
  BY <1>1, <1>5, LenProperties DEF m

\* What one body and one thread may add to the block.
MaxBody   == 1 + maxCommentChars
MaxThread == 2 + maxThreadComment * MaxBody

\* The line of a comment.
LEMMA BodySizeBounded ==
    ASSUME NEW comment \in Comment
    PROVE  BodySize(comment) \in 0..MaxBody
<1>1. comment.length \in Nat /\ maxCommentChars \in Nat
  BY ThreadsAssumption DEF Comment
<1> DEFINE n == comment.length
<1>2. \E m \in {n, maxCommentChars} : \A y \in {n, maxCommentChars} : m <= y
  BY <1>1
<1>3. Min({n, maxCommentChars}) \in {n, maxCommentChars} /\ Min({n, maxCommentChars}) <= maxCommentChars
  BY <1>1, <1>2 DEF Min
<1> QED
  BY <1>1, <1>3 DEF BodySize, MaxBody

\* A thread in the block is not free, and not larger than its capped comments, its header and
\* the line for the comments left out.
LEMMA ThreadSizeBounded ==
    ASSUME NEW t \in Thread
    PROVE  ThreadSize(t) \in 1..MaxThread
<1> DEFINE D == DOMAIN Prefix(t.comments, maxThreadComment)
           w == [k \in D |-> BodySize(t.comments[k])]
           iter == CHOOSE g : g = [s \in SUBSET D |->
                     IF s = {} THEN 0
                     ELSE BodySize(t.comments[CHOOSE x \in s : TRUE]) + g[s \ {CHOOSE x \in s : TRUE}]]
<1>1. t.comments \in Seq(Comment) /\ maxThreadComment \in Nat /\ maxCommentChars \in Nat /\ MaxBody \in Nat
  BY ThreadsAssumption DEF Thread, MaxBody
<1>2. D = 1..(IF maxThreadComment <= Len(t.comments) THEN maxThreadComment ELSE Len(t.comments))
      /\ D \subseteq DOMAIN t.comments
  BY <1>1, PrefixProperties
<1>3. IsFiniteSet(D) /\ Cardinality(D) \in 0..maxThreadComment
  <2> DEFINE m == IF maxThreadComment <= Len(t.comments) THEN maxThreadComment ELSE Len(t.comments)
  <2>1. m \in 0..maxThreadComment
    BY <1>1, LenProperties
  <2> HIDE DEF m
  <2>2. IsFiniteSet(1..m) /\ Cardinality(1..m) = m
    BY <2>1, FS_Interval
  <2>3. D = 1..m
    BY <1>2 DEF m
  <2> HIDE DEF D
  <2> QED
    BY <2>1, <2>2, <2>3
<1>4. ASSUME NEW k \in D PROVE BodySize(t.comments[k]) \in 0..MaxBody
  <2>1. t.comments[k] \in Comment
    <3> HIDE DEF D
    <3> QED
      BY <1>1, <1>2, LenProperties
  <2> QED
    BY <2>1, BodySizeBounded
<1>5. w \in [D -> 0..MaxBody] /\ w \in [D -> Nat]
  BY <1>1, <1>4
<1>6. PICK f : IsSum(f, w, D)
  BY <1>3, <1>5, SumExists
<1>7. MapThenSumSet(LAMBDA k : BodySize(t.comments[k]), D) = f[D]
  <2>1. \E g : g = [s \in SUBSET D |->
                     IF s = {} THEN 0
                     ELSE BodySize(t.comments[CHOOSE x \in s : TRUE]) + g[s \ {CHOOSE x \in s : TRUE}]]
    <3>1. f = [s \in SUBSET D |->
                     IF s = {} THEN 0
                     ELSE BodySize(t.comments[CHOOSE x \in s : TRUE]) + f[s \ {CHOOSE x \in s : TRUE}]]
      BY <1>6 DEF IsSum
    <3> QED
      BY <3>1
  <2>2. iter = [s \in SUBSET D |->
                     IF s = {} THEN 0
                     ELSE BodySize(t.comments[CHOOSE x \in s : TRUE]) + iter[s \ {CHOOSE x \in s : TRUE}]]
    BY <2>1
  <2>3. MapThenSumSet(LAMBDA k : BodySize(t.comments[k]), D) = iter[D]
    BY DEF MapThenSumSet, MapThenFoldSet
  <2> HIDE DEF iter
  <2>4. IsFold(iter, w, D)
    BY <2>2 DEF IsFold
  <2> HIDE DEF w, D
  <2> QED
    BY <1>3, <1>6, <2>3, <2>4, RecursionIsSum
<1>8. f[D] \in Nat /\ f[D] <= Cardinality(D) * MaxBody
  <2> HIDE DEF w, D
  <2> QED
    BY <1>1, <1>3, <1>5, <1>6, SumBounded DEF IsSum
<1>9. Cardinality(D) * MaxBody <= maxThreadComment * MaxBody /\ maxThreadComment * MaxBody \in Nat
      /\ Cardinality(D) * MaxBody \in Nat
  <2> HIDE DEF D
  <2> QED
    BY <1>1, <1>3, SMTT(30)
<1>10. ThreadSize(t) = 1 + f[D] + (IF Len(t.comments) > maxThreadComment THEN 1 ELSE 0)
  BY <1>7 DEF ThreadSize
<1> HIDE DEF D, w
<1> QED
  BY <1>8, <1>9, <1>10 DEF MaxThread

\* The size of a part of a list is a sum over its places.
LEMMA SizeIsSum ==
    ASSUME NEW ts \in Seq(Thread)
    PROVE  \E f : /\ IsSum(f, [i \in DOMAIN ts |-> ThreadSize(ts[i])], DOMAIN ts)
                 /\ \A P \in SUBSET DOMAIN ts : SizeOf(ts, P) = f[P]
<1> DEFINE D == DOMAIN ts
           w == [i \in D |-> ThreadSize(ts[i])]
<1>1. IsFiniteSet(D)
  BY LenProperties, FS_Interval
<1>2. w \in [D -> Nat]
  <2>1. ASSUME NEW i \in D PROVE ThreadSize(ts[i]) \in Nat
    <3>1. ts[i] \in Thread
      BY LenProperties
    <3>2. 1..MaxThread \subseteq Nat
      OBVIOUS
    <3> QED
      BY <3>1, <3>2, ThreadSizeBounded
  <2> QED
    BY <2>1
<1>3. PICK f : IsSum(f, w, D)
  BY <1>1, <1>2, SumExists
<1>4. ASSUME NEW P \in SUBSET D PROVE SizeOf(ts, P) = f[P]
  <2> DEFINE iter == CHOOSE g : g = [s \in SUBSET P |->
                     IF s = {} THEN 0
                     ELSE ThreadSize(ts[CHOOSE x \in s : TRUE]) + g[s \ {CHOOSE x \in s : TRUE}]]
             h == [s \in SUBSET P |-> f[s]]
  <2>1. h = [s \in SUBSET P |->
                     IF s = {} THEN 0
                     ELSE ThreadSize(ts[CHOOSE x \in s : TRUE]) + h[s \ {CHOOSE x \in s : TRUE}]]
    BY <1>3 DEF IsSum
  <2> HIDE DEF h
  <2>2. iter = [s \in SUBSET P |->
                     IF s = {} THEN 0
                     ELSE ThreadSize(ts[CHOOSE x \in s : TRUE]) + iter[s \ {CHOOSE x \in s : TRUE}]]
    BY <2>1
  <2>3. SizeOf(ts, P) = iter[P]
    BY DEF SizeOf, MapThenSumSet, MapThenFoldSet
  <2> HIDE DEF iter
  <2>4. IsFold(iter, w, P)
    BY <2>2 DEF IsFold
  <2>5. IsFiniteSet(P)
    BY <1>1, FS_Subset
  <2> HIDE DEF w, D
  <2> QED
    BY <1>3, <2>3, <2>4, <2>5, RecursionIsSum
<1> QED
  BY <1>3, <1>4

\* What follows for sizes: more threads take more room, and one thread takes some but no more
\* than MaxThread.
LEMMA SizeProperties ==
    ASSUME NEW ts \in Seq(Thread), NEW A \in SUBSET DOMAIN ts
    PROVE  /\ SizeOf(ts, A) \in Nat
           /\ \A B \in SUBSET A : SizeOf(ts, B) <= SizeOf(ts, A)
           /\ \A i \in A : SizeOf(ts, A) = ThreadSize(ts[i]) + SizeOf(ts, A \ {i})
           /\ \A i \in A : ThreadSize(ts[i]) \in 1..MaxThread
<1> DEFINE D == DOMAIN ts
           w == [i \in D |-> ThreadSize(ts[i])]
<1>1. PICK f : IsSum(f, w, D) /\ \A P \in SUBSET D : SizeOf(ts, P) = f[P]
  BY SizeIsSum
<1>2. ASSUME NEW i \in D PROVE ThreadSize(ts[i]) \in 1..MaxThread
  <2>1. ts[i] \in Thread
    BY LenProperties
  <2> QED
    BY <2>1, ThreadSizeBounded
<1>3. IsFiniteSet(D) /\ w \in [D -> Nat]
  BY <1>2, LenProperties, FS_Interval
<1>4. ASSUME NEW B \in SUBSET A PROVE SizeOf(ts, B) <= SizeOf(ts, A)
  <2>1. f[B] <= f[A]
    <3> HIDE DEF D, w
    <3> QED
      BY <1>1, <1>3, SumMonotone DEF D
  <2> QED
    BY <1>1, <2>1
<1>5. ASSUME NEW i \in A PROVE SizeOf(ts, A) = ThreadSize(ts[i]) + SizeOf(ts, A \ {i})
  BY <1>1 DEF IsSum
<1>6. SizeOf(ts, A) \in Nat
  BY <1>1 DEF IsSum
<1> QED
  BY <1>2, <1>4, <1>5, <1>6

-----------------------------------------------------------------------------
(* What a run may raise. *)

\* What reaches the block is a thread without Momos's marker.
LEMMA ShownAreTheirs ==
    ASSUME NEW ts, NEW c \in Covered(ts)
    PROVE  \E i \in DOMAIN ts :
              /\ ts[i].about = c
              /\ \A k \in DOMAIN ts[i].comments : ~ts[i].comments[k].mine
<1>1. PICK i \in Shown(ts) : ts[i].about = c
  BY DEF Covered
<1>2. i \in Theirs(ts)
  BY <1>1 DEF Shown
<1> QED
  BY <1>1, <1>2 DEF Theirs, Mine

\* Only one action ends a run.
LEMMA OnlyPublish ==
    ASSUME [Next]_vars, Publishes
    PROVE  raised' = Found(asked', listed)
<1>1. Next
  BY DEF vars, Publishes
<1>2. ASSUME NEW c \in Concerns, NEW n \in Lengths, Open(c, n) PROVE FALSE
  BY <1>2 DEF Open, Publishes
<1>3. ASSUME NEW i \in DOMAIN threads, NEW n \in Lengths, Reply(i, n) PROVE FALSE
  BY <1>3 DEF Reply, Publishes
<1>4. ASSUME NEW i \in DOMAIN threads, NEW s \in {"resolved", "outdated"}, Settle(i, s) PROVE FALSE
  BY <1>4 DEF Settle, Publishes
<1>5. CASE Fetch
  BY <1>5 DEF Fetch, Publishes
<1>6. ASSUME NEW found \in SUBSET Concerns, Publish(found)
      PROVE  raised' = Found(asked', listed)
  BY <1>6 DEF Publish
<1> QED
  BY <1>1, <1>2, <1>3, <1>4, <1>5, <1>6 DEF Next

\* Momos never holds back a finding because it, or an answer to it, is on the pull request.
THEOREM AlwaysRaisedAgain == Spec => OwnFindingRaisedAgain
<1>1. [Next]_vars => (Publishes =>
         \A c \in asked' \ raised' :
             \E i \in DOMAIN listed :
                 /\ listed[i].about = c
                 /\ \A k \in DOMAIN listed[i].comments : ~listed[i].comments[k].mine)
  <2> SUFFICES ASSUME [Next]_vars, Publishes, NEW c \in asked' \ raised'
               PROVE  c \in Covered(listed)
    BY ShownAreTheirs
  <2> QED
    BY OnlyPublish DEF Found
<1> QED
  BY <1>1, PTL DEF Spec, OwnFindingRaisedAgain

-----------------------------------------------------------------------------
(* Types. *)

\* What ListReviewThreads answers is a list of threads.
LEMMA FirstPageType ==
    ASSUME NEW ts \in Seq(Thread)
    PROVE  FirstPage(ts) \in Seq(Thread)
<1> DEFINE D == DOMAIN Prefix(ts, Page)
           cut(i) == [ts[i] EXCEPT !.comments = Prefix(@, PageComments)]
<1>1. Page \in Nat /\ PageComments \in Nat
  BY ThreadsAssumption
<1>2. D = 1..(IF Page <= Len(ts) THEN Page ELSE Len(ts)) /\ D \subseteq DOMAIN ts
  BY <1>1, PrefixProperties
<1>3. ASSUME NEW i \in D PROVE cut(i) \in Thread
  <2>1. ts[i] \in Thread
    <3> HIDE DEF D
    <3> QED
      BY <1>2, LenProperties
  <2>2. Prefix(ts[i].comments, PageComments) \in Seq(Comment)
    BY <1>1, <2>1, PrefixProperties DEF Thread
  <2> QED
    BY <2>1, <2>2 DEF Thread
<1>4. FirstPage(ts) = [i \in D |-> cut(i)]
  BY DEF FirstPage
<1>5. PICK n \in Nat : D = 1..n
  <2>1. Len(ts) \in Nat
    OBVIOUS
  <2> QED
    BY <1>1, <1>2, <2>1
<1> HIDE DEF D, cut
<1> QED
  BY <1>3, <1>4, <1>5

\* The threads that a publisher adds.
LEMMA PostedType ==
    ASSUME NEW C \in SUBSET Concerns, NEW order \in SetToSeqs(C)
    PROVE  [k \in DOMAIN order |-> Marked(order[k])] \in Seq(Thread)
<1>1. IsFiniteSet(C)
  BY ThreadsAssumption, FS_Subset
<1>2. Cardinality(C) \in Nat
  BY <1>1, FS_CardinalityType
<1>3. order \in [1..Cardinality(C) -> C]
  BY DEF SetToSeqs
<1>4. ASSUME NEW c \in Concerns PROVE Marked(c) \in Thread
  <2>1. [mine |-> TRUE, length |-> 0] \in Comment
    BY DEF Comment
  <2>2. <<[mine |-> TRUE, length |-> 0]>> \in Seq(Comment)
    BY <2>1
  <2> QED
    BY <2>2 DEF Marked, Thread
<1> QED
  BY <1>2, <1>3, <1>4

\* A comment of a person is one.
LEMMA PersonType == ASSUME NEW n \in Lengths PROVE Person(n) \in Comment
  BY ThreadsAssumption DEF Person, Comment

\* Threads and what is listed of them keep their types, and no run raises what the diff gave
\* no reason for.
THEOREM TypeCorrect == Spec => []TypeOK
<1>1. Init => TypeOK
  <2> SUFFICES ASSUME Init PROVE TypeOK
    OBVIOUS
  <2>1. threads \in Seq(Thread) /\ listed \in Seq(Thread)
    BY EmptySeq DEF Init
  <2>2. fetched \in BOOLEAN
    BY DEF Init
  <2>3. asked \subseteq Concerns /\ raised \subseteq asked
    BY DEF Init
  <2> QED
    BY <2>1, <2>2, <2>3 DEF TypeOK
<1>2. TypeOK /\ [Next]_vars => TypeOK'
  <2> SUFFICES ASSUME TypeOK, [Next]_vars PROVE TypeOK'
    OBVIOUS
  <2>1. ASSUME NEW c \in Concerns, NEW n \in Lengths, Open(c, n) PROVE TypeOK'
    <3>1. [about |-> c, state |-> "open", comments |-> <<Person(n)>>] \in Thread
      BY PersonType DEF Thread
    <3> QED
      BY <2>1, <3>1 DEF Open, TypeOK
  <2>2. ASSUME NEW i \in DOMAIN threads, NEW n \in Lengths, Reply(i, n) PROVE TypeOK'
    <3> DEFINE t == [threads[i] EXCEPT !.comments = Append(@, Person(n))]
    <3>1. threads[i] \in Thread
      BY LenProperties DEF TypeOK
    <3>2. Append(threads[i].comments, Person(n)) \in Seq(Comment)
      BY <3>1, PersonType, AppendProperties DEF Thread
    <3>3. t \in Thread
      BY <3>1, <3>2 DEF Thread
    <3>4. threads' = [threads EXCEPT ![i] = t]
      BY <2>2 DEF Reply
    <3> HIDE DEF t
    <3>5. threads' \in Seq(Thread)
      BY <3>3, <3>4, ExceptSeq, LenProperties DEF TypeOK
    <3> QED
      BY <2>2, <3>5 DEF Reply, TypeOK
  <2>3. ASSUME NEW i \in DOMAIN threads, NEW s \in {"resolved", "outdated"}, Settle(i, s) PROVE TypeOK'
    <3> DEFINE t == [threads[i] EXCEPT !.state = s]
    <3>1. threads[i] \in Thread
      BY LenProperties DEF TypeOK
    <3>2. t \in Thread
      BY <3>1 DEF Thread
    <3>3. threads' = [threads EXCEPT ![i] = t]
      BY <2>3 DEF Settle
    <3> HIDE DEF t
    <3>4. threads' \in Seq(Thread)
      BY <3>2, <3>3, ExceptSeq, LenProperties DEF TypeOK
    <3> QED
      BY <2>3, <3>4 DEF Settle, TypeOK
  <2>4. CASE Fetch
    <3>1. threads' \in Seq(Thread) /\ listed' \in Seq(Thread)
      BY <2>4, FirstPageType, EmptySeq DEF Fetch, TypeOK
    <3>2. fetched' \in BOOLEAN
      BY <2>4 DEF Fetch
    <3>3. asked' \subseteq Concerns /\ raised' \subseteq asked'
      BY <2>4 DEF Fetch
    <3> QED
      BY <3>1, <3>2, <3>3 DEF TypeOK
  <2>5. ASSUME NEW found \in SUBSET Concerns, Publish(found) PROVE TypeOK'
    <3>1. raised' \subseteq asked' /\ asked' \subseteq Concerns
      BY <2>5 DEF Publish, Found
    <3>2. threads' \in Seq(Thread)
      <4>1. CASE UNCHANGED threads
        BY <4>1 DEF TypeOK
      <4>2. ASSUME NEW order \in SetToSeqs(raised'),
                   threads' = threads \o [k \in DOMAIN order |-> Marked(order[k])]
            PROVE  threads' \in Seq(Thread)
        <5> DEFINE posted == [k \in DOMAIN order |-> Marked(order[k])]
        <5>1. posted \in Seq(Thread)
          BY <3>1, PostedType
        <5> HIDE DEF posted
        <5>2. threads \in Seq(Thread)
          BY DEF TypeOK
        <5> QED
          BY <4>2, <5>1, <5>2, ConcatProperties DEF posted
      <4> QED
        BY <2>5, <4>1, <4>2 DEF Publish
    <3>3. fetched' \in BOOLEAN
      BY <2>5 DEF Publish
    <3>4. listed' \in Seq(Thread)
      BY <2>5, EmptySeq DEF Publish
    <3> QED
      BY <3>1, <3>2, <3>3, <3>4 DEF TypeOK
  <2>6. CASE UNCHANGED vars
    BY <2>6 DEF vars, TypeOK
  <2> QED
    BY <2>1, <2>2, <2>3, <2>4, <2>5, <2>6 DEF Next
<1> QED
  BY <1>1, <1>2, PTL DEF Spec

-----------------------------------------------------------------------------
(* The block. *)

\* The caps hold for any list: all but the last thread shown are before it, and were within
\* the caps when it was written.
LEMMA ShownBounded ==
    ASSUME NEW ts \in Seq(Thread)
    PROVE  /\ Cardinality(Shown(ts)) <= maxThreads
           /\ SizeOf(ts, Shown(ts)) < maxThreadsBytes + MaxThread
<1> DEFINE S == Shown(ts)
           before(i) == {j \in Theirs(ts) : j < i}
<1>1. Theirs(ts) \subseteq DOMAIN ts /\ DOMAIN ts = 1..Len(ts) /\ Len(ts) \in Nat
  BY LenProperties DEF Theirs
<1>2. S \subseteq Theirs(ts)
      /\ \A i \in S : Cardinality(before(i)) < maxThreads /\ SizeOf(ts, before(i)) < maxThreadsBytes
  BY DEF Shown
<1>3. IsFiniteSet(DOMAIN ts) /\ IsFiniteSet(S)
  <2>1. IsFiniteSet(1..Len(ts))
    BY <1>1, FS_Interval
  <2>2. IsFiniteSet(DOMAIN ts)
    BY <1>1, <2>1
  <2>3. S \subseteq DOMAIN ts
    BY <1>1, <1>2
  <2> QED
    BY <2>2, <2>3, FS_Subset
<1>4. maxThreads \in Nat \ {0} /\ maxThreadsBytes \in Nat \ {0} /\ MaxThread \in Nat
  <2>1. maxThreadComment \in Nat /\ MaxBody \in Nat
    BY ThreadsAssumption DEF MaxBody
  <2>2. maxThreadComment * MaxBody \in Nat
    BY <2>1, SMTT(30)
  <2> QED
    BY <2>2, ThreadsAssumption DEF MaxThread
<1>5. CASE S = {}
  <2>1. SizeOf(ts, {}) = 0
    <3>1. PICK f : /\ IsSum(f, [i \in DOMAIN ts |-> ThreadSize(ts[i])], DOMAIN ts)
                   /\ \A P \in SUBSET DOMAIN ts : SizeOf(ts, P) = f[P]
      BY SizeIsSum
    <3> QED
      BY <3>1 DEF IsSum
  <2> QED
    BY <1>4, <1>5, <2>1, FS_EmptySet
<1>6. CASE S # {}
  <2>1. PICK m \in S : \A i \in S : i <= m
    BY <1>1, <1>2, <1>3, <1>6, LargestExists
  <2>2. S \ {m} \subseteq before(m)
    BY <1>1, <1>2, <2>1
  <2>3. before(m) \subseteq DOMAIN ts /\ IsFiniteSet(before(m))
    BY <1>1, <1>3, FS_Subset
  <2>4. Cardinality(S) <= maxThreads
    <3>1. Cardinality(S \ {m}) <= Cardinality(before(m)) /\ IsFiniteSet(S \ {m})
      BY <2>2, <2>3, FS_Subset
    <3>2. Cardinality(S \ {m}) = Cardinality(S) - 1
      BY <1>3, <2>1, FS_RemoveElement
    <3>3. Cardinality(S) \in Nat /\ Cardinality(before(m)) \in Nat
      BY <1>3, <2>3, FS_CardinalityType
    <3>4. Cardinality(before(m)) < maxThreads
      BY <1>2, <2>1
    <3> HIDE DEF S, before
    <3> QED
      BY <1>4, <3>1, <3>2, <3>3, <3>4
  <2>5. SizeOf(ts, S) < maxThreadsBytes + MaxThread
    <3>1. SizeOf(ts, S \ {m}) <= SizeOf(ts, before(m)) /\ SizeOf(ts, before(m)) \in Nat
      BY <2>2, <2>3, SizeProperties
    <3>2. S \in SUBSET DOMAIN ts /\ S \ {m} \in SUBSET DOMAIN ts
      BY <1>1, <1>2
    <3>3. SizeOf(ts, S) = ThreadSize(ts[m]) + SizeOf(ts, S \ {m}) /\ ThreadSize(ts[m]) \in 1..MaxThread
          /\ SizeOf(ts, S \ {m}) \in Nat
      <4> HIDE DEF S
      <4> QED
        BY <2>1, <3>2, SizeProperties
    <3>4. SizeOf(ts, before(m)) < maxThreadsBytes
      BY <1>2, <2>1
    <3> HIDE DEF S, before
    <3> QED
      BY <1>4, <3>1, <3>3, <3>4
  <2> QED
    BY <2>4, <2>5
<1> QED
  BY <1>5, <1>6

\* The block that a review step is given has no more threads than its cap, and goes over its
\* size by less than one thread, for all caps and however many threads were listed.
THEOREM BlockAlwaysBounded == Spec => []BlockBounded
<1>1. TypeOK => BlockBounded
  <2> SUFFICES ASSUME TypeOK PROVE BlockBounded
    OBVIOUS
  <2>1. listed \in Seq(Thread)
    BY DEF TypeOK
  <2> QED
    BY <2>1, ShownBounded DEF BlockBounded, MaxThread, MaxBody
<1> QED
  BY <1>1, TypeCorrect, PTL

\* What is within the caps altogether is shown altogether.
LEMMA AllShown ==
    ASSUME NEW ts \in Seq(Thread),
           Cardinality(Theirs(ts)) <= maxThreads, SizeOf(ts, Theirs(ts)) <= maxThreadsBytes
    PROVE  Theirs(ts) \subseteq Shown(ts)
<1> SUFFICES ASSUME NEW i \in Theirs(ts) PROVE i \in Shown(ts)
  OBVIOUS
<1> DEFINE A == Theirs(ts)
           B == {j \in Theirs(ts) : j < i}
<1>1. A \subseteq DOMAIN ts /\ DOMAIN ts = 1..Len(ts) /\ Len(ts) \in Nat
  BY LenProperties DEF Theirs
<1>2. IsFiniteSet(A) /\ A \ {i} \subseteq DOMAIN ts /\ B \subseteq A \ {i} /\ i \in A
  <2>1. IsFiniteSet(1..Len(ts))
    BY <1>1, FS_Interval
  <2>2. IsFiniteSet(DOMAIN ts)
    BY <1>1, <2>1
  <2>3. IsFiniteSet(A)
    BY <1>1, <2>2, FS_Subset
  <2> QED
    BY <1>1, <2>3
<1>3. maxThreads \in Nat /\ maxThreadsBytes \in Nat
  BY ThreadsAssumption
<1>4. Cardinality(B) < maxThreads
  <2>1. IsFiniteSet(A \ {i}) /\ Cardinality(A \ {i}) = Cardinality(A) - 1
    BY <1>2, FS_RemoveElement
  <2>2. IsFiniteSet(B) /\ Cardinality(B) <= Cardinality(A \ {i})
    BY <1>2, <2>1, FS_Subset
  <2>3. Cardinality(A) \in Nat /\ Cardinality(B) \in Nat
    BY <1>2, <2>2, FS_CardinalityType
  <2> HIDE DEF A, B
  <2> QED
    BY <1>3, <2>1, <2>2, <2>3 DEF A
<1>5. SizeOf(ts, B) < maxThreadsBytes
  <2>1. SizeOf(ts, B) <= SizeOf(ts, A \ {i}) /\ SizeOf(ts, A \ {i}) \in Nat
    BY <1>2, SizeProperties
  <2>2. SizeOf(ts, A) = ThreadSize(ts[i]) + SizeOf(ts, A \ {i}) /\ ThreadSize(ts[i]) \in 1..MaxThread
    BY <1>1, <1>2, SizeProperties
  <2>3. SizeOf(ts, B) \in Nat
    BY <1>1, <1>2, SizeProperties
  <2> HIDE DEF A, B
  <2> QED
    BY <1>3, <2>1, <2>2, <2>3 DEF A
<1> QED
  BY <1>4, <1>5 DEF Shown

\* What a person has asked for is not asked for again, for all caps: Momos's own threads
\* never use up the room of the block.
THEOREM NeverDuplicatesWithinCaps == Spec => NoDuplicateWithinCaps
<1>1. TypeOK /\ [Next]_vars =>
        (LET theirs == {i \in DOMAIN listed : ~Mine(listed[i])}
         IN  Publishes /\ Cardinality(theirs) <= maxThreads
               /\ SizeOf(listed, theirs) <= maxThreadsBytes
               => \A i \in theirs : listed[i].about \notin raised')
  <2> DEFINE theirs == {i \in DOMAIN listed : ~Mine(listed[i])}
  <2> SUFFICES ASSUME TypeOK, [Next]_vars, Publishes, Cardinality(theirs) <= maxThreads,
                      SizeOf(listed, theirs) <= maxThreadsBytes, NEW i \in theirs
               PROVE  listed[i].about \notin raised'
    OBVIOUS
  <2>1. listed \in Seq(Thread) /\ theirs = Theirs(listed)
    BY DEF TypeOK, Theirs
  <2>2. i \in Shown(listed)
    BY <2>1, AllShown
  <2>3. listed[i].about \in Covered(listed)
    BY <2>2 DEF Covered
  <2> QED
    BY <2>3, OnlyPublish DEF Found
<1> QED
  BY <1>1, TypeCorrect, PTL DEF Spec, NoDuplicateWithinCaps
=============================================================================
