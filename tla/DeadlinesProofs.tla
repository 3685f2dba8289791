--------------------------- MODULE DeadlinesProofs ---------------------------
(***************************************************************************)
(* Proofs about Deadlines for every configuration: whatever the limits,    *)
(* the timeout and the unit of time are.                                   *)
(***************************************************************************)
EXTENDS Deadlines, TLAPS

\* Nobody works past the end of a context, and contexts follow each other.
Contexts ==
    /\ now <= ends
    /\ stage \in {"process", "submit"} => ends <= ProcessLimit
    /\ stage = "review" => ends <= begun + ReviewLimit
    /\ stage \in {"publish", "report"} => ends <= begun + ReviewLimit + PublishLimit

\* What the tokens say, from when they are minted on.
Tokens ==
    /\ stage # "process" => forgeExp >= ForgeTTL
    /\ stage \notin {"process", "submit"} => callExp = sent + TTL /\ sent <= ProcessLimit
    /\ stage \notin {"report", "over"} => posted = "no" /\ ~told /\ ~refused

\* What was found expired, and when.
Expired ==
    /\ refused => callExp < begun + ReviewLimit + PublishLimit
    /\ posted = "refused" => forgeExp <= now
    /\ told /\ posted = "refused" => forgeExp <= callExp

IInv == TypeOK /\ Contexts /\ Tokens /\ Expired
-----------------------------------------------------------------------------
\* The numbers are numbers.
LEMMA Numbers ==
    /\ Configured \in Nat /\ Unset \in Nat /\ Grace \in Nat /\ ProcessLimit \in Nat
    /\ ReviewLimit \in Nat /\ PublishLimit \in Nat /\ ForgeTTL \in Nat /\ MaxTime \in Nat
    /\ TTL \in Nat /\ Never \in Nat
<1>1. /\ Configured \in Nat /\ Unset \in Nat /\ Grace \in Nat /\ ProcessLimit \in Nat
      /\ ReviewLimit \in Nat /\ PublishLimit \in Nat /\ ForgeTTL \in Nat /\ MaxTime \in Nat
  BY DeadlinesAssumption
<1>2. TTL \in Nat
  BY <1>1 DEF TTL
<1>3. Never \in Nat
  BY <1>1 DEF Never
<1>4. QED
  BY <1>1, <1>2, <1>3

\* The initial state satisfies the invariant.
LEMMA InvInit == Init => IInv
<1> SUFFICES ASSUME Init PROVE IInv
  OBVIOUS
<1>1. now \in 0..MaxTime /\ {ends, forgeExp, callExp} \subseteq Nat /\ {sent, begun} \subseteq 0..MaxTime
  BY Numbers DEF Init
<1>2. /\ stage \in Stages /\ posted \in {"no", "yes", "refused"}
      /\ status \in {"submitted", "timeout", "reported"}
  BY DEF Init, Stages
<1>3. told \in BOOLEAN /\ refused \in BOOLEAN
  BY DEF Init
<1>4. TypeOK
  BY <1>1, <1>2, <1>3 DEF TypeOK
<1>5. Contexts /\ Tokens /\ Expired
  BY Numbers DEF Init, Contexts, Tokens, Expired
<1>6. QED
  BY <1>4, <1>5 DEF IInv

\* Every step keeps the invariant.
LEMMA InvStep == IInv /\ [Next]_vars => IInv'
<1> SUFFICES ASSUME IInv, [Next]_vars PROVE IInv'
  OBVIOUS
<1> USE Numbers DEF IInv
<1>0. now \in Nat /\ now <= MaxTime /\ ends \in Nat /\ forgeExp \in Nat /\ callExp \in Nat
      /\ sent \in Nat /\ begun \in Nat
  BY DEF TypeOK
<1>1. CASE Tick
  <2>1. TypeOK'
    BY <1>0, <1>1 DEF TypeOK, Tick
  <2>2. QED
    BY <1>0, <1>1, <2>1 DEF Tick, Contexts, Tokens, Expired
<1>2. CASE MintToken
  <2>1. TypeOK'
    BY <1>0, <1>2 DEF TypeOK, MintToken, Stages
  <2>2. QED
    BY <1>0, <1>2, <2>1 DEF MintToken, Contexts, Tokens, Expired
<1>3. CASE Submit
  <2>1. TypeOK'
    BY <1>0, <1>3 DEF TypeOK, Submit, Stages
  <2>2. QED
    BY <1>0, <1>3, <2>1 DEF Submit, Contexts, Tokens, Expired, Never
<1>4. CASE Review
  <2>1. TypeOK'
    BY <1>0, <1>4 DEF TypeOK, Review, Stages
  <2>2. QED
    BY <1>0, <1>4, <2>1 DEF Review, Contexts, Tokens, Expired
<1>5. CASE Publish
  <2>1. TypeOK'
    BY <1>0, <1>5 DEF TypeOK, Publish, Stages
  <2>2. QED
    BY <1>0, <1>5, <2>1 DEF Publish, Contexts, Tokens, Expired
<1>6. CASE Post
  <2>1. TypeOK'
    BY <1>0, <1>6 DEF TypeOK, Post, Stages
  <2>2. QED
    BY <1>0, <1>6, <2>1 DEF Post, Contexts, Tokens, Expired
<1>7. CASE Callback
  <2>1. TypeOK'
    BY <1>0, <1>7 DEF TypeOK, Callback, Stages
  <2>2. Contexts'
    BY <1>0, <1>7, <2>1 DEF Callback, Contexts, Never
  <2>3. Tokens'
    BY <1>0, <1>7, <2>1 DEF Callback, Tokens
  <2>4. Expired'
    BY <1>0, <1>7, <2>1 DEF Callback, Valid, Contexts, Expired
  <2>5. QED
    BY <2>1, <2>2, <2>3, <2>4
<1>8. CASE GiveUp
  <2>1. TypeOK'
    BY <1>0, <1>8 DEF TypeOK, GiveUp, Stages
  <2>2. QED
    BY <1>0, <1>8, <2>1 DEF GiveUp, Contexts, Tokens, Expired, Never
<1>9. CASE Reconcile
  <2>1. TypeOK'
    BY <1>0, <1>9 DEF TypeOK, Reconcile
  <2>2. QED
    BY <1>0, <1>9, <2>1 DEF Reconcile, Contexts, Tokens, Expired
<1>10. CASE UNCHANGED vars
  BY <1>10 DEF vars, TypeOK, Contexts, Tokens, Expired
<1>11. QED
  BY <1>1, <1>2, <1>3, <1>4, <1>5, <1>6, <1>7, <1>8, <1>9, <1>10 DEF Next

\* What is proved below rests on this invariant.
LEMMA Invariance == Spec => []IInv
BY InvInit, InvStep, PTL DEF Spec
-----------------------------------------------------------------------------
\* Every variable keeps its type, for every configuration.
THEOREM TypeCorrect == Spec => []TypeOK
BY Invariance, PTL DEF IInv

\* For every configuration: a callback is refused only when the job waited in the queue and
\* its clone for longer than what timeout and grace leave over.
THEOREM HeardUnlessQueuedAlways == Spec => []HeardUnlessQueued
<1>1. IInv => HeardUnlessQueued
  <2> SUFFICES ASSUME IInv, refused PROVE ~(begun - sent <= Spare)
    BY DEF HeardUnlessQueued
  <2>1. stage \in {"report", "over"}
    BY DEF IInv, TypeOK, Stages, Tokens
  <2>2. callExp = sent + TTL /\ callExp < begun + ReviewLimit + PublishLimit
    BY <2>1 DEF IInv, Tokens, Expired
  <2>3. QED
    BY <2>2, Numbers DEF IInv, TypeOK, Spare
<1>2. QED
  BY <1>1, Invariance, PTL

\* For every configuration that leaves the forge token the longer one, what is reported is
\* not a post the forge refused for its token.
THEOREM HeardOnlyIfPostedAlways == Spec => []HeardOnlyIfPosted
<1>1. IInv => HeardOnlyIfPosted
  <2> SUFFICES ASSUME IInv, ProcessLimit + TTL < ForgeTTL, told PROVE posted # "refused"
    BY DEF HeardOnlyIfPosted
  <2>1. stage \in {"report", "over"}
    BY DEF IInv, TypeOK, Stages, Tokens
  <2>2. callExp = sent + TTL /\ sent <= ProcessLimit /\ forgeExp >= ForgeTTL
    BY <2>1 DEF IInv, Tokens
  <2>3. posted = "refused" => forgeExp <= callExp
    BY DEF IInv, Expired
  <2>4. QED
    BY <2>2, <2>3, Numbers DEF IInv, TypeOK
<1>2. QED
  BY <1>1, Invariance, PTL
=============================================================================
