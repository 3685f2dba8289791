--------------------------- MODULE PublisherProofs ---------------------------
(***************************************************************************)
(* Proofs about Publisher for every set of runs and findings, every length *)
(* of a page and every bound.                                              *)
(***************************************************************************)
EXTENDS Publisher, SequenceTheorems, TLAPS

USE DEF jobVars, prVars

-----------------------------------------------------------------------------
(* Type correctness. *)

\* The initial values have their types.
LEMMA TypeInit == Init => TypeOK
<1>1. 1 \in 1..MaxHead /\ 0 \in 0..MaxReruns
  BY PublisherAssumption
<1>2. QED
  BY <1>1 DEF Init, TypeOK, PCs, Verdicts, Outcomes

\* reviewEvent returns one of GitHub's events.
LEMMA EventType == \A r \in Runs : ReviewEvent(r) \in Events
  BY DEF ReviewEvent, Events

\* A sequence to which an element may have been appended.
LEMMA AppendOneOf ==
    ASSUME NEW S, NEW s \in Seq(S), NEW x \in S, NEW t \in {s, Append(s, x)}
    PROVE  /\ t \in Seq(S)
           /\ Len(s) \in Nat
           /\ \A i \in 1..Len(s) : i \in 1..Len(t) /\ t[i] = s[i]
           /\ \A i \in 1..Len(t) : i \in 1..Len(s) \/ (t = Append(s, x) /\ i = Len(s) + 1 /\ t[i] = x)
           /\ t = Append(s, x) => Len(s) + 1 \in 1..Len(t) /\ t[Len(s) + 1] = x
<1>1. /\ Append(s, x) \in Seq(S)
      /\ Len(Append(s, x)) = Len(s) + 1
      /\ \A i \in 1..Len(s) : Append(s, x)[i] = s[i]
      /\ Append(s, x)[Len(s) + 1] = x
  BY AppendProperties
<1>2. Len(s) \in Nat
  BY LenProperties
<1>3. CASE t = s
  <2>1. t # Append(s, x)
    <3>1. Len(t) # Len(s) + 1
      BY <1>2, <1>3
    <3>2. QED
      BY <1>1, <3>1
  <2>2. t \in Seq(S) /\ \A i \in 1..Len(s) : i \in 1..Len(t) /\ t[i] = s[i]
    BY ONLY <1>3, s \in Seq(S)
  <2>3. \A i \in 1..Len(t) : i \in 1..Len(s)
    BY ONLY <1>3
  <2>4. QED
    BY ONLY <1>2, <2>1, <2>2, <2>3
<1>4. CASE t = Append(s, x)
  <2>1. /\ t \in Seq(S) /\ Len(t) = Len(s) + 1 /\ t[Len(s) + 1] = x
        /\ \A i \in 1..Len(s) : t[i] = s[i]
    BY <1>1, <1>4
  <2>2. \A i \in 1..Len(s) : i \in 1..Len(t) /\ t[i] = s[i]
    BY <1>2, <2>1
  <2>3. ASSUME NEW i \in 1..Len(t) PROVE i \in 1..Len(s) \/ (i = Len(s) + 1 /\ t[i] = x)
    <3>1. i \in 1..Len(s) \/ i = Len(s) + 1
      BY ONLY <1>2, <2>1, i \in 1..Len(t)
    <3>2. QED
      BY ONLY <2>1, <3>1
  <2>4. Len(s) + 1 \in 1..Len(t)
    BY <1>2, <2>1
  <2>5. QED
    BY ONLY <1>2, <1>4, <2>1, <2>2, <2>3, <2>4
<1>5. QED
  BY <1>3, <1>4

\* Every step keeps the types.
LEMMA TypeNext == TypeOK /\ [Next]_vars => TypeOK'
<1> SUFFICES ASSUME TypeOK, [Next]_vars PROVE TypeOK'
  OBVIOUS
<1> USE DEF TypeOK, Goto, Finish, PCs, Outcomes
<1>1. CASE Push
  BY <1>1, PublisherAssumption DEF Push
<1>2. CASE Comment
  BY <1>2 DEF Comment
<1>3. ASSUME NEW r \in Runs, StartJob(r) PROVE TypeOK'
  <2>1. raw' \in [Runs -> SUBSET Findings] /\ verdict' \in [Runs -> Verdicts \cup {"none"}]
    <3>1. ASSUME NEW found \in SUBSET Findings, NEW v \in Verdicts,
                 raw' = [raw EXCEPT ![r] = found], verdict' = [verdict EXCEPT ![r] = v]
          PROVE  raw' \in [Runs -> SUBSET Findings] /\ verdict' \in [Runs -> Verdicts \cup {"none"}]
      BY <3>1
    <3>2. CASE UNCHANGED <<raw, verdict>>
      BY <3>2
    <3>3. QED
      BY <1>3, <3>1, <3>2 DEF StartJob
  <2>2. expected' \in [Runs -> 1..MaxHead]
    <3>1. PICK h \in 1..head : expected' = [expected EXCEPT ![r] = h]
      BY <1>3 DEF StartJob
    <3>2. h \in 1..MaxHead
      BY PublisherAssumption
    <3>3. QED
      BY <3>1, <3>2
  <2>3. QED
    BY <1>3, <2>1, <2>2 DEF StartJob
<1>4. ASSUME NEW r \in Runs, Rerun(r) PROVE TypeOK'
  BY <1>4, PublisherAssumption DEF Rerun
<1>5. ASSUME NEW r \in Runs, Step(r) PROVE TypeOK'
  <2>1. CASE ReadReview(r)
    BY <2>1 DEF ReadReview
  <2>2. CASE CheckFreshness(r)
    BY <2>2 DEF CheckFreshness
  <2>3. CASE ListSummaries(r)
    BY <2>3 DEF ListSummaries
  <2>4. CASE WriteSummary(r)
    <3>1. comments' \in {comments, Append(comments, r)}
      BY <2>4 DEF WriteSummary
    <3>2. comments' \in Seq(Runs \cup {Person})
      <4>1. comments \in Seq(Runs \cup {Person}) /\ r \in Runs \cup {Person}
        OBVIOUS
      <4>2. QED
        BY ONLY <3>1, <4>1, AppendOneOf
    <3>3. QED
      BY <2>4, <3>2 DEF WriteSummary, AfterSummary
  <2>5. CASE DeletePrior(r)
    <3>1. inline' \in Seq(Runs \cup {Deleted})
      <4> DEFINE T == Runs \cup {Deleted}
      <4>1. inline \in Seq(T) /\ Len(inline) \in Nat /\ \A i \in 1..Len(inline) : inline[i] \in T
        <5>1. inline \in Seq(T)
          OBVIOUS
        <5>2. QED
          BY ONLY <5>1, LenProperties, ElementOfSeq
      <4>2. ASSUME NEW gone, inline' = [i \in 1..Len(inline) |-> IF i \in gone THEN Deleted ELSE inline[i]]
            PROVE  inline' \in Seq(T)
        <5>1. inline' \in [1..Len(inline) -> T]
          BY ONLY <4>1, <4>2
        <5>2. QED
          BY ONLY <4>1, <5>1, SeqDef
      <4>3. QED
        BY <2>5, <4>1, <4>2 DEF DeletePrior
    <3>2. QED
      BY <2>5, <3>1 DEF DeletePrior
  <2>6. CASE SubmitReview(r)
    <3>1. inline' \in {inline, Append(inline, r)}
      BY <2>6 DEF SubmitReview
    <3>2. inline' \in Seq(Runs \cup {Deleted})
      <4>1. inline \in Seq(Runs \cup {Deleted}) /\ r \in Runs \cup {Deleted}
        OBVIOUS
      <4>2. QED
        BY ONLY <3>1, <4>1, AppendOneOf
    <3>3. QED
      BY <2>6, <3>2, EventType DEF SubmitReview
  <2>7. CASE Report(r)
    BY <2>7 DEF Report
  <2>8. QED
    BY <1>5, <2>1, <2>2, <2>3, <2>4, <2>5, <2>6, <2>7 DEF Step
<1>6. CASE UNCHANGED vars
  BY <1>6 DEF vars
<1>7. QED
  BY <1>1, <1>2, <1>3, <1>4, <1>5, <1>6 DEF Next

\* Every variable keeps its type; in particular only GitHub's review events are submitted.
THEOREM TypeCorrect == Spec => []TypeOK
<1>1. QED
  BY TypeInit, TypeNext, PTL DEF Spec
-----------------------------------------------------------------------------
(* The inductive invariant. *)

Visible(r) == Reviewed(r) \/ Commented(r)

\* A run that is about to change its summary, or past it, has one.
SummaryInv ==
    /\ \A r \in Runs : pc[r] \in {"patch", "prior", "review"} => Summarised(r)
    /\ \A r \in Runs : outcome[r] \in {"succeeded", "stale"} => Summarised(r)
    /\ \A r \in Runs : reported[r] \in {"succeeded", "stale"} => Summarised(r)
    /\ SummaryComesFirst

\* A run that is about to post a first summary has none that it could have seen.
UpsertInv ==
    /\ \A r \in Runs : pc[r] = "post" =>
          \A i \in 1..Len(comments) : comments[i] = r => i > PageSize
    /\ SummaryUpsert

\* What a publisher that runs for the first time has left on the pull request so far.
FirstPass(q) ==
    /\ pc[q] = "waiting" => ~Visible(q) /\ reruns[q] = 0
    /\ reruns[q] = 0 /\ pc[q] \notin {"report", "done"} => ~Visible(q)
    /\ reruns[q] = 0 /\ pc[q] # "done" => reported[q] = "none"
    /\ reruns[q] = 0 /\ outcome[q] \in {"stale", "review_failed"} => ~Visible(q)
    /\ reruns[q] = 0 => reported[q] \in {"none", outcome[q]}

FirstPassInv == \A q \in Runs : FirstPass(q)

IInv == TypeOK /\ SummaryInv /\ UpsertInv /\ FirstPassInv /\ NoApprovalOverVisibleFinding

\* Comments are never taken away: a run that has a summary keeps it.
LEMMA SummaryStays ==
    ASSUME TypeOK, [Next]_vars
    PROVE  /\ \A r \in Runs : Summarised(r) => Summarised(r)'
           /\ \E x \in Runs \cup {Person} : comments' \in {comments, Append(comments, x)}
<1>1. \E x \in Runs \cup {Person} : comments' \in {comments, Append(comments, x)}
  <2>1. CASE Comment
    BY <2>1 DEF Comment
  <2>2. ASSUME NEW r \in Runs, WriteSummary(r)
        PROVE  comments' \in {comments, Append(comments, r)}
    BY <2>2 DEF WriteSummary
  <2>3. CASE ~Comment /\ \A r \in Runs : ~WriteSummary(r)
    BY <2>3 DEF Next, Step, Push, StartJob, Rerun, ReadReview, CheckFreshness, ListSummaries,
                DeletePrior, SubmitReview, Report, vars
  <2>4. QED
    BY <2>1, <2>2, <2>3
<1>2. PICK x \in Runs \cup {Person} : comments' \in {comments, Append(comments, x)}
  BY <1>1
<1>3. ASSUME NEW r \in Runs, Summarised(r) PROVE Summarised(r)'
  <2>1. PICK i \in 1..Len(comments) : comments[i] = r
    BY <1>3 DEF Summarised
  <2>2. comments \in Seq(Runs \cup {Person})
    BY DEF TypeOK
  <2>3. i \in 1..Len(comments') /\ comments'[i] = r
    BY <1>2, <2>1, <2>2, AppendOneOf
  <2>4. QED
    BY <2>3 DEF Summarised
<1>4. QED
  BY <1>1, <1>3

\* Only submitting a review makes a run visible that was not.
LEMMA VisibleStays ==
    ASSUME TypeOK, [Next]_vars, NEW r \in Runs, ~SubmitReview(r), Visible(r)'
    PROVE  Visible(r)
<1>1. CASE UNCHANGED <<inline, reviews>>
  BY <1>1 DEF Visible, Reviewed, Commented
<1>2. ASSUME NEW q \in Runs, DeletePrior(q) PROVE Visible(r)
  <2>1. reviews' = reviews
    BY <1>2 DEF DeletePrior
  <2>2. ASSUME NEW i \in 1..Len(inline'), inline'[i] = r
        PROVE  i \in 1..Len(inline) /\ inline[i] = r
    BY <1>2, <2>2, PublisherAssumption DEF DeletePrior, TypeOK, Deleted
  <2>3. QED
    BY <2>1, <2>2 DEF Visible, Reviewed, Commented
<1>3. ASSUME NEW q \in Runs, q # r, SubmitReview(q) PROVE Visible(r)
  <2>1. reviews' \subseteq reviews \cup {[run |-> q, event |-> ReviewEvent(q), on |-> head]}
    BY <1>3 DEF SubmitReview
  <2>2. inline' \in {inline, Append(inline, q)}
    BY <1>3 DEF SubmitReview
  <2>3. ASSUME NEW i \in 1..Len(inline'), inline'[i] = r
        PROVE  i \in 1..Len(inline) /\ inline[i] = r
    <3>1. inline \in Seq(Runs \cup {Deleted})
      BY DEF TypeOK
    <3>2. CASE inline' = inline
      BY <2>3, <3>2
    <3>3. CASE inline' = Append(inline, q)
      BY <1>3, <2>3, <3>1, <3>3, AppendOneOf
    <3>4. QED
      BY <2>2, <3>2, <3>3
  <2>4. QED
    BY <1>3, <2>1, <2>3 DEF Visible, Reviewed, Commented
<1>4. QED
  BY <1>1, <1>2, <1>3 DEF Next, Step, Push, Comment, StartJob, Rerun, ReadReview,
                          CheckFreshness, ListSummaries, WriteSummary, Report, vars

\* A run's actions leave the publishers of the other runs alone.
LEMMA Frame ==
    ASSUME TypeOK, NEW r \in Runs, StartJob(r) \/ Rerun(r) \/ Step(r), NEW q \in Runs, q # r
    PROVE  /\ pc'[q] = pc[q] /\ outcome'[q] = outcome[q] /\ reported'[q] = reported[q]
           /\ reruns'[q] = reruns[q] /\ raw'[q] = raw[q]
<1> USE DEF TypeOK, Goto, Finish
<1>1. CASE StartJob(r)
  BY <1>1 DEF StartJob
<1>2. CASE Rerun(r)
  BY <1>2 DEF Rerun
<1>3. CASE ReadReview(r)
  BY <1>3 DEF ReadReview
<1>4. CASE CheckFreshness(r)
  BY <1>4 DEF CheckFreshness
<1>5. CASE ListSummaries(r)
  BY <1>5 DEF ListSummaries
<1>6. CASE WriteSummary(r)
  BY <1>6 DEF WriteSummary, AfterSummary
<1>7. CASE DeletePrior(r)
  BY <1>7 DEF DeletePrior
<1>8. CASE SubmitReview(r)
  BY <1>8 DEF SubmitReview
<1>9. CASE Report(r)
  BY <1>9 DEF Report
<1>10. QED
  BY <1>1, <1>2, <1>3, <1>4, <1>5, <1>6, <1>7, <1>8, <1>9 DEF Step

\* The pull request's own actions, and stuttering, leave every publisher alone.
LEMMA FrameAll ==
    ASSUME Push \/ Comment \/ UNCHANGED vars
    PROVE  UNCHANGED <<policy, pc, jobVars, stale, outcome, reported, reruns, reviews, inline>>
BY DEF Push, Comment, vars
-----------------------------------------------------------------------------
(* The invariant's parts are kept. *)

\* What a run's action does to its own publisher, as far as its summary is concerned.
LEMMA SummaryFlow ==
    ASSUME TypeOK, SummaryInv, NEW r \in Runs, StartJob(r) \/ Rerun(r) \/ Step(r)
    PROVE  /\ pc'[r] \in {"patch", "prior", "review"} => Summarised(r) \/ Summarised(r)'
           /\ outcome'[r] \in {"succeeded", "stale"} => Summarised(r) \/ Summarised(r)'
           /\ reported'[r] \in {"succeeded", "stale"} => Summarised(r)
<1> USE DEF TypeOK, Goto, Finish, SummaryInv
<1>1. CASE StartJob(r)
  BY <1>1 DEF StartJob
<1>2. CASE Rerun(r)
  BY <1>2 DEF Rerun
<1>3. CASE ReadReview(r)
  BY <1>3 DEF ReadReview
<1>4. CASE CheckFreshness(r)
  BY <1>4 DEF CheckFreshness
<1>5. CASE ListSummaries(r)
  <2>1. r \in Listed(comments) => Summarised(r)
    <3>1. Len(comments) \in Nat /\ PageSize \in Nat
      <4>1. comments \in Seq(Runs \cup {Person})
        OBVIOUS
      <4>2. QED
        BY <4>1, LenProperties, PublisherAssumption
    <3>2. QED
      BY ONLY <3>1 DEF Listed, Summarised
  <2>2. QED
    BY <1>5, <2>1 DEF ListSummaries
<1>6. CASE WriteSummary(r)
  <2>1. comments' = Append(comments, r) => Summarised(r)'
    <3>1. comments \in Seq(Runs \cup {Person}) /\ r \in Runs \cup {Person}
      OBVIOUS
    <3>2. comments' = Append(comments, r) =>
             \E i \in 1..Len(comments') : comments'[i] = r
      BY ONLY <3>1, AppendOneOf
    <3>3. QED
      BY ONLY <3>2 DEF Summarised
  <2>2. CASE comments' = (IF pc[r] = "post" THEN Append(comments, r) ELSE comments)
    BY <1>6, <2>1, <2>2 DEF WriteSummary, AfterSummary
  <2>3. CASE Finish(r, "review_failed")
    BY <1>6, <2>3 DEF WriteSummary
  <2>4. QED
    BY <1>6, <2>2, <2>3 DEF WriteSummary
<1>7. CASE DeletePrior(r)
  BY <1>7 DEF DeletePrior
<1>8. CASE SubmitReview(r)
  BY <1>8 DEF SubmitReview
<1>9. CASE Report(r)
  BY <1>9 DEF Report
<1>10. QED
  BY <1>1, <1>2, <1>3, <1>4, <1>5, <1>6, <1>7, <1>8, <1>9 DEF Step

\* A run's summary is written before anything that depends on it, and stays.
LEMMA SummaryNext ==
    ASSUME TypeOK, SummaryInv, [Next]_vars
    PROVE  SummaryInv'
<1>1. \A q \in Runs : Summarised(q) => Summarised(q)'
  BY SummaryStays
<1>2. SummaryComesFirst'
  <2>1. ASSUME NEW q \in Runs, Visible(q)' PROVE Summarised(q)'
    <3>1. CASE SubmitReview(q)
      BY <1>1, <3>1 DEF SubmitReview, SummaryInv
    <3>2. CASE ~SubmitReview(q)
      BY <1>1, <2>1, <3>2, VisibleStays DEF SummaryInv, SummaryComesFirst, Visible
    <3>3. QED
      BY <3>1, <3>2
  <2>2. QED
    BY <2>1 DEF SummaryComesFirst, Visible
<1>3. ASSUME NEW q \in Runs
      PROVE  /\ pc'[q] \in {"patch", "prior", "review"} => Summarised(q)'
             /\ outcome'[q] \in {"succeeded", "stale"} => Summarised(q)'
             /\ reported'[q] \in {"succeeded", "stale"} => Summarised(q)'
  <2>1. ASSUME NEW r \in Runs, StartJob(r) \/ Rerun(r) \/ Step(r), q # r
        PROVE  pc'[q] = pc[q] /\ outcome'[q] = outcome[q] /\ reported'[q] = reported[q]
    BY <2>1, Frame
  <2>2. CASE StartJob(q) \/ Rerun(q) \/ Step(q)
    BY <1>1, <2>2, SummaryFlow
  <2>3. CASE Push \/ Comment \/ UNCHANGED vars
    BY <1>1, <2>3, FrameAll DEF SummaryInv
  <2>4. QED
    BY <1>1, <2>1, <2>2, <2>3 DEF Next, SummaryInv
<1>4. QED
  BY <1>2, <1>3 DEF SummaryInv

\* A publisher posts a first summary only if the first page holds none of its run, and
\* nobody else posts one in its place.
LEMMA UpsertNext ==
    ASSUME TypeOK, UpsertInv, [Next]_vars
    PROVE  UpsertInv'
<1>1. comments \in Seq(Runs \cup {Person}) /\ PageSize \in Nat /\ Person \notin Runs
  BY PublisherAssumption DEF TypeOK, Person
<1>2. Len(comments) \in Nat
  BY ONLY <1>1, LenProperties
<1> DEFINE Unseen(q) == \A i \in 1..Len(comments) : comments[i] = q => i > PageSize
<1>3. ASSUME NEW q \in Runs, pc'[q] = "post" PROVE pc[q] = "post" \/ ListSummaries(q)
  <2>1. CASE StartJob(q) \/ Rerun(q) \/ Step(q)
    BY <1>3, <2>1 DEF StartJob, Rerun, Step, ReadReview, CheckFreshness, WriteSummary, AfterSummary,
                      DeletePrior, SubmitReview, Report, Goto, Finish, TypeOK
  <2>2. ASSUME NEW r \in Runs, StartJob(r) \/ Rerun(r) \/ Step(r), q # r PROVE pc[q] = "post"
    BY <1>3, <2>2, Frame
  <2>3. CASE Push \/ Comment \/ UNCHANGED vars
    BY <1>3, <2>3, FrameAll
  <2>4. QED
    BY <2>1, <2>2, <2>3 DEF Next
<1>4. ASSUME NEW q \in Runs, ListSummaries(q), pc'[q] = "post" PROVE Unseen(q)
  <2>1. q \notin Listed(comments)
    BY <1>4 DEF ListSummaries, Goto, Finish, TypeOK
  <2>2. QED
    BY <1>1, <1>2, <2>1 DEF Listed
<1>5. CASE comments' = comments
  <2>1. ASSUME NEW q \in Runs, pc'[q] = "post"
        PROVE  \A i \in 1..Len(comments') : comments'[i] = q => i > PageSize
    BY <1>3, <1>4, <1>5, <2>1 DEF UpsertInv
  <2>2. SummaryUpsert'
    BY <1>5 DEF UpsertInv, SummaryUpsert
  <2>3. QED
    BY <2>1, <2>2 DEF UpsertInv
<1>6. ASSUME NEW x \in Runs \cup {Person}, comments' = Append(comments, x),
             x # Person => Unseen(x) /\ pc'[x] # "post",
             \A q \in Runs : ~ListSummaries(q)
      PROVE  UpsertInv'
  <2>1. /\ \A i \in 1..Len(comments) : comments'[i] = comments[i]
        /\ \A i \in 1..Len(comments') : i \in 1..Len(comments) \/ (i = Len(comments) + 1 /\ comments'[i] = x)
    BY ONLY <1>1, <1>6, AppendOneOf
  <2>2. ASSUME NEW q \in Runs, pc'[q] = "post", NEW i \in 1..Len(comments'), comments'[i] = q
        PROVE  i > PageSize
    <3>1. pc[q] = "post" /\ q # x
      BY <1>1, <1>3, <1>6, <2>2
    <3>2. i \in 1..Len(comments) /\ comments[i] = q
      BY <2>1, <2>2, <3>1
    <3>3. QED
      BY <3>1, <3>2 DEF UpsertInv
  <2>3. ASSUME NEW i \in 1..Len(comments'), NEW j \in 1..Len(comments'),
               i < j, comments'[i] = comments'[j], comments'[i] # Person
        PROVE  i > PageSize
    <3>1. i \in 1..Len(comments) /\ comments'[i] = comments[i]
      BY <1>2, <2>1, <2>3
    <3>2. CASE j \in 1..Len(comments)
      BY <2>1, <2>3, <3>1, <3>2 DEF UpsertInv, SummaryUpsert
    <3>3. CASE comments'[j] = x
      BY <1>6, <2>3, <3>1, <3>3
    <3>4. QED
      BY <2>1, <3>2, <3>3
  <2>4. QED
    BY <2>2, <2>3 DEF UpsertInv, SummaryUpsert
<1>7. CASE Comment
  BY <1>6, <1>7 DEF Comment, ListSummaries, Goto, Finish, Person
<1>8. ASSUME NEW r \in Runs, WriteSummary(r), comments' # comments PROVE UpsertInv'
  <2>1. pc[r] = "post" /\ comments' = Append(comments, r)
    BY <1>8 DEF WriteSummary
  <2>2. pc'[r] # "post"
    BY <1>8 DEF WriteSummary, AfterSummary, Goto, Finish, TypeOK
  <2>3. \A q \in Runs : ~ListSummaries(q)
    BY <1>8 DEF ListSummaries
  <2>4. QED
    BY <1>6, <2>1, <2>2, <2>3 DEF UpsertInv
<1>9. CASE ~Comment /\ \A r \in Runs : ~(WriteSummary(r) /\ comments' # comments)
  <2>1. comments' = comments
    BY <1>9 DEF Next, Step, Push, StartJob, Rerun, ReadReview, CheckFreshness, ListSummaries,
                DeletePrior, SubmitReview, Report, vars
  <2>2. QED
    BY <1>5, <2>1
<1>10. QED
  BY <1>7, <1>8, <1>9

\* Until a publisher submits its review, and unless the step ran before, the run left
\* nothing on the diff; what is reported is the outcome.
LEMMA FirstPassNext ==
    ASSUME TypeOK, FirstPassInv, [Next]_vars
    PROVE  FirstPassInv'
<1>1. \A q \in Runs : FirstPass(q)
  BY DEF FirstPassInv
<1>2. ASSUME NEW q \in Runs, ~SubmitReview(q) PROVE Visible(q)' => Visible(q)
  BY <1>2, VisibleStays
<1>3. ASSUME NEW q \in Runs, StartJob(q) \/ Rerun(q) \/ Step(q) PROVE FirstPass(q)'
  <2> USE <1>1 DEF TypeOK, Goto, Finish, FirstPass
  <2>1. CASE SubmitReview(q)
    BY <2>1 DEF SubmitReview
  <2>2. CASE StartJob(q) /\ ~SubmitReview(q)
    BY <2>2, <1>2 DEF StartJob
  <2>3. CASE Rerun(q) /\ ~SubmitReview(q)
    <3>1. reruns'[q] # 0 /\ pc'[q] # "waiting"
      BY <2>3 DEF Rerun
    <3>2. QED
      BY <3>1
  <2>4. CASE ReadReview(q) /\ ~SubmitReview(q)
    BY <2>4, <1>2 DEF ReadReview
  <2>5. CASE CheckFreshness(q) /\ ~SubmitReview(q)
    BY <2>5, <1>2 DEF CheckFreshness
  <2>6. CASE ListSummaries(q) /\ ~SubmitReview(q)
    BY <2>6, <1>2 DEF ListSummaries
  <2>7. CASE WriteSummary(q) /\ ~SubmitReview(q)
    BY <2>7, <1>2 DEF WriteSummary, AfterSummary
  <2>8. CASE DeletePrior(q) /\ ~SubmitReview(q)
    BY <2>8, <1>2 DEF DeletePrior
  <2>9. CASE Report(q) /\ ~SubmitReview(q)
    BY <2>9, <1>2 DEF Report
  <2>10. QED
    BY <1>3, <2>1, <2>2, <2>3, <2>4, <2>5, <2>6, <2>7, <2>8, <2>9 DEF Step
<1>4. ASSUME NEW q \in Runs, ~(StartJob(q) \/ Rerun(q) \/ Step(q)) PROVE FirstPass(q)'
  <2>1. /\ pc'[q] = pc[q] /\ outcome'[q] = outcome[q] /\ reported'[q] = reported[q]
        /\ reruns'[q] = reruns[q]
    <3>1. ASSUME NEW r \in Runs, StartJob(r) \/ Rerun(r) \/ Step(r)
          PROVE  /\ pc'[q] = pc[q] /\ outcome'[q] = outcome[q] /\ reported'[q] = reported[q]
                 /\ reruns'[q] = reruns[q]
      BY <1>4, <3>1, Frame
    <3>2. CASE Push \/ Comment \/ UNCHANGED vars
      BY <3>2, FrameAll
    <3>3. QED
      BY <3>1, <3>2 DEF Next
  <2>2. ~SubmitReview(q)
    BY <1>4 DEF Step
  <2>3. QED
    BY <1>1, <1>2, <2>1, <2>2 DEF FirstPass
<1>5. QED
  BY <1>3, <1>4 DEF FirstPassInv

\* The findings a review was decided on never change afterwards.
LEMMA ApprovalNext ==
    ASSUME TypeOK, FirstPassInv, NoApprovalOverVisibleFinding, [Next]_vars
    PROVE  NoApprovalOverVisibleFinding'
<1>1. policy' = policy
  BY DEF Next, Step, Push, Comment, StartJob, Rerun, ReadReview, CheckFreshness, ListSummaries,
         WriteSummary, DeletePrior, SubmitReview, Report, vars
<1>2. ASSUME NEW v \in reviews PROVE raw'[v.run] = raw[v.run]
  <2>1. v.run \in Runs
    BY DEF TypeOK
  <2>2. ASSUME NEW r \in Runs, StartJob(r) PROVE raw'[v.run] = raw[v.run]
    <3>1. v.run # r
      BY <2>2 DEF StartJob, FirstPassInv, FirstPass, Visible, Reviewed
    <3>2. QED
      BY <2>1, <2>2, <3>1, Frame
  <2>3. CASE \A r \in Runs : ~StartJob(r)
    BY <2>3 DEF Next, Step, Push, Comment, Rerun, ReadReview, CheckFreshness, ListSummaries,
                WriteSummary, DeletePrior, SubmitReview, Report, vars
  <2>4. QED
    BY <2>2, <2>3
<1>3. ASSUME NEW v \in reviews, v.event = "APPROVE"
      PROVE  Classify(raw'[v.run]) \cap Blocking = {} /\ ~policy'.fork
  BY <1>1, <1>2, <1>3 DEF NoApprovalOverVisibleFinding
<1>4. ASSUME NEW r \in Runs, SubmitReview(r), NEW v \in reviews' \ reviews, v.event = "APPROVE"
      PROVE  Classify(raw'[v.run]) \cap Blocking = {} /\ ~policy'.fork
  <2>1. v.run = r /\ ReviewEvent(r) = "APPROVE" /\ raw' = raw
    BY <1>4 DEF SubmitReview
  <2>2. QED
    BY <1>1, <2>1 DEF ReviewEvent
<1>5. CASE reviews' = reviews
  BY <1>3, <1>5 DEF NoApprovalOverVisibleFinding, Classify
<1>6. ASSUME NEW r \in Runs, SubmitReview(r) PROVE NoApprovalOverVisibleFinding'
  BY <1>3, <1>4, <1>6 DEF NoApprovalOverVisibleFinding, Classify
<1>7. QED
  BY <1>5, <1>6 DEF Next, Step, Push, Comment, StartJob, Rerun, ReadReview, CheckFreshness,
                    ListSummaries, WriteSummary, DeletePrior, Report, vars
\* Nothing is posted at first.
LEMMA InvInit == Init => IInv
<1>1. ASSUME Init PROVE SummaryInv /\ UpsertInv /\ FirstPassInv /\ NoApprovalOverVisibleFinding
  BY <1>1 DEF Init, SummaryInv, SummaryComesFirst, UpsertInv, SummaryUpsert, FirstPassInv, FirstPass,
              Visible, Reviewed, Commented, NoApprovalOverVisibleFinding
<1>2. QED
  BY <1>1, TypeInit DEF IInv

\* The parts are inductive together.
LEMMA InvNext == IInv /\ [Next]_vars => IInv'
BY TypeNext, SummaryNext, UpsertNext, FirstPassNext, ApprovalNext DEF IInv
-----------------------------------------------------------------------------
(* The theorems. *)

\* The inductive invariant holds in every state.
THEOREM Invariance == Spec => []IInv
BY InvInit, InvNext, PTL DEF Spec

\* Whatever fails and however often the step is run again, a review or an inline comment of
\* a run is accompanied by its summary.
THEOREM SummaryAlwaysFirst == Spec => []SummaryComesFirst
<1>1. IInv => SummaryComesFirst
  BY DEF IInv, SummaryInv
<1>2. QED
  BY <1>1, Invariance, PTL

\* What Momos is told of a run is what is on the pull request.
THEOREM ReportAlwaysTrue == Spec => []ReportIsTrue
<1>1. IInv => ReportIsTrue
  <2>1. ASSUME IInv, NEW r \in Runs, reported[r] \in {"stale", "review_failed"}, reruns[r] = 0
        PROVE  ~Reviewed(r) /\ ~Commented(r)
    <3>1. reported[r] = outcome[r]
      BY <2>1 DEF IInv, FirstPassInv, FirstPass
    <3>2. QED
      BY <2>1, <3>1 DEF IInv, FirstPassInv, FirstPass, Visible
  <2>2. QED
    BY <2>1 DEF IInv, SummaryInv, ReportIsTrue
<1>2. QED
  BY <1>1, Invariance, PTL

\* A second summary of a run is posted only when the first has left the first page.
THEOREM SummaryAlwaysUpserted == Spec => []SummaryUpsert
<1>1. IInv => SummaryUpsert
  BY DEF IInv, UpsertInv
<1>2. QED
  BY <1>1, Invariance, PTL

\* No run approves a fork, or over a blocking finding that reaches the publisher.
THEOREM ApprovalAlwaysGuarded == Spec => []NoApprovalOverVisibleFinding
<1>1. IInv => NoApprovalOverVisibleFinding
  BY DEF IInv
<1>2. QED
  BY <1>1, Invariance, PTL
=============================================================================
