------------------------------ MODULE Publisher ------------------------------
(***************************************************************************)
(* The publish step (internal/publisher) of several runs on one pull       *)
(* request, with the GitHub calls it makes (internal/forge/github.go) and  *)
(* the review document the review step left for it                        *)
(* (reviewer.classify).  The pull request is GitHub's: its head moves and  *)
(* people comment while publishers work, and any call may fail before or   *)
(* after it took effect.                                                   *)
(*                                                                         *)
(* A definition X_How is no part of the specification: it is X with a     *)
(* plausible bug, and some property of this module catches it.             *)
(***************************************************************************)
EXTENDS Integers, Sequences, FiniteSets

CONSTANTS
    Runs,           \* run ids; the marker of a comment names its run
    Findings,       \* what the model may complain about
    Blocking,       \* the findings of severity major or critical
    OnAddedLine,    \* the findings on a line the diff adds
    PageSize,       \* comments per listing: per_page=100, and only the first page is read
    MaxHead,        \* bound: pushes to the pull request
    MaxComments,    \* bound: comments by people
    MaxReruns       \* bound: how often the executor runs a publish step again

ASSUME PublisherAssumption ==
    /\ {"person", "deleted"} \cap Runs = {}
    /\ Blocking \subseteq Findings
    /\ OnAddedLine \subseteq Findings
    /\ PageSize \in Nat
    /\ MaxHead \in Nat \ {0}
    /\ MaxComments \in Nat
    /\ MaxReruns \in Nat

VARIABLES
    policy,     \* what the job says: approvals, inline_comments, is_fork
    head,       \* the pull request's current head
    comments,   \* its issue comments, oldest first: a run's summary or a person's
    inline,     \* its review comments, oldest first: one entry per batch of a run, or Deleted
    reviews,    \* its submitted reviews, with the head they were attached to
    pc,         \* where each run's publisher is
    expected,   \* the head the run was started for
    raw,        \* what the model found
    verdict,    \* the model's verdict, "none" if review.json does not parse
    stale,      \* the freshness check saw another head
    outcome,    \* the status the publisher will report
    reported,   \* the status Momos has been told
    reruns      \* how often the step was run again

jobVars == <<expected, raw, verdict>>
prVars  == <<head, comments, inline, reviews>>
vars == <<policy, prVars, pc, jobVars, stale, outcome, reported, reruns>>
-----------------------------------------------------------------------------
Person  == "person"
Deleted == "deleted"

Verdicts == {"approve", "request_changes", "comment"}
Events   == {"APPROVE", "REQUEST_CHANGES", "COMMENT"}
Outcomes == {"none", "succeeded", "stale", "review_failed"}

PCs == {"waiting", "read", "fresh", "list", "post", "patch", "prior", "review", "report", "done"}

Policies == [approvals : BOOLEAN, inline : BOOLEAN, fork : BOOLEAN]

Listed(s) == {s[i] : i \in 1..(IF Len(s) < PageSize THEN Len(s) ELSE PageSize)}

Batches(n) == {i \in 1..n : inline[i] # Deleted}

\* The batches on the first page of a listing of the review comments.
OnFirstPage == {i \in Batches(Len(inline)) : Cardinality(Batches(i)) <= PageSize}

TypeOK ==
    /\ policy \in Policies
    /\ head \in 1..MaxHead
    /\ comments \in Seq(Runs \cup {Person})
    /\ inline \in Seq(Runs \cup {Deleted})
    /\ reviews \subseteq [run : Runs, event : Events, on : 1..MaxHead]
    /\ pc \in [Runs -> PCs]
    /\ expected \in [Runs -> 1..MaxHead]
    /\ raw \in [Runs -> SUBSET Findings]
    /\ verdict \in [Runs -> Verdicts \cup {"none"}]
    /\ stale \in [Runs -> BOOLEAN]
    /\ outcome \in [Runs -> Outcomes]
    /\ reported \in [Runs -> Outcomes]
    /\ reruns \in [Runs -> 0..MaxReruns]

Init ==
    /\ policy \in Policies
    /\ head = 1
    /\ comments = <<>>
    /\ inline = <<>>
    /\ reviews = {}
    /\ pc = [r \in Runs |-> "waiting"]
    /\ expected = [r \in Runs |-> 1]
    /\ raw = [r \in Runs |-> {}]
    /\ verdict = [r \in Runs |-> "none"]
    /\ stale = [r \in Runs |-> FALSE]
    /\ outcome = [r \in Runs |-> "none"]
    /\ reported = [r \in Runs |-> "none"]
    /\ reruns = [r \in Runs |-> 0]
-----------------------------------------------------------------------------
(* The pull request. *)

Push ==
    /\ head < MaxHead
    /\ head' = head + 1
    /\ UNCHANGED <<policy, comments, inline, reviews, pc, jobVars, stale, outcome, reported, reruns>>

Comment ==
    /\ Cardinality({i \in 1..Len(comments) : comments[i] = Person}) < MaxComments
    /\ comments' = Append(comments, Person)
    /\ UNCHANGED <<policy, head, inline, reviews, pc, jobVars, stale, outcome, reported, reruns>>

(* The job up to its publish step. *)

\* classify: what is not on an added line goes to the text of the summary.
Classify(found) == found \cap OnAddedLine

\* A job is started for the head of its event, which may have moved on by now.  Its review
\* step finds something and reaches a verdict, or leaves no review.json that parses.
StartJob(r) ==
    /\ pc[r] = "waiting"
    /\ \E h \in 1..head : expected' = [expected EXCEPT ![r] = h]
    /\ \/ \E found \in SUBSET Findings, v \in Verdicts :
             /\ raw' = [raw EXCEPT ![r] = found]
             /\ verdict' = [verdict EXCEPT ![r] = v]
       \/ UNCHANGED <<raw, verdict>>
    /\ pc' = [pc EXCEPT ![r] = "read"]
    /\ UNCHANGED <<policy, prVars, stale, outcome, reported, reruns>>

\* The executor runs the publish container of a job once more; the process starts over.
Rerun(r) ==
    /\ pc[r] # "waiting"
    /\ reruns[r] < MaxReruns
    /\ reruns' = [reruns EXCEPT ![r] = @ + 1]
    /\ pc' = [pc EXCEPT ![r] = "read"]
    /\ stale' = [stale EXCEPT ![r] = FALSE]
    /\ outcome' = [outcome EXCEPT ![r] = "none"]
    /\ UNCHANGED <<policy, prVars, jobVars, reported>>
-----------------------------------------------------------------------------
(* The publisher. *)

Goto(r, l) == pc' = [pc EXCEPT ![r] = l]

\* The step goes on to its callback with status s.
Finish(r, s) ==
    /\ outcome' = [outcome EXCEPT ![r] = s]
    /\ Goto(r, "report")

\* With a bug: without a review the process ends before it says so.
ReadReview_SilentExit(r) ==
    /\ pc[r] = "read"
    /\ verdict[r] # "none"
    /\ Goto(r, "fresh")
    /\ UNCHANGED <<policy, prVars, jobVars, stale, outcome, reported, reruns>>

\* readReview: without a review the summary says so, and nothing else is posted.
ReadReview(r) ==
    /\ pc[r] = "read"
    /\ Goto(r, IF verdict[r] = "none" THEN "list" ELSE "fresh")
    /\ UNCHANGED <<policy, prVars, jobVars, stale, outcome, reported, reruns>>

\* CurrentHead; when the call fails the review counts as fresh.
CheckFreshness(r) ==
    /\ pc[r] = "fresh"
    /\ stale' \in {[stale EXCEPT ![r] = s] : s \in {FALSE, head # expected[r]}}
    /\ Goto(r, "list")
    /\ UNCHANGED <<policy, prVars, jobVars, outcome, reported, reruns>>

\* With a bug: the search for the marker stops one comment early.
ListSummaries_OffByOne(r) ==
    /\ pc[r] = "list"
    /\ \/ /\ Goto(r, IF \E i \in 1..Len(comments) : i < PageSize /\ comments[i] = r THEN "patch" ELSE "post")
          /\ UNCHANGED outcome
       \/ Finish(r, "review_failed")
    /\ UNCHANGED <<policy, prVars, jobVars, stale, reported, reruns>>

\* PostSummary, the listing: is there a comment with this run's marker on the first page?
ListSummaries(r) ==
    /\ pc[r] = "list"
    /\ \/ Goto(r, IF r \in Listed(comments) THEN "patch" ELSE "post") /\ UNCHANGED outcome
       \/ Finish(r, "review_failed")
    /\ UNCHANGED <<policy, prVars, jobVars, stale, reported, reruns>>

\* With a bug: the guardrail against blocking findings is not there.
ReviewEvent_NoGuardrail(r) ==
    IF ~policy.approvals THEN "COMMENT"
    ELSE IF verdict[r] = "approve" /\ ~policy.fork THEN "APPROVE"
    ELSE IF verdict[r] = "request_changes" THEN "REQUEST_CHANGES" ELSE "COMMENT"

\* With a bug: the verdict is submitted as it is.
ReviewEvent_Verdict(r) == IF ~policy.approvals \/ policy.fork THEN "COMMENT" ELSE verdict[r]

\* reviewEvent: the guardrails between the verdict and the review event.
ReviewEvent(r) ==
    IF ~policy.approvals THEN "COMMENT"
    ELSE IF Classify(raw[r]) \cap Blocking # {} \/ verdict[r] = "request_changes"
         THEN "REQUEST_CHANGES"
    ELSE IF verdict[r] = "approve" /\ ~policy.fork THEN "APPROVE" ELSE "COMMENT"

HasInline(r) == policy.inline /\ Classify(raw[r]) # {}

\* What follows a summary that was posted.
AfterSummary(r) ==
    IF verdict[r] = "none" THEN Finish(r, "review_failed")
    ELSE IF stale[r] THEN Finish(r, "stale")
    ELSE IF ReviewEvent(r) # "COMMENT" \/ HasInline(r)
         THEN Goto(r, "prior") /\ UNCHANGED outcome
    ELSE Finish(r, "succeeded")

\* With a bug: a review is posted although its summary was not.
WriteSummary_ErrorIgnored(r) ==
    /\ pc[r] \in {"post", "patch"}
    /\ comments' \in {comments, IF pc[r] = "post" THEN Append(comments, r) ELSE comments}
    /\ AfterSummary(r)
    /\ UNCHANGED <<policy, head, inline, reviews, jobVars, stale, reported, reruns>>

\* PostSummary, the write: POST or PATCH succeeds, fails, or succeeds with its answer lost.
WriteSummary(r) ==
    /\ pc[r] \in {"post", "patch"}
    /\ LET written == IF pc[r] = "post" THEN Append(comments, r) ELSE comments
       IN  \/ comments' = written /\ AfterSummary(r)
           \/ comments' \in {comments, written} /\ Finish(r, "review_failed")
    /\ UNCHANGED <<policy, head, inline, reviews, jobVars, stale, reported, reruns>>

\* PostReview, first part: the batches on the first page that carry this run's marker are
\* deleted one by one, and a deletion that fails is passed over.
DeletePrior(r) ==
    /\ pc[r] = "prior"
    /\ \/ /\ LET mine == {i \in OnFirstPage : inline[i] = r}
             IN  \E gone \in SUBSET mine :
                    inline' = [i \in 1..Len(inline) |-> IF i \in gone THEN Deleted ELSE inline[i]]
          /\ Goto(r, "review")
          /\ UNCHANGED outcome
       \/ Finish(r, "succeeded") /\ UNCHANGED inline
    /\ UNCHANGED <<policy, head, comments, reviews, jobVars, stale, reported, reruns>>

\* With a bug: an error of the call fails the run, although the review may be there.
SubmitReview_ErrorFails(r) ==
    /\ pc[r] = "review"
    /\ reviews' \in {reviews, reviews \cup {[run |-> r, event |-> ReviewEvent(r), on |-> head]}}
    /\ \E s \in {"succeeded", "review_failed"} : Finish(r, s)
    /\ UNCHANGED <<policy, head, comments, inline, jobVars, stale, reported, reruns>>

\* PostReview, second part: one call submits the event and the inline comments, on whatever
\* the head is by now.  Its error changes nothing: the summary is the result.
SubmitReview(r) ==
    /\ pc[r] = "review"
    /\ \/ /\ reviews' = reviews \cup {[run |-> r, event |-> ReviewEvent(r), on |-> head]}
          /\ inline' = IF HasInline(r) THEN Append(inline, r) ELSE inline
       \/ UNCHANGED <<reviews, inline>>
    /\ Finish(r, "succeeded")
    /\ UNCHANGED <<policy, head, comments, jobVars, stale, reported, reruns>>

\* The check run, always "neutral" and best effort, then the callback with its retries,
\* which Momos answers in the end or not.
Report(r) ==
    /\ pc[r] = "report"
    /\ reported' \in {reported, [reported EXCEPT ![r] = outcome[r]]}
    /\ Goto(r, "done")
    /\ UNCHANGED <<policy, prVars, jobVars, stale, outcome, reruns>>

Step(r) ==
    \/ ReadReview(r)
    \/ CheckFreshness(r)
    \/ ListSummaries(r)
    \/ WriteSummary(r)
    \/ DeletePrior(r)
    \/ SubmitReview(r)
    \/ Report(r)

Next ==
    \/ Push
    \/ Comment
    \/ \E r \in Runs : StartJob(r) \/ Rerun(r) \/ Step(r)

Spec == Init /\ [][Next]_vars

\* A publisher that is running goes on; every call it makes is bounded by its contexts.
FairSpec == Spec /\ \A r \in Runs : WF_vars(Step(r))
-----------------------------------------------------------------------------
(* Properties. *)

Reviewed(r)  == \E v \in reviews : v.run = r
Commented(r) == \E i \in 1..Len(inline) : inline[i] = r
Summarised(r) == \E i \in 1..Len(comments) : comments[i] = r

\* Run: whatever a run leaves on the diff or on the merge box, its summary is there to
\* explain it, even if calls failed and the step was run again.
SummaryComesFirst == \A r \in Runs : Reviewed(r) \/ Commented(r) => Summarised(r)

\* Run: what Momos is told is what people see.  A run reported stale or review_failed by
\* its only publisher left no review, and one reported succeeded or stale left a summary.
ReportIsTrue ==
    \A r \in Runs :
        /\ reported[r] \in {"stale", "review_failed"} /\ reruns[r] = 0
              => ~Reviewed(r) /\ ~Commented(r)
        /\ reported[r] \in {"succeeded", "stale"} => Summarised(r)

\* PostSummary is an upsert exactly as far as its listing reaches: a run has a second
\* summary only if its first one is no longer on the first page.
SummaryUpsert ==
    \A i, j \in 1..Len(comments) :
        i < j /\ comments[i] = comments[j] /\ comments[i] # Person => i > PageSize

\* reviewEvent: with a blocking finding among those that reach it, a run never approves,
\* whichever verdict the model gave and however often the step is run.
NoApprovalOverVisibleFinding ==
    \A v \in reviews :
        v.event = "APPROVE" => Classify(raw[v.run]) \cap Blocking = {} /\ ~policy.fork

\* Run always attempts a callback: every publish step comes to its end, whatever fails.
AlwaysReports == \A r \in Runs : pc[r] = "read" ~> pc[r] = "done"
-----------------------------------------------------------------------------
(* What the documentation says and the code does not keep. *)

\* reviewEvent: a model cannot approve over its own blocking findings.
NoApprovalOverFinding ==
    \A v \in reviews : v.event = "APPROVE" => raw[v.run] \cap Blocking = {}

\* operations.md: stale reviews are never auto-approved.
NoStaleApproval ==
    \A v \in reviews : v.event = "APPROVE" => v.on = expected[v.run]

\* PostReview: inline comments do not stack across pushes.
InlineDoesNotStack == Cardinality(Batches(Len(inline))) <= 1
=============================================================================
