------------------------------- MODULE EndToEnd -------------------------------
(***************************************************************************)
(* The service and the publishers of its jobs together: MomosService       *)
(* leaves open when a publisher decides and what it reports, Publisher     *)
(* leaves open when a job starts and whether its callback arrives.  Here   *)
(* a job of the service is a run of Publisher for the head of the event,   *)
(* what the publisher concluded is what its callback says, and the job     *)
(* that dies takes its publisher along.                                    *)
(*                                                                         *)
(* All deliveries are events of one pull request.  The executor does not   *)
(* run a step twice here.                                                  *)
(*                                                                         *)
(* A definition X_How is no part of the specification: it is X with a      *)
(* plausible bug, and some property of this module catches it.             *)
(***************************************************************************)
EXTENDS MomosService, Sequences

CONSTANTS
    HeadOf,         \* the head that a delivery names
    JobPolicies,    \* what jobs may be told about publishing
    Findings, Blocking, OnAddedLine, PageSize, MaxHead, MaxComments    \* as in Publisher

ASSUME EndToEndAssumption ==
    /\ HeadOf \in [Deliveries -> 1..MaxHead]
    /\ Reports = {"succeeded", "review_failed", "stale"}
    /\ {"person", "deleted"} \cap Runs = {}
    /\ Blocking \subseteq Findings /\ OnAddedLine \subseteq Findings
    /\ PageSize \in Nat /\ MaxHead \in Nat \ {0} /\ MaxComments \in Nat

VARIABLES
    policy, head, comments, inline, reviews,            \* the pull request, as in Publisher
    step,           \* Publisher's pc
    expected, raw,
    opinion,        \* Publisher's verdict: the model's
    stale,
    conclusion,     \* Publisher's outcome
    reported

P == INSTANCE Publisher WITH
        pc <- step, verdict <- opinion, outcome <- conclusion,
        MaxReruns <- 0, reruns <- [r \in Runs |-> 0]

prVars == <<policy, head, comments, inline, reviews, step, expected, raw, opinion, stale,
            conclusion, reported>>
allVars == <<vars, prVars>>

SystemInit == Init /\ P!Init /\ policy \in JobPolicies
-----------------------------------------------------------------------------
\* With a bug: the replay protection does not look.
Event_Undeduped(r, d) ==
    /\ pc[r] = "unborn" /\ HeadOf[d] <= head
    /\ delivery' = [delivery EXCEPT ![r] = d]
    /\ pc' = [pc EXCEPT ![r] = "find"]
    /\ live' = [live EXCEPT ![r] = TRUE]
    /\ UNCHANGED <<seen, older, dbVars, jobVars, recVars, crashes, prVars>>

\* A webhook tells of a head that was pushed, now or before.
Event(r, d) == HeadOf[d] <= head /\ Webhook(r, d) /\ UNCHANGED prVars

\* What the service and Hades do without a publisher that matters.
ServiceStep ==
    /\ \/ \E d \in Deliveries : Forget(d)
       \/ \E r \in Runs : Process(r) \/ Clock(r) \/ CallbackLost(r) \/ EndJob(r)
       \/ ReconcileOnce
       \/ Restart
    /\ UNCHANGED prVars

PullRequest == (P!Push \/ P!Comment) /\ UNCHANGED vars

\* The job clones and reviews the head of its event.
StartJob(r) ==
    /\ job[r] = "running"
    /\ P!StartJob(r)
    /\ expected'[r] = HeadOf[delivery[r]]
    /\ UNCHANGED vars

PublisherStep(r) ==
    /\ job[r] = "running"
    /\ \/ P!ReadReview(r) \/ P!CheckFreshness(r) \/ P!ListSummaries(r)
       \/ P!WriteSummary(r) \/ P!DeletePrior(r) \/ P!SubmitReview(r)
    /\ UNCHANGED vars

\* With a bug: the callback comes before the posts.
Conclude_Early(r) ==
    /\ step[r] \in {"list", "report"}
    /\ Decide(r, IF step[r] = "list" THEN "succeeded" ELSE conclusion[r])
    /\ UNCHANGED prVars

\* The publisher comes to its callback.
Conclude(r) ==
    /\ step[r] = "report"
    /\ Decide(r, conclusion[r])
    /\ UNCHANGED prVars

\* With a bug: what was saved is not what was concluded.
Told_Succeeded(r) ==
    /\ Callback(r)
    /\ step' = [step EXCEPT ![r] = "done"]
    /\ reported' = [reported EXCEPT ![r] = "succeeded"]
    /\ UNCHANGED <<policy, head, comments, inline, reviews, expected, raw, opinion, stale, conclusion>>

\* An attempt of it is saved, for the first time or again.
Told(r) ==
    /\ Callback(r)
    /\ IF step[r] = "report" THEN P!Report(r) /\ reported'[r] = outcome[r] ELSE UNCHANGED prVars

SystemNext ==
    \/ \E r \in Runs, d \in Deliveries : Event(r, d)
    \/ ServiceStep
    \/ PullRequest
    \/ \E r \in Runs : StartJob(r) \/ PublisherStep(r) \/ Conclude(r) \/ Told(r)

SystemSpec == SystemInit /\ [][SystemNext]_allVars
-----------------------------------------------------------------------------
(* Properties. *)

\* A review that a row holds is one people can see: the row of a run whose publisher reported
\* "succeeded" or "stale" has its summary on the pull request, whatever became of its status.
SavedReviewIsSeen == \A r \in Runs : result[r] = "review" => P!Summarised(r)

\* What the status tells about the pull request is true: a run that is stale or failed to
\* review left no review there, and nothing is posted on behalf of a run that the store
\* does not know.
RowsAreTrue ==
    \A r \in Runs :
        /\ status[r] \in {"stale", "review_failed"} => ~P!Reviewed(r) /\ ~P!Commented(r)
        /\ P!Reviewed(r) \/ P!Summarised(r) => status[r] # "none"

\* The parts keep their specifications when they are put together.
ImplementsService   == Spec
ImplementsPublisher == P!Spec
-----------------------------------------------------------------------------
(* What the documentation says and the code does not keep. *)

\* plan.md: a run that is marked succeeded from the status of its job has its comment posted.
SucceededIsSeen == \A r \in Runs : status[r] = "succeeded" => P!Summarised(r)
=============================================================================
