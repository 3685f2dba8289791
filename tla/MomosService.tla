---------------------------- MODULE MomosService ----------------------------
(***************************************************************************)
(* The Momos service (internal/server, internal/store) with what it talks  *)
(* to: GitHub delivers webhooks, Hades runs the three-step job whose last  *)
(* step, the publisher, calls back, and the LogManager answers status      *)
(* polls.  Every accepted webhook starts a goroutine of process; the       *)
(* goroutine is named here by the run id it draws.                         *)
(*                                                                         *)
(* Steps that the code runs as separate SQL statements or network calls    *)
(* are separate actions: the store has one connection but no transaction.  *)
(*                                                                         *)
(* A definition X_How is no part of the specification: it is X with a     *)
(* plausible bug, and some property of this module catches it.             *)
(***************************************************************************)
EXTENDS Integers, FiniteSets

CONSTANTS
    Runs,           \* run ids; newRunID draws 12 random bytes, so ids never repeat
    Deliveries,     \* webhook deliveries
    Unnamed,        \* the deliveries that carry no X-GitHub-Delivery id
    Eligible,       \* the deliveries the policy lets through (triggers, fork policy, forge)
    Keys, PRs,
    KeyOf,          \* the idempotency key of a delivery: (repo, head_sha, policy_hash)
    PROf,           \* the pull request of a delivery: (repo, pr_number)
    Reports,        \* what the publisher may report
    MaxAttempts,    \* how often the publisher tries the callback
    MaxCrashes      \* bound: how often the service is killed and started again

ASSUME ServiceAssumption ==
    /\ Unnamed \subseteq Deliveries
    /\ Eligible \subseteq Deliveries
    /\ KeyOf \in [Deliveries -> Keys]
    /\ PROf \in [Deliveries -> PRs]
    /\ Reports \subseteq {"succeeded", "review_failed", "stale"}
    /\ MaxAttempts \in Nat
    /\ MaxCrashes \in Nat

VARIABLES
    seen,       \* Server.deliveries, the in-memory replay protection
    delivery,   \* the delivery a goroutine of process works on
    pc,         \* where that goroutine is
    live,       \* its 60 s context is not done: its statements and calls can still succeed
    older,      \* (history) the runs of the same PR in the store when it superseded
    status,     \* column status of the run's row, "none" if there is no row
    result,     \* columns verdict, findings, cost_usd, ..., error
    hasJob,     \* column hades_job_id is set
    age,        \* of a submitted row: "new", "settled" when its updated_at is more than
                \* a minute ago, "overdue" when its created_at exceeds defaults.timeout too
    job,        \* the Hades job of the run
    outcome,    \* the result its publisher reports, "none" if it has none (yet)
    attempts,   \* callback attempts made
    acked,      \* the publisher saw a 2xx answer
    batch,      \* reconcileOnce: the runs of its query it has not yet looked at
    verdict,    \* reconcileOnce: the run it is about to finalize, and how
    crashes

workerVars == <<delivery, pc, live, older>>
dbVars     == <<status, result, hasJob, age>>
jobVars    == <<job, outcome, attempts, acked>>
recVars    == <<batch, verdict>>
vars == <<seen, workerVars, dbVars, jobVars, recVars, crashes>>
-----------------------------------------------------------------------------
NoDelivery == "no delivery"

PCs == {"unborn", "find", "supersede", "insert", "mint", "submit", "setjob", "fail", "end"}

FinalStatuses == {"succeeded", "failed", "timeout", "review_failed", "stale", "superseded"}
Statuses      == {"none", "submitted"} \cup FinalStatuses

\* What the publisher has decided to report, and the columns that come with a report.
Outcomes  == Reports \cup {"none"}
Results   == {"none", "review", "error"}
\* With a bug: the columns are passed in the wrong order.
Detail_Swapped(s) == s
Detail(s) == IF s \in {"succeeded", "stale"} THEN "review" ELSE "error"

\* What reconcileOnce concludes.
Verdicts == {"succeeded", "failed", "timeout"}

JobStates == {"none", "running", "succeeded", "failed"}

\* The key and the pull request of a run, through the event it was started for.
SameKey(q, r) == KeyOf[delivery[q]] = KeyOf[delivery[r]]
SamePR(q, r)  == PROf[delivery[q]] = PROf[delivery[r]]

Stored == {r \in Runs : status[r] # "none"}

Goto(r, l) == pc' = [pc EXCEPT ![r] = l] /\ UNCHANGED live

\* The goroutine returns; defer cancel() ends its context.
Return(r) == pc' = [pc EXCEPT ![r] = "end"] /\ live' = [live EXCEPT ![r] = FALSE]

TypeOK ==
    /\ seen \subseteq Deliveries
    /\ delivery \in [Runs -> Deliveries \cup {NoDelivery}]
    /\ pc \in [Runs -> PCs]
    /\ live \in [Runs -> BOOLEAN]
    /\ older \in [Runs -> SUBSET Runs]
    /\ status \in [Runs -> Statuses]
    /\ result \in [Runs -> Results]
    /\ hasJob \in [Runs -> BOOLEAN]
    /\ age \in [Runs -> {"new", "settled", "overdue"}]
    /\ job \in [Runs -> JobStates]
    /\ outcome \in [Runs -> Outcomes]
    /\ attempts \in [Runs -> 0..MaxAttempts]
    /\ acked \in [Runs -> BOOLEAN]
    /\ batch \subseteq Runs
    /\ verdict \subseteq Runs \X Verdicts
    /\ crashes \in 0..MaxCrashes

Init ==
    /\ seen = {}
    /\ delivery = [r \in Runs |-> NoDelivery]
    /\ pc = [r \in Runs |-> "unborn"]
    /\ live = [r \in Runs |-> FALSE]
    /\ older = [r \in Runs |-> {}]
    /\ status = [r \in Runs |-> "none"]
    /\ result = [r \in Runs |-> "none"]
    /\ hasJob = [r \in Runs |-> FALSE]
    /\ age = [r \in Runs |-> "new"]
    /\ job = [r \in Runs |-> "none"]
    /\ outcome = [r \in Runs |-> "none"]
    /\ attempts = [r \in Runs |-> 0]
    /\ acked = [r \in Runs |-> FALSE]
    /\ batch = {}
    /\ verdict = {}
    /\ crashes = 0
-----------------------------------------------------------------------------
(* The webhook handler and its replay protection. *)

\* A delivery id that is in the map is dropped, any other is remembered.
Dedupe(d) ==
    /\ d \notin seen
    /\ seen' = IF d \in Unnamed THEN seen ELSE seen \cup {d}

\* An accepted webhook: 202 is sent, and a goroutine with a 60 s context starts.
Webhook(r, d) ==
    /\ pc[r] = "unborn"
    /\ Dedupe(d)
    /\ delivery' = [delivery EXCEPT ![r] = d]
    /\ pc' = [pc EXCEPT ![r] = "find"]
    /\ live' = [live EXCEPT ![r] = TRUE]
    /\ UNCHANGED <<older, dbVars, jobVars, recVars, crashes>>

\* With a bug: no cutoff: an id is forgotten while its goroutine runs.
Forget_TooEarly(d) ==
    /\ d \in seen
    /\ seen' = seen \ {d}
    /\ UNCHANGED <<workerVars, dbVars, jobVars, recVars, crashes>>

\* gcDeliveries forgets an id after an hour; the goroutine it started had 60 s.
Forget(d) ==
    /\ d \in seen
    /\ \A r \in Runs : delivery[r] = d => ~live[r]
    /\ seen' = seen \ {d}
    /\ UNCHANGED <<workerVars, dbVars, jobVars, recVars, crashes>>

(* The steps of process. *)

\* The context of process runs out: from here on its statements and calls fail.
Expire(r) ==
    /\ live[r]
    /\ live' = [live EXCEPT ![r] = FALSE]
    /\ UNCHANGED <<seen, delivery, pc, older, dbVars, jobVars, recVars, crashes>>

\* The policy does not want this event (or names no forge, or no prompt renders).
Ignore(r) ==
    /\ pc[r] = "find"
    /\ delivery[r] \notin Eligible
    /\ Return(r)
    /\ UNCHANGED <<seen, delivery, older, dbVars, jobVars, recVars, crashes>>

ActiveByKey(r) == {q \in Stored : status[q] = "submitted" /\ SameKey(q, r)}

\* Create, first statement: an active run of the same key ends the goroutine.  A query
\* that fails counts as "none found".
FindActive(r) ==
    /\ pc[r] = "find"
    /\ delivery[r] \in Eligible
    /\ IF live[r] /\ ActiveByKey(r) # {} THEN Return(r) ELSE Goto(r, "supersede")
    /\ UNCHANGED <<seen, delivery, older, dbVars, jobVars, recVars, crashes>>

\* With a bug: the UPDATE matches the key instead of the pull request.
Superseded_ByKey(r) ==
    {q \in Stored : SameKey(q, r) /\ status[q] \in {"submitted", "review_failed"}}

Superseded(r) == {q \in Stored : SamePR(q, r) /\ status[q] \in {"submitted", "review_failed"}}

\* Create, second statement; its error is ignored.
SupersedeOlder(r) ==
    /\ pc[r] = "supersede"
    /\ LET hit == IF live[r] THEN Superseded(r) ELSE {}
       IN  /\ status' = [q \in Runs |-> IF q \in hit THEN "superseded" ELSE status[q]]
           /\ age' = [q \in Runs |-> IF q \in hit THEN "new" ELSE age[q]]
    /\ older' = [older EXCEPT ![r] = {q \in Stored : SamePR(q, r)}]
    /\ Goto(r, "insert")
    /\ UNCHANGED <<seen, delivery, result, hasJob, jobVars, recVars, crashes>>

\* With a bug: one row per pull request, and the error of a second is dropped.
Insert_ErrorDropped(r) ==
    /\ pc[r] = "insert"
    /\ status' = IF live[r] /\ older[r] = {} THEN [status EXCEPT ![r] = "submitted"] ELSE status
    /\ Goto(r, "mint")
    /\ UNCHANGED <<seen, delivery, older, result, hasJob, age, jobVars, recVars, crashes>>

\* Create, third statement; its error ends the goroutine.
Insert(r) ==
    /\ pc[r] = "insert"
    /\ IF live[r]
       THEN status' = [status EXCEPT ![r] = "submitted"] /\ Goto(r, "mint")
       ELSE UNCHANGED status /\ Return(r)
    /\ UNCHANGED <<seen, delivery, older, result, hasJob, age,
                   jobVars, recVars, crashes>>

\* Both forge tokens are minted and the review threads fetched, or one mint fails.
Mint(r) ==
    /\ pc[r] = "mint"
    /\ \/ live[r] /\ Goto(r, "submit")
       \/ Goto(r, "fail")
    /\ UNCHANGED <<seen, delivery, older, dbVars, jobVars, recVars, crashes>>

\* POST /build: Hades takes the job and its answer arrives, Hades takes the job and the
\* answer is lost or unreadable, or Hades does not take it.
Submit(r) ==
    /\ pc[r] = "submit"
    /\ \/ /\ live[r]
          /\ job' = [job EXCEPT ![r] = "running"]
          /\ Goto(r, "setjob") \/ Goto(r, "fail")
       \/ UNCHANGED job /\ Goto(r, "fail")
    /\ UNCHANGED <<seen, delivery, older, dbVars, outcome, attempts, acked,
                   recVars, crashes>>

\* With a bug: the job id is recorded with the status the run was created with.
SetHadesJob_Resubmits(r) ==
    /\ pc[r] = "setjob"
    /\ hasJob' = [hasJob EXCEPT ![r] = TRUE]
    /\ status' = [status EXCEPT ![r] = "submitted"]
    /\ Return(r)
    /\ UNCHANGED <<seen, delivery, older, result, age, jobVars, recVars, crashes>>

\* SetHadesJob; its error is only logged.
SetHadesJob(r) ==
    /\ pc[r] = "setjob"
    /\ IF live[r]
       THEN /\ hasJob' = [hasJob EXCEPT ![r] = TRUE]
            /\ age' = [age EXCEPT ![r] = "new"]
       ELSE UNCHANGED <<hasJob, age>>
    /\ Return(r)
    /\ UNCHANGED <<seen, delivery, older, status, result, jobVars, recVars,
                   crashes>>

\* fail: SaveResult(failed) with empty columns, its error ignored.
Fail(r) ==
    /\ pc[r] = "fail"
    /\ IF live[r]
       THEN /\ status' = [status EXCEPT ![r] = "failed"]
            /\ result' = [result EXCEPT ![r] = "error"]
            /\ age' = [age EXCEPT ![r] = "new"]
       ELSE UNCHANGED <<status, result, age>>
    /\ Return(r)
    /\ UNCHANGED <<seen, delivery, older, hasJob, jobVars, recVars, crashes>>
-----------------------------------------------------------------------------
(* Hades, the publisher's callback and the handler that receives it. *)

\* The publisher has posted and knows what it will report.
Decide(r, s) ==
    /\ job[r] = "running"
    /\ outcome[r] = "none"
    /\ outcome' = [outcome EXCEPT ![r] = s]
    /\ UNCHANGED <<seen, workerVars, dbVars, job, attempts, acked, recVars, crashes>>

Calling(r) ==
    /\ job[r] = "running"
    /\ outcome[r] # "none"
    /\ ~acked[r]
    /\ attempts[r] < MaxAttempts

\* SaveResult on behalf of the callback: whatever the row says is overwritten.
SaveResult(r, s) ==
    /\ status' = [status EXCEPT ![r] = IF status[r] = "none" THEN @ ELSE s]
    /\ result' = [result EXCEPT ![r] = IF status[r] = "none" THEN @ ELSE Detail(s)]
    /\ age' = [age EXCEPT ![r] = "new"]

\* An attempt whose token verifies: the result is saved, and the answer
\* reaches the publisher or is lost.
Callback(r) ==
    /\ Calling(r)
    /\ SaveResult(r, outcome[r])
    /\ attempts' = [attempts EXCEPT ![r] = @ + 1]
    /\ acked' \in {acked, [acked EXCEPT ![r] = TRUE]}
    /\ UNCHANGED <<seen, workerVars, hasJob, job, outcome, recVars, crashes>>

\* An attempt that reaches nobody, hits a store error, or is refused because the token,
\* which outlives the timeout by half an hour but not the job, has expired.
CallbackLost(r) ==
    /\ Calling(r)
    /\ attempts' = [attempts EXCEPT ![r] = @ + 1]
    /\ UNCHANGED <<seen, workerVars, dbVars, job, outcome, acked, recVars, crashes>>

\* The publisher exits 0 after an acknowledged callback only, and its step must not fail;
\* the job fails otherwise, or when Hades loses it or one of its containers.  The
\* publisher's own state goes with it, except what it got acknowledged.
EndJob(r) ==
    /\ job[r] = "running"
    /\ \E s \in {"failed"} \cup (IF acked[r] THEN {"succeeded"} ELSE {}) :
          job' = [job EXCEPT ![r] = s]
    /\ outcome' = [outcome EXCEPT ![r] = IF acked[r] THEN @ ELSE "none"]
    /\ attempts' = [attempts EXCEPT ![r] = 0]
    /\ UNCHANGED <<seen, workerVars, dbVars, acked, recVars, crashes>>
-----------------------------------------------------------------------------
(* The clock as the reconciler's query and timeout see it, and the reconciler. *)

\* A minute passes since the last update: longer than the 60 s of the goroutine.
Settle(r) ==
    /\ status[r] = "submitted"
    /\ age[r] = "new"
    /\ ~live[r]
    /\ age' = [age EXCEPT ![r] = "settled"]
    /\ UNCHANGED <<seen, workerVars, status, result, hasJob, jobVars, recVars, crashes>>

\* The run becomes older than defaults.timeout.
Overdue(r) ==
    /\ status[r] = "submitted"
    /\ age[r] = "settled"
    /\ age' = [age EXCEPT ![r] = "overdue"]
    /\ UNCHANGED <<seen, workerVars, status, result, hasJob, jobVars, recVars, crashes>>

\* With a bug: runs are reconciled from the moment they are stored.
Query_NoCutoff ==
    /\ batch = {}
    /\ verdict = {}
    /\ batch' = {r \in Runs : status[r] = "submitted"}
    /\ UNCHANGED <<seen, workerVars, dbVars, jobVars, verdict, crashes>>

\* With a bug: the query has no condition at all.
Query_Everything ==
    /\ batch = {}
    /\ verdict = {}
    /\ batch' = Stored
    /\ UNCHANGED <<seen, workerVars, dbVars, jobVars, verdict, crashes>>

\* reconcileOnce reads the submitted runs that were not updated for a minute.
Query ==
    /\ batch = {}
    /\ verdict = {}
    /\ batch' = {r \in Runs : status[r] = "submitted" /\ age[r] # "new"}
    /\ UNCHANGED <<seen, workerVars, dbVars, jobVars, verdict, crashes>>

\* With a bug: "running" is taken for a word that means success.
JobView_Substring(r) ==
    {"unknown"} \cup (IF ~hasJob[r] THEN {}
                      ELSE IF job[r] = "running" THEN {"succeeded"} ELSE {job[r]})

\* What polling the LogManager may answer: it forgets, and it is asked only with a job id.
JobView(r) == {"unknown"} \cup (IF hasJob[r] THEN {job[r]} ELSE {})

\* With a bug: a job nobody knows anything of is waited for.
Poll_NoTimeout(r) ==
    /\ verdict = {}
    /\ r \in batch
    /\ batch' = batch \ {r}
    /\ \E state \in JobView(r) :
          verdict' = IF state \in {"succeeded", "failed"} THEN {<<r, state>>} ELSE {}
    /\ UNCHANGED <<seen, workerVars, dbVars, jobVars, crashes>>

\* The next run of the query is polled.  The run may have changed since the query.
Poll(r) ==
    /\ verdict = {}
    /\ r \in batch
    /\ batch' = batch \ {r}
    /\ \E state \in JobView(r) :
          verdict' = IF state \in {"succeeded", "failed"} THEN {<<r, state>>}
                     ELSE IF age[r] = "overdue" THEN {<<r, "timeout">>} ELSE {}
    /\ UNCHANGED <<seen, workerVars, dbVars, jobVars, crashes>>

\* With a bug: finalize saves an empty result instead of the status only.
Finalize_SavesResult ==
    \E v \in verdict :
        /\ status' = [status EXCEPT ![v[1]] = v[2]]
        /\ result' = [result EXCEPT ![v[1]] = "none"]
        /\ age' = [age EXCEPT ![v[1]] = "new"]
        /\ verdict' = {}
        /\ UNCHANGED <<seen, workerVars, hasJob, jobVars, batch, crashes>>

\* finalize: SetStatus, whatever the row says by now.
Finalize ==
    \E v \in verdict :
        /\ status' = [status EXCEPT ![v[1]] = v[2]]
        /\ age' = [age EXCEPT ![v[1]] = "new"]
        /\ verdict' = {}
        /\ UNCHANGED <<seen, workerVars, result, hasJob, jobVars, batch, crashes>>
-----------------------------------------------------------------------------
\* The service stops, by a signal or a crash, and is started again: goroutines and the
\* delivery map are gone, the store stays, and Hades goes on.
Restart ==
    /\ crashes < MaxCrashes
    /\ crashes' = crashes + 1
    /\ seen' = {}
    /\ pc' = [r \in Runs |-> IF pc[r] = "unborn" THEN "unborn" ELSE "end"]
    /\ live' = [r \in Runs |-> FALSE]
    /\ batch' = {}
    /\ verdict' = {}
    /\ UNCHANGED <<delivery, older, dbVars, jobVars>>

Process(r) ==
    \/ Ignore(r)
    \/ FindActive(r)
    \/ SupersedeOlder(r)
    \/ Insert(r)
    \/ Mint(r)
    \/ Submit(r)
    \/ SetHadesJob(r)
    \/ Fail(r)

Hades(r) ==
    \/ \E s \in Reports : Decide(r, s)
    \/ Callback(r)
    \/ CallbackLost(r)
    \/ EndJob(r)

Clock(r) == Expire(r) \/ Settle(r) \/ Overdue(r)

ReconcileOnce ==
    \/ Query
    \/ \E r \in Runs : Poll(r)
    \/ Finalize

Next ==
    \/ \E r \in Runs, d \in Deliveries : Webhook(r, d)
    \/ \E d \in Deliveries : Forget(d)
    \/ \E r \in Runs : Process(r) \/ Hades(r) \/ Clock(r)
    \/ ReconcileOnce
    \/ Restart

Spec == Init /\ [][Next]_vars

\* The Go scheduler runs every goroutine, the clock and the tickers go on, and the
\* service is killed only finitely often.  Nothing is assumed of GitHub or Hades.
Fairness ==
    /\ \A r \in Runs : WF_vars(Process(r))
    /\ \A r \in Runs : WF_vars(Settle(r)) /\ WF_vars(Overdue(r))
    /\ WF_vars(ReconcileOnce)

FairSpec == Spec /\ Fairness
-----------------------------------------------------------------------------
(* Safety. *)

\* Hades never holds a job the store does not know, so no callback reports to a missing
\* row: process stores the run before it submits, and nothing deletes a row.
JobsAreStored ==
    \A r \in Runs : (job[r] # "none" \/ hasJob[r]) => job[r] # "none" /\ status[r] # "none"

\* Create: once a run is inserted, every run of its pull request that was in the store when
\* its supersede statement ran has left "submitted" for good, although the statement's own
\* error is ignored.  What is left of a double submission is two overlapping Creates.
SupersedeSticks ==
    \A r \in Stored : \A q \in older[r] : status[q] # "submitted"

\* The reconciler and a goroutine of process never work on the same run: the 60 s context
\* ends before the run is a minute old, so no token or job id is written after a verdict.
ReconcilerIsAlone ==
    \A r \in Runs : (r \in batch \/ \E v \in Verdicts : <<r, v>> \in verdict) => ~live[r]

\* dedupe: while the goroutine of a named delivery can still act, a redelivery starts no
\* second one, across the hourly clean-up of the map and across restarts.
OneWorkerPerDelivery ==
    \A q, r \in Runs :
        q # r /\ live[q] /\ live[r] /\ delivery[q] = delivery[r] => delivery[r] \in Unnamed

\* Once the job id is recorded, a review the publisher was thanked for stays in the row:
\* neither the reconciler nor a newer run that supersedes it erases the result columns.
AcknowledgedReviewKept ==
    \A r \in Runs : hasJob[r] /\ acked[r] => result[r] = Detail(outcome[r])

\* No run is "succeeded" without the publisher's report in its row: a job that Hades calls
\* succeeded has had its callback accepted, so the reconciler's "succeeded" adds nothing.
SuccessIsReported ==
    \A r \in Runs : status[r] = "succeeded" => result[r] # "none"

\* The reconciler is done with a run whose report the publisher was thanked for.
Reported(r) ==
    /\ hasJob[r] /\ acked[r]
    /\ status[r] \in {outcome[r], "superseded"}
    /\ r \notin batch /\ \A s \in Verdicts : <<r, s>> \notin verdict

\* What is left of the callback's authority: a report that is in the row when no list of the
\* reconciler holds the run stays for good, up to superseding, across restarts.
ReportStands == [][\A r \in Runs : Reported(r) => Reported(r)']_vars

(* Liveness. *)

\* No run stays submitted for ever, whatever happens to its webhook, job and callback.
EveryRunEnds == \A r \in Runs : status[r] = "submitted" ~> status[r] # "submitted"
-----------------------------------------------------------------------------
(* What the documentation says and the code does not keep. *)

\* store.go, Create: at most one active run per idempotency key.
OneActiveRunPerKey ==
    \A q, r \in Runs :
        q # r /\ status[q] = "submitted" /\ status[r] = "submitted" => ~SameKey(q, r)

\* architecture.md, run lifecycle: nothing leads out of superseded.
SupersededIsFinal ==
    [][\A r \in Runs : status[r] = "superseded" => status'[r] = "superseded"]_vars

\* reconcile.go: the callback is authoritative for the result of a run whose job is known.
CallbackIsAuthoritative ==
    \A r \in Runs : hasJob[r] /\ acked[r] => status[r] \in {outcome[r], "superseded"}
-----------------------------------------------------------------------------
(* The abstract lifecycle, with the pull request of a row read off its event. *)

Lifecycle ==
    INSTANCE RunLifecycle WITH
        pr <- [r \in Runs |-> IF status[r] = "none" THEN "no pr" ELSE PROf[delivery[r]]]

\* The service implements the lifecycle: a run is opened once and never again, only
\* submitted and review_failed runs of one pull request are superseded, and together.
ImplementsLifecycle == Lifecycle!Spec

=============================================================================
