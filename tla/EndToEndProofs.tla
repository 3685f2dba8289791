---------------------------- MODULE EndToEndProofs ----------------------------
(***************************************************************************)
(* Proofs about MomosService, and about its composition with Publisher,    *)
(* for every set of runs, deliveries, keys and pull requests, and for      *)
(* every bound.  The composition implements both of its parts, and what    *)
(* the rows say of the pull request is true.  The invariants of the parts  *)
(* are reused: their lemmas hold of every step that maps to a step of the  *)
(* part.                                                                   *)
(***************************************************************************)
EXTENDS EndToEnd, TLAPS

(* The service alone. *)

USE DEF workerVars, dbVars, jobVars, recVars

-----------------------------------------------------------------------------
(* Type correctness. *)

\* A report comes with the figures of a review or with an error.
LEMMA DetailType == \A s : Detail(s) \in {"review", "error"}
  BY DEF Detail

\* The initial values have their types.
LEMMA TypeInit == Init => TypeOK
  BY ServiceAssumption DEF Init, TypeOK, PCs, Statuses, Results, JobStates, Outcomes

\* Every step keeps the types.
LEMMA TypeNext == TypeOK /\ [Next]_vars => TypeOK'
<1> SUFFICES ASSUME TypeOK, [Next]_vars PROVE TypeOK'
  OBVIOUS
<1> USE ServiceAssumption DEF TypeOK, Goto, Return
<1>1. ASSUME NEW r \in Runs, NEW d \in Deliveries, Webhook(r, d) PROVE TypeOK'
  BY <1>1 DEF Webhook, Dedupe, PCs
<1>2. ASSUME NEW d \in Deliveries, Forget(d) PROVE TypeOK'
  BY <1>2 DEF Forget
<1>3. ASSUME NEW r \in Runs, Process(r) PROVE TypeOK'
  <2>1. CASE Ignore(r)
    BY <2>1 DEF Ignore, PCs
  <2>2. CASE FindActive(r)
    BY <2>2 DEF FindActive, PCs
  <2>3. CASE SupersedeOlder(r)
    BY <2>3 DEF SupersedeOlder, PCs, Superseded, Stored, Statuses, FinalStatuses
  <2>4. CASE Insert(r)
    BY <2>4 DEF Insert, PCs, Statuses
  <2>5. CASE Mint(r)
    BY <2>5 DEF Mint, PCs
  <2>6. CASE Submit(r)
    BY <2>6 DEF Submit, PCs, JobStates
  <2>7. CASE SetHadesJob(r)
    BY <2>7 DEF SetHadesJob, PCs
  <2>8. CASE Fail(r)
    BY <2>8 DEF Fail, PCs, Statuses, FinalStatuses, Results
  <2>9. QED
    BY <1>3, <2>1, <2>2, <2>3, <2>4, <2>5, <2>6, <2>7, <2>8 DEF Process
<1>4. ASSUME NEW r \in Runs, Hades(r) PROVE TypeOK'
  <2>1. ASSUME NEW s \in Reports, Decide(r, s) PROVE TypeOK'
    BY <2>1 DEF Decide, Outcomes
  <2>2. CASE Callback(r)
    <3>1. outcome[r] \in Reports /\ attempts[r] + 1 \in 0..MaxAttempts
      BY <2>2 DEF Callback, Calling, Outcomes
    <3>2. outcome[r] \in Statuses /\ Detail(outcome[r]) \in Results
      BY <3>1, DetailType DEF Statuses, FinalStatuses, Results
    <3>3. QED
      BY <2>2, <3>1, <3>2 DEF Callback, SaveResult
  <2>3. CASE CallbackLost(r)
    BY <2>3 DEF CallbackLost, Calling
  <2>4. CASE EndJob(r)
    BY <2>4 DEF EndJob, JobStates, Outcomes
  <2>5. QED
    BY <1>4, <2>1, <2>2, <2>3, <2>4 DEF Hades
<1>5. ASSUME NEW r \in Runs, Clock(r) PROVE TypeOK'
  BY <1>5 DEF Clock, Expire, Settle, Overdue
<1>6. CASE ReconcileOnce
  <2>1. CASE Query
    BY <2>1 DEF Query
  <2>2. ASSUME NEW r \in Runs, Poll(r) PROVE TypeOK'
    BY <2>2 DEF Poll, Verdicts
  <2>3. CASE Finalize
    <3>1. PICK v \in verdict :
             /\ status' = [status EXCEPT ![v[1]] = v[2]]
             /\ age' = [age EXCEPT ![v[1]] = "new"]
             /\ verdict' = {}
             /\ UNCHANGED <<seen, workerVars, result, hasJob, jobVars, batch, crashes>>
      BY <2>3 DEF Finalize
    <3>2. v[1] \in Runs /\ v[2] \in Verdicts
      BY <3>1
    <3>3. QED
      BY <3>1, <3>2 DEF Verdicts, Statuses, FinalStatuses
  <2>4. QED
    BY <1>6, <2>1, <2>2, <2>3 DEF ReconcileOnce
<1>7. CASE Restart
  BY <1>7 DEF Restart, PCs
<1>8. CASE UNCHANGED vars
  BY <1>8 DEF vars
<1>9. QED
  BY <1>1, <1>2, <1>3, <1>4, <1>5, <1>6, <1>7, <1>8 DEF Next

\* Every variable keeps its type: in particular a run never gets a status that is not one
\* of store.go's, and the publisher never makes more than MaxAttempts attempts.
THEOREM TypeCorrect == Spec => []TypeOK
<1>1. QED
  BY TypeInit, TypeNext, PTL DEF Spec
-----------------------------------------------------------------------------
(* The inductive invariant. *)

\* A goroutine that can act is on its way, for a delivery that is still remembered.
WorkerInv ==
    /\ \A r \in Runs : live[r] => pc[r] \notin {"unborn", "end"}
    /\ \A r \in Runs : pc[r] # "unborn" => delivery[r] \in Deliveries
    /\ \A r \in Runs : live[r] => delivery[r] \in seen \cup Unnamed
    /\ OneWorkerPerDelivery

\* The row comes first, then the job, then its id; a row is new until its goroutine is done.
RowInv ==
    /\ \A r \in Runs : pc[r] \in {"unborn", "find", "supersede", "insert"} => status[r] = "none"
    /\ \A r \in Runs : pc[r] \in {"mint", "submit", "setjob", "fail"} => status[r] # "none"
    /\ \A r \in Runs : pc[r] \in {"mint", "submit"} \/ status[r] = "none" => job[r] = "none"
    /\ \A r \in Runs : pc[r] = "setjob" => job[r] # "none"
    /\ \A r \in Runs : hasJob[r] => pc[r] = "end" /\ job[r] # "none"
    /\ \A r \in Runs : age[r] # "new" => status[r] # "none" /\ ~live[r]

\* The runs a newer one found at its supersede statement stay inactive from then on.
SupersedeInv ==
    /\ \A r \in Runs : \A q \in older[r] : status[q] # "none"
    /\ \A r \in Runs : pc[r] = "insert" /\ live[r] => \A q \in older[r] : status[q] # "submitted"
    /\ SupersedeSticks

\* The reconciler holds stored runs whose goroutine is done.
ReconcilerInv ==
    /\ \A r \in batch : status[r] # "none"
    /\ \A v \in verdict : status[v[1]] # "none"
    /\ ReconcilerIsAlone

\* What the publisher got acknowledged is in the row, until a failing goroutine erases it.
ResultInv ==
    /\ \A r \in Runs : job[r] = "none" => ~acked[r]
    /\ \A r \in Runs : acked[r] => outcome[r] # "none" /\ result[r] # "none"
    /\ \A r \in Runs : job[r] = "succeeded" => acked[r]
    /\ \A r \in Runs : acked[r] /\ (hasJob[r] \/ pc[r] = "setjob") => result[r] = Detail(outcome[r])
    /\ \A v \in verdict : v[2] = "succeeded" => result[v[1]] # "none"
    /\ SuccessIsReported

\* The inductive invariant.
IInv == TypeOK /\ WorkerInv /\ RowInv /\ SupersedeInv /\ ReconcilerInv /\ ResultInv

\* A goroutine keeps its delivery in the map for as long as it can act.
LEMMA WorkerNext == IInv /\ [Next]_vars => WorkerInv'
<1> SUFFICES ASSUME IInv, [Next]_vars PROVE WorkerInv'
  OBVIOUS
<1> USE DEF IInv, TypeOK, WorkerInv, OneWorkerPerDelivery, Goto, Return
<1>1. ASSUME NEW r \in Runs, NEW d \in Deliveries, Webhook(r, d) PROVE WorkerInv'
  BY <1>1 DEF Webhook, Dedupe
<1>2. ASSUME NEW d \in Deliveries, Forget(d) PROVE WorkerInv'
  BY <1>2 DEF Forget
<1>3. ASSUME NEW r \in Runs, Process(r) PROVE WorkerInv'
  <2>1. CASE Ignore(r)
    BY <2>1 DEF Ignore
  <2>2. CASE FindActive(r)
    BY <2>2 DEF FindActive
  <2>3. CASE SupersedeOlder(r)
    BY <2>3 DEF SupersedeOlder
  <2>4. CASE Insert(r)
    BY <2>4 DEF Insert
  <2>5. CASE Mint(r)
    BY <2>5 DEF Mint
  <2>6. CASE Submit(r)
    BY <2>6 DEF Submit
  <2>7. CASE SetHadesJob(r)
    BY <2>7 DEF SetHadesJob
  <2>8. CASE Fail(r)
    BY <2>8 DEF Fail
  <2>9. QED
    BY <1>3, <2>1, <2>2, <2>3, <2>4, <2>5, <2>6, <2>7, <2>8 DEF Process
<1>4. ASSUME NEW r \in Runs, Hades(r) PROVE WorkerInv'
  <2>1. ASSUME NEW s \in Reports, Decide(r, s) PROVE WorkerInv'
    BY <2>1 DEF Decide
  <2>2. CASE Callback(r)
    BY <2>2 DEF Callback
  <2>3. CASE CallbackLost(r)
    BY <2>3 DEF CallbackLost
  <2>4. CASE EndJob(r)
    BY <2>4 DEF EndJob
  <2>5. QED
    BY <1>4, <2>1, <2>2, <2>3, <2>4 DEF Hades
<1>5. ASSUME NEW r \in Runs, Clock(r) PROVE WorkerInv'
  <2>1. CASE Expire(r)
    BY <2>1 DEF Expire
  <2>2. CASE Settle(r)
    BY <2>2 DEF Settle
  <2>3. CASE Overdue(r)
    BY <2>3 DEF Overdue
  <2>4. QED
    BY <1>5, <2>1, <2>2, <2>3 DEF Clock
<1>6. CASE ReconcileOnce
  <2>1. CASE Query
    BY <2>1 DEF Query
  <2>2. ASSUME NEW r \in Runs, Poll(r) PROVE WorkerInv'
    BY <2>2 DEF Poll
  <2>3. CASE Finalize
    BY <2>3 DEF Finalize
  <2>4. QED
    BY <1>6, <2>1, <2>2, <2>3 DEF ReconcileOnce
<1>7. CASE Restart
  BY <1>7 DEF Restart
<1>8. CASE UNCHANGED vars
  BY <1>8 DEF vars
<1>9. QED
  BY <1>1, <1>2, <1>3, <1>4, <1>5, <1>6, <1>7, <1>8 DEF Next

\* The row, the job and its id come in this order, and age waits for the goroutine.
LEMMA RowNext == IInv /\ [Next]_vars => RowInv'
<1> SUFFICES ASSUME IInv, [Next]_vars PROVE RowInv'
  OBVIOUS
<1> USE DEF IInv, TypeOK, RowInv, WorkerInv, Goto, Return
<1>1. ASSUME NEW r \in Runs, NEW d \in Deliveries, Webhook(r, d) PROVE RowInv'
  BY <1>1 DEF Webhook, Dedupe
<1>2. ASSUME NEW d \in Deliveries, Forget(d) PROVE RowInv'
  BY <1>2 DEF Forget
<1>3. ASSUME NEW r \in Runs, Process(r) PROVE RowInv'
  <2>1. CASE Ignore(r)
    BY <2>1 DEF Ignore
  <2>2. CASE FindActive(r)
    BY <2>2 DEF FindActive
  <2>3. CASE SupersedeOlder(r)
    BY <2>3 DEF SupersedeOlder, Superseded, Stored
  <2>4. CASE Insert(r)
    BY <2>4 DEF Insert
  <2>5. CASE Mint(r)
    BY <2>5 DEF Mint
  <2>6. CASE Submit(r)
    BY <2>6 DEF Submit
  <2>7. CASE SetHadesJob(r)
    BY <2>7 DEF SetHadesJob
  <2>8. CASE Fail(r)
    BY <2>8 DEF Fail
  <2>9. QED
    BY <1>3, <2>1, <2>2, <2>3, <2>4, <2>5, <2>6, <2>7, <2>8 DEF Process
<1>4. ASSUME NEW r \in Runs, Hades(r) PROVE RowInv'
  <2>1. ASSUME NEW s \in Reports, Decide(r, s) PROVE RowInv'
    BY <2>1 DEF Decide
  <2>2. CASE Callback(r)
    <3>1. outcome[r] \in Reports
      BY <2>2 DEF Callback, Calling, Outcomes
    <3>2. \A q \in Runs : (status'[q] = "none") = (status[q] = "none")
      BY <2>2, <3>1, ServiceAssumption DEF Callback, SaveResult
    <3>3. QED
      BY <2>2, <3>2 DEF Callback, SaveResult
  <2>3. CASE CallbackLost(r)
    BY <2>3 DEF CallbackLost
  <2>4. CASE EndJob(r)
    BY <2>4 DEF EndJob
  <2>5. QED
    BY <1>4, <2>1, <2>2, <2>3, <2>4 DEF Hades
<1>5. ASSUME NEW r \in Runs, Clock(r) PROVE RowInv'
  <2>1. CASE Expire(r)
    BY <2>1 DEF Expire
  <2>2. CASE Settle(r)
    BY <2>2 DEF Settle
  <2>3. CASE Overdue(r)
    BY <2>3 DEF Overdue
  <2>4. QED
    BY <1>5, <2>1, <2>2, <2>3 DEF Clock
<1>6. CASE ReconcileOnce
  <2>1. CASE Query
    BY <2>1 DEF Query
  <2>2. ASSUME NEW r \in Runs, Poll(r) PROVE RowInv'
    BY <2>2 DEF Poll
  <2>3. CASE Finalize
    BY <2>3 DEF Finalize, Verdicts, ReconcilerInv
  <2>4. QED
    BY <1>6, <2>1, <2>2, <2>3 DEF ReconcileOnce
<1>7. CASE Restart
  BY <1>7 DEF Restart
<1>8. CASE UNCHANGED vars
  BY <1>8 DEF vars
<1>9. QED
  BY <1>1, <1>2, <1>3, <1>4, <1>5, <1>6, <1>7, <1>8 DEF Next

\* No step makes a superseded run submitted again: an insert is for a new run.
LEMMA SupersedeNext == IInv /\ [Next]_vars => SupersedeInv'
<1> SUFFICES ASSUME IInv, [Next]_vars PROVE SupersedeInv'
  OBVIOUS
<1> USE DEF IInv, TypeOK, SupersedeInv, SupersedeSticks, RowInv, WorkerInv, Stored, Goto, Return
<1>1. ASSUME NEW r \in Runs, NEW d \in Deliveries, Webhook(r, d) PROVE SupersedeInv'
  BY <1>1 DEF Webhook, Dedupe
<1>2. ASSUME NEW d \in Deliveries, Forget(d) PROVE SupersedeInv'
  BY <1>2 DEF Forget
<1>3. ASSUME NEW r \in Runs, Process(r) PROVE SupersedeInv'
  <2>1. CASE Ignore(r)
    BY <2>1 DEF Ignore
  <2>2. CASE FindActive(r)
    BY <2>2 DEF FindActive
  <2>3. CASE SupersedeOlder(r)
    BY <2>3 DEF SupersedeOlder, Superseded
  <2>4. CASE Insert(r)
    BY <2>4 DEF Insert
  <2>5. CASE Mint(r)
    BY <2>5 DEF Mint
  <2>6. CASE Submit(r)
    BY <2>6 DEF Submit
  <2>7. CASE SetHadesJob(r)
    BY <2>7 DEF SetHadesJob
  <2>8. CASE Fail(r)
    BY <2>8 DEF Fail
  <2>9. QED
    BY <1>3, <2>1, <2>2, <2>3, <2>4, <2>5, <2>6, <2>7, <2>8 DEF Process
<1>4. ASSUME NEW r \in Runs, Hades(r) PROVE SupersedeInv'
  <2>1. ASSUME NEW s \in Reports, Decide(r, s) PROVE SupersedeInv'
    BY <2>1 DEF Decide
  <2>2. CASE Callback(r)
    <3>1. outcome[r] \in Reports
      BY <2>2 DEF Callback, Calling, Outcomes
    <3>2. \A q \in Runs : (status'[q] = "none") = (status[q] = "none")
      BY <2>2, <3>1, ServiceAssumption DEF Callback, SaveResult
    <3>3. \A q \in Runs : status'[q] = "submitted" => status[q] = "submitted"
      BY <2>2, <3>1, ServiceAssumption DEF Callback, SaveResult
    <3>4. QED
      BY <2>2, <3>2, <3>3 DEF Callback, SaveResult
  <2>3. CASE CallbackLost(r)
    BY <2>3 DEF CallbackLost
  <2>4. CASE EndJob(r)
    BY <2>4 DEF EndJob
  <2>5. QED
    BY <1>4, <2>1, <2>2, <2>3, <2>4 DEF Hades
<1>5. ASSUME NEW r \in Runs, Clock(r) PROVE SupersedeInv'
  <2>1. CASE Expire(r)
    BY <2>1 DEF Expire
  <2>2. CASE Settle(r)
    BY <2>2 DEF Settle
  <2>3. CASE Overdue(r)
    BY <2>3 DEF Overdue
  <2>4. QED
    BY <1>5, <2>1, <2>2, <2>3 DEF Clock
<1>6. CASE ReconcileOnce
  <2>1. CASE Query
    BY <2>1 DEF Query
  <2>2. ASSUME NEW r \in Runs, Poll(r) PROVE SupersedeInv'
    BY <2>2 DEF Poll
  <2>3. CASE Finalize
    BY <2>3 DEF Finalize, Verdicts, ReconcilerInv
  <2>4. QED
    BY <1>6, <2>1, <2>2, <2>3 DEF ReconcileOnce
<1>7. CASE Restart
  BY <1>7 DEF Restart
<1>8. CASE UNCHANGED vars
  BY <1>8 DEF vars
<1>9. QED
  BY <1>1, <1>2, <1>3, <1>4, <1>5, <1>6, <1>7, <1>8 DEF Next

\* The query takes runs without a live goroutine, and none of them gets a new one.
LEMMA ReconcilerNext == IInv /\ [Next]_vars => ReconcilerInv'
<1> SUFFICES ASSUME IInv, [Next]_vars PROVE ReconcilerInv'
  OBVIOUS
<1> USE DEF IInv, TypeOK, ReconcilerInv, ReconcilerIsAlone, RowInv, WorkerInv, Goto, Return
<1>1. ASSUME NEW r \in Runs, NEW d \in Deliveries, Webhook(r, d) PROVE ReconcilerInv'
  BY <1>1 DEF Webhook, Dedupe
<1>2. ASSUME NEW d \in Deliveries, Forget(d) PROVE ReconcilerInv'
  BY <1>2 DEF Forget
<1>3. ASSUME NEW r \in Runs, Process(r) PROVE ReconcilerInv'
  <2> USE <1>3 DEF Process, Ignore, FindActive, SupersedeOlder, Superseded, Stored, Insert,
                   Mint, Submit, SetHadesJob, Fail
  <2>1. \A q \in Runs : live'[q] => live[q]
    OBVIOUS
  <2>2. \A q \in Runs : status[q] # "none" => status'[q] # "none"
    OBVIOUS
  <2>3. UNCHANGED <<batch, verdict>>
    OBVIOUS
  <2> HIDE <1>3
  <2>4. QED
    BY <2>1, <2>2, <2>3
<1>4. ASSUME NEW r \in Runs, Hades(r) PROVE ReconcilerInv'
  <2>1. ASSUME NEW s \in Reports, Decide(r, s) PROVE ReconcilerInv'
    BY <2>1 DEF Decide
  <2>2. CASE Callback(r)
    BY <2>2 DEF Callback, SaveResult, Calling, Outcomes
  <2>3. CASE CallbackLost(r)
    BY <2>3 DEF CallbackLost
  <2>4. CASE EndJob(r)
    BY <2>4 DEF EndJob
  <2>5. QED
    BY <1>4, <2>1, <2>2, <2>3, <2>4 DEF Hades
<1>5. ASSUME NEW r \in Runs, Clock(r) PROVE ReconcilerInv'
  <2>1. CASE Expire(r)
    BY <2>1 DEF Expire
  <2>2. CASE Settle(r)
    BY <2>2 DEF Settle
  <2>3. CASE Overdue(r)
    BY <2>3 DEF Overdue
  <2>4. QED
    BY <1>5, <2>1, <2>2, <2>3 DEF Clock
<1>6. CASE ReconcileOnce
  <2>1. CASE Query
    BY <2>1 DEF Query
  <2>2. ASSUME NEW r \in Runs, Poll(r) PROVE ReconcilerInv'
    BY <2>2 DEF Poll, Verdicts, JobView
  <2>3. CASE Finalize
    <3>1. PICK v \in verdict : status' = [status EXCEPT ![v[1]] = v[2]]
      BY <2>3 DEF Finalize
    <3>2. v[1] \in Runs /\ v[2] # "none" /\ verdict' = {} /\ UNCHANGED <<batch, live>>
      BY <2>3, <3>1 DEF Finalize, Verdicts
    <3>3. QED
      BY <3>1, <3>2
  <2>4. QED
    BY <1>6, <2>1, <2>2, <2>3 DEF ReconcileOnce
<1>7. CASE Restart
  BY <1>7 DEF Restart
<1>8. CASE UNCHANGED vars
  BY <1>8 DEF vars
<1>9. QED
  BY <1>1, <1>2, <1>3, <1>4, <1>5, <1>6, <1>7, <1>8 DEF Next

\* Only a failing goroutine, which has recorded no job id, erases a result.
LEMMA ResultNext == IInv /\ [Next]_vars => ResultInv'
<1> SUFFICES ASSUME IInv, [Next]_vars PROVE ResultInv'
  OBVIOUS
<1> USE DEF IInv, TypeOK, ResultInv, SuccessIsReported, RowInv, ReconcilerInv, Goto, Return
<1>1. ASSUME NEW r \in Runs, NEW d \in Deliveries, Webhook(r, d) PROVE ResultInv'
  BY <1>1 DEF Webhook, Dedupe
<1>2. ASSUME NEW d \in Deliveries, Forget(d) PROVE ResultInv'
  BY <1>2 DEF Forget
<1>3. ASSUME NEW r \in Runs, Process(r) PROVE ResultInv'
  <2>1. CASE Ignore(r)
    BY <2>1 DEF Ignore
  <2>2. CASE FindActive(r)
    BY <2>2 DEF FindActive
  <2>3. CASE SupersedeOlder(r)
    BY <2>3 DEF SupersedeOlder, Superseded, Stored
  <2>4. CASE Insert(r)
    BY <2>4 DEF Insert
  <2>5. CASE Mint(r)
    BY <2>5 DEF Mint
  <2>6. CASE Submit(r)
    BY <2>6 DEF Submit
  <2>7. CASE SetHadesJob(r)
    BY <2>7 DEF SetHadesJob
  <2>8. CASE Fail(r)
    BY <2>8 DEF Fail
  <2>9. QED
    BY <1>3, <2>1, <2>2, <2>3, <2>4, <2>5, <2>6, <2>7, <2>8 DEF Process
<1>4. ASSUME NEW r \in Runs, Hades(r) PROVE ResultInv'
  <2>1. ASSUME NEW s \in Reports, Decide(r, s) PROVE ResultInv'
    BY <2>1 DEF Decide
  <2>2. CASE Callback(r)
    BY <2>2, DetailType DEF Callback, SaveResult, Calling, Outcomes
  <2>3. CASE CallbackLost(r)
    BY <2>3 DEF CallbackLost
  <2>4. CASE EndJob(r)
    BY <2>4 DEF EndJob
  <2>5. QED
    BY <1>4, <2>1, <2>2, <2>3, <2>4 DEF Hades
<1>5. ASSUME NEW r \in Runs, Clock(r) PROVE ResultInv'
  <2>1. CASE Expire(r)
    BY <2>1 DEF Expire
  <2>2. CASE Settle(r)
    BY <2>2 DEF Settle
  <2>3. CASE Overdue(r)
    BY <2>3 DEF Overdue
  <2>4. QED
    BY <1>5, <2>1, <2>2, <2>3 DEF Clock
<1>6. CASE ReconcileOnce
  <2>1. CASE Query
    BY <2>1 DEF Query
  <2>2. ASSUME NEW r \in Runs, Poll(r) PROVE ResultInv'
    BY <2>2 DEF Poll, Verdicts, JobView
  <2>3. CASE Finalize
    BY <2>3 DEF Finalize, Verdicts
  <2>4. QED
    BY <1>6, <2>1, <2>2, <2>3 DEF ReconcileOnce
<1>7. CASE Restart
  BY <1>7 DEF Restart
<1>8. CASE UNCHANGED vars
  BY <1>8 DEF vars
<1>9. QED
  BY <1>1, <1>2, <1>3, <1>4, <1>5, <1>6, <1>7, <1>8 DEF Next

\* The invariant holds at the start: nothing has been received, stored or submitted.
LEMMA InvInit == Init => IInv
<1> SUFFICES ASSUME Init PROVE IInv
  OBVIOUS
<1>1. TypeOK
  BY TypeInit
<1>2. WorkerInv /\ RowInv
  BY DEF Init, WorkerInv, RowInv, OneWorkerPerDelivery
<1>3. SupersedeInv /\ ReconcilerInv /\ ResultInv
  BY DEF Init, SupersedeInv, SupersedeSticks, Stored, ReconcilerInv, ReconcilerIsAlone,
         ResultInv, SuccessIsReported
<1>4. QED
  BY <1>1, <1>2, <1>3 DEF IInv

\* The conjunction of the five parts and the types is inductive.
LEMMA InvNext == IInv /\ [Next]_vars => IInv'
BY TypeNext, WorkerNext, RowNext, SupersedeNext, ReconcilerNext, ResultNext DEF IInv

\* The inductive invariant holds in every state of the service.
THEOREM Invariance == Spec => []IInv
BY InvInit, InvNext, PTL DEF Spec

\* A job in Hades always belongs to a run of the store: no callback can report to a row
\* that is missing (Create comes before Submit, and no row is deleted).
THEOREM JobsAlwaysStored == Spec => []JobsAreStored
<1>1. IInv => JobsAreStored
  BY DEF IInv, RowInv, JobsAreStored
<1>2. QED
  BY Invariance, <1>1, PTL

\* Create: the runs a new run found for its pull request are not submitted once it is
\* stored, and never again, for any interleaving of goroutines, callbacks and reconciler.
THEOREM SupersedeAlwaysSticks == Spec => []SupersedeSticks
<1>1. IInv => SupersedeSticks
  BY DEF IInv, SupersedeInv
<1>2. QED
  BY Invariance, <1>1, PTL

\* reconcileOnce and process never work on one run at the same time.
THEOREM ReconcilerAlwaysAlone == Spec => []ReconcilerIsAlone
<1>1. IInv => ReconcilerIsAlone
  BY DEF IInv, ReconcilerInv
<1>2. QED
  BY Invariance, <1>1, PTL

\* dedupe and gcDeliveries: one live goroutine per named delivery.
THEOREM OneWorkerAlways == Spec => []OneWorkerPerDelivery
<1>1. IInv => OneWorkerPerDelivery
  BY DEF IInv, WorkerInv
<1>2. QED
  BY Invariance, <1>1, PTL

\* An acknowledged result stays in the row of a run whose job id is recorded.
THEOREM AcknowledgedAlwaysKept == Spec => []AcknowledgedReviewKept
<1>1. IInv => AcknowledgedReviewKept
  BY DEF IInv, ResultInv, AcknowledgedReviewKept
<1>2. QED
  BY Invariance, <1>1, PTL

\* A succeeded run always carries the publisher's report: finalize(succeeded) never has
\* to stand in for a callback that did not arrive.
THEOREM SuccessAlwaysReported == Spec => []SuccessIsReported
<1>1. IInv => SuccessIsReported
  BY DEF IInv, ResultInv
<1>2. QED
  BY Invariance, <1>1, PTL

\* A step never reopens the case of a run the reconciler is done with: its goroutine has
\* returned, its row is not submitted, and its publisher does not call again.
LEMMA ReportedNext ==
    ASSUME IInv, [Next]_vars, NEW r \in Runs, Reported(r)
    PROVE  Reported(r)'
<1> USE DEF Reported
<1>1. TypeOK /\ pc[r] = "end" /\ outcome[r] \in Reports /\ status[r] # "submitted"
  BY ServiceAssumption DEF IInv, TypeOK, RowInv, ResultInv, Outcomes
<1> USE DEF TypeOK, Goto, Return
<1>2. ASSUME NEW q \in Runs, NEW d \in Deliveries, Webhook(q, d) PROVE Reported(r)'
  BY <1>2 DEF Webhook, Dedupe
<1>3. ASSUME NEW d \in Deliveries, Forget(d) PROVE Reported(r)'
  BY <1>3 DEF Forget
<1>4. ASSUME NEW q \in Runs, Process(q) PROVE Reported(r)'
  <2>1. CASE Ignore(q) \/ FindActive(q) \/ Mint(q)
    BY <2>1 DEF Ignore, FindActive, Mint
  <2>2. CASE SupersedeOlder(q)
    BY <1>1, <2>2 DEF SupersedeOlder
  <2>3. CASE Insert(q)
    BY <1>1, <2>3 DEF Insert
  <2>4. CASE Submit(q)
    BY <2>4 DEF Submit
  <2>5. CASE SetHadesJob(q)
    BY <1>1, <2>5 DEF SetHadesJob
  <2>6. CASE Fail(q)
    BY <1>1, <2>6 DEF Fail
  <2>7. QED
    BY <1>4, <2>1, <2>2, <2>3, <2>4, <2>5, <2>6 DEF Process
<1>5. ASSUME NEW q \in Runs, Hades(q) PROVE Reported(r)'
  <2>1. ASSUME NEW s \in Reports, Decide(q, s) PROVE Reported(r)'
    BY <1>1, <2>1, ServiceAssumption DEF Decide
  <2>2. CASE Callback(q)
    BY <1>1, <2>2 DEF Callback, Calling, SaveResult
  <2>3. CASE CallbackLost(q)
    BY <2>3 DEF CallbackLost
  <2>4. CASE EndJob(q)
    BY <1>1, <2>4 DEF EndJob
  <2>5. QED
    BY <1>5, <2>1, <2>2, <2>3, <2>4 DEF Hades
<1>6. ASSUME NEW q \in Runs, Clock(q) PROVE Reported(r)'
  BY <1>6 DEF Clock, Expire, Settle, Overdue
<1>7. CASE ReconcileOnce
  <2>1. CASE Query
    BY <1>1, <2>1 DEF Query
  <2>2. ASSUME NEW q \in Runs, Poll(q) PROVE Reported(r)'
    BY <2>2 DEF Poll
  <2>3. CASE Finalize
    <3>1. PICK v \in verdict : /\ status' = [status EXCEPT ![v[1]] = v[2]]
                               /\ verdict' = {}
                               /\ UNCHANGED <<hasJob, acked, outcome, batch>>
      BY <2>3 DEF Finalize, jobVars
    <3>2. v[1] # r
      <4>1. PICK q \in Runs, s \in Verdicts : v = <<q, s>>
        <5>1. v \in Runs \X Verdicts
          BY <1>1
        <5>2. \A R, V, x : x \in R \X V => \E q \in R, s \in V : x = <<q, s>>
          OBVIOUS
        <5>3. QED
          BY <5>1, <5>2
      <4>2. QED
        BY <4>1
    <3>3. QED
      BY <3>1, <3>2
  <2>4. QED
    BY <1>7, <2>1, <2>2, <2>3 DEF ReconcileOnce
<1>8. CASE Restart
  BY <1>8 DEF Restart
<1>9. CASE UNCHANGED vars
  BY <1>9 DEF vars
<1>10. QED
  BY <1>2, <1>3, <1>4, <1>5, <1>6, <1>7, <1>8, <1>9 DEF Next

\* The callback has the last word, up to superseding, once no list of the reconciler holds the
\* run, for any number of runs, lists and restarts.
THEOREM ReportAlwaysStands == Spec => ReportStands
<1>1. IInv /\ [Next]_vars => [\A r \in Runs : Reported(r) => Reported(r)']_vars
  BY ReportedNext
<1>2. QED
  BY <1>1, Invariance, PTL DEF Spec, ReportStands
-----------------------------------------------------------------------------
(* The service implements the abstract lifecycle. *)

\* The pull request of a row, as the refinement reads it.
RowPR == [r \in Runs |-> IF status[r] = "none" THEN "no pr" ELSE PROf[delivery[r]]]

\* A step that changes no status from or to "none" and no stored run's delivery keeps it.
LEMMA RowPRStable ==
    ASSUME TypeOK, TypeOK',
           \A q \in Runs : (status'[q] = "none") = (status[q] = "none"),
           \A q \in Runs : status[q] # "none" => delivery'[q] = delivery[q]
    PROVE  RowPR' = RowPR
  BY DEF RowPR

\* An Open step of the lifecycle is one of its steps.
LEMMA OpenIsNext ==
    ASSUME NEW r \in Runs, NEW p \in PRs, Lifecycle!Open(r, p)
    PROVE  Lifecycle!Next
  BY DEF Lifecycle!Next

\* Every step of the service is a step of the lifecycle or leaves its variables alone.
LEMMA LifecycleNext == IInv /\ IInv' /\ [Next]_vars => [Lifecycle!Next]_(Lifecycle!vars)
<1> SUFFICES ASSUME IInv, IInv', [Next]_vars
             PROVE  Lifecycle!Next \/ UNCHANGED <<status, result, RowPR>>
  BY DEF Lifecycle!vars, RowPR
<1> USE DEF IInv, TypeOK, Goto, Return
<1>1. ASSUME NEW r \in Runs, NEW d \in Deliveries, Webhook(r, d)
      PROVE  UNCHANGED <<status, result, RowPR>>
  <2>1. UNCHANGED <<status, result>> /\ status[r] = "none"
    BY <1>1 DEF Webhook, Dedupe, RowInv
  <2>2. \A q \in Runs : status[q] # "none" => delivery'[q] = delivery[q]
    BY <1>1, <2>1 DEF Webhook, Dedupe
  <2>3. QED
    BY <2>1, <2>2, RowPRStable
<1>2. ASSUME NEW r \in Runs, SupersedeOlder(r)
      PROVE  Lifecycle!Next \/ UNCHANGED <<status, result, RowPR>>
  <2>1. \A q \in Runs : (status'[q] = "none") = (status[q] = "none")
    BY <1>2 DEF SupersedeOlder, Superseded, Stored
  <2>2. RowPR' = RowPR /\ UNCHANGED result
    BY <1>2, <2>1, RowPRStable DEF SupersedeOlder
  <2>3. CASE ~live[r]
    <3>1. status' = status
      BY <1>2, <2>3 DEF SupersedeOlder
    <3>2. QED
      BY <2>2, <3>1
  <2>4. CASE live[r]
    <3>1. PROf[delivery[r]] \in PRs
      BY <1>2, ServiceAssumption DEF SupersedeOlder, WorkerInv
    <3>2. status' = [q \in Runs |->
                       IF RowPR[q] = PROf[delivery[r]] /\ status[q] \in {"submitted", "review_failed"}
                       THEN "superseded" ELSE status[q]]
      BY <1>2, <2>4 DEF SupersedeOlder, Superseded, SamePR, Stored, RowPR
    <3>3. Lifecycle!Supersede(PROf[delivery[r]])
      BY <2>2, <3>2 DEF Lifecycle!Supersede, RowPR
    <3>4. QED
      BY <3>1, <3>3 DEF Lifecycle!Next
  <2>5. QED
    BY <2>3, <2>4
<1>3. ASSUME NEW r \in Runs, Insert(r)
      PROVE  Lifecycle!Next \/ UNCHANGED <<status, result, RowPR>>
  <2>1. CASE ~live[r]
    BY <1>3, <2>1, RowPRStable DEF Insert
  <2>2. CASE live[r]
    <3>1. status[r] = "none" /\ PROf[delivery[r]] \in PRs
      BY <1>3, ServiceAssumption DEF Insert, RowInv, WorkerInv
    <3>2. RowPR' = [RowPR EXCEPT ![r] = PROf[delivery[r]]]
      BY <1>3, <2>2, <3>1 DEF Insert, RowPR
    <3>3. Lifecycle!Open(r, PROf[delivery[r]])
      BY <1>3, <2>2, <3>1, <3>2 DEF Insert, Lifecycle!Open, RowPR
    <3>4. QED
      BY <3>1, <3>3, OpenIsNext DEF Lifecycle!Open
  <2>3. QED
    BY <2>1, <2>2
<1>4. ASSUME NEW r \in Runs, Fail(r)
      PROVE  Lifecycle!Next \/ UNCHANGED <<status, result, RowPR>>
  <2>1. CASE ~live[r]
    BY <1>4, <2>1, RowPRStable DEF Fail
  <2>2. CASE live[r]
    <3>1. status[r] # "none"
      BY <1>4 DEF Fail, RowInv
    <3>2. RowPR' = RowPR
      BY <1>4, <3>1, RowPRStable DEF Fail
    <3>3. Lifecycle!Report(r, "failed")
      BY <1>4, <2>2, <3>1, <3>2 DEF Fail, Lifecycle!Report, Lifecycle!Detail, RowPR
    <3>4. QED
      BY <3>3 DEF Lifecycle!Next
  <2>3. QED
    BY <2>1, <2>2
<1>5. ASSUME NEW r \in Runs, Callback(r)
      PROVE  Lifecycle!Next
  <2>1. outcome[r] \in {"succeeded", "review_failed", "stale"} /\ status[r] # "none"
    BY <1>5, ServiceAssumption DEF Callback, Calling, Outcomes, RowInv
  <2>2. /\ status' = [status EXCEPT ![r] = outcome[r]]
        /\ result' = [result EXCEPT ![r] = Detail(outcome[r])]
    BY <1>5, <2>1 DEF Callback, SaveResult
  <2>3. RowPR' = RowPR
    BY <1>5, <2>1, <2>2, RowPRStable DEF Callback
  <2>4. Lifecycle!Report(r, outcome[r])
    BY <2>1, <2>2, <2>3 DEF Lifecycle!Report, Lifecycle!Detail, Detail, RowPR
  <2>5. QED
    BY <2>1, <2>4 DEF Lifecycle!Next
<1>6. ASSUME Finalize
      PROVE  Lifecycle!Next
  <2>1. PICK v \in verdict :
           status' = [status EXCEPT ![v[1]] = v[2]] /\ UNCHANGED <<delivery, result>>
    BY <1>6 DEF Finalize
  <2>2. v[1] \in Runs /\ v[2] \in {"succeeded", "failed", "timeout"} /\ status[v[1]] # "none"
    BY <2>1 DEF Verdicts, ReconcilerInv
  <2>3. RowPR' = RowPR
    BY <2>1, <2>2, RowPRStable
  <2>4. Lifecycle!Conclude(v[1], v[2])
    BY <2>1, <2>2, <2>3 DEF Lifecycle!Conclude, RowPR
  <2>5. QED
    BY <2>2, <2>4 DEF Lifecycle!Next
<1>7. ASSUME UNCHANGED <<status, result, delivery>>
      PROVE  UNCHANGED <<status, result, RowPR>>
  BY <1>7, RowPRStable
<1>8. ASSUME NEW r \in Runs, Process(r)
      PROVE  \/ SupersedeOlder(r) \/ Insert(r) \/ Fail(r)
             \/ UNCHANGED <<status, result, delivery>>
  BY <1>8 DEF Process, Ignore, FindActive, Mint, Submit, SetHadesJob
<1>9. ASSUME NEW r \in Runs, Hades(r)
      PROVE  Callback(r) \/ UNCHANGED <<status, result, delivery>>
  BY <1>9 DEF Hades, Decide, CallbackLost, EndJob
<1>10. ASSUME NEW r \in Runs, Clock(r)
       PROVE  UNCHANGED <<status, result, delivery>>
  BY <1>10 DEF Clock, Expire, Settle, Overdue
<1>11. ASSUME ReconcileOnce
       PROVE  Finalize \/ UNCHANGED <<status, result, delivery>>
  BY <1>11 DEF ReconcileOnce, Query, Poll
<1>12. ASSUME \/ \E d \in Deliveries : Forget(d)
              \/ Restart
              \/ UNCHANGED vars
       PROVE  UNCHANGED <<status, result, delivery>>
  BY <1>12 DEF Forget, Restart, vars
<1>13. QED
  BY <1>1, <1>2, <1>3, <1>4, <1>5, <1>6, <1>7, <1>8, <1>9, <1>10, <1>11, <1>12 DEF Next

\* The service implements RunLifecycle: whatever callbacks, reconciler, failing goroutines,
\* restarts and newer pushes do to a run, it is opened once and never becomes active again.
THEOREM Refinement == Spec => ImplementsLifecycle
<1>1. Init => Lifecycle!Init
  BY DEF Init, Lifecycle!Init, Lifecycle!NoPR
<1>2. QED
  BY <1>1, Invariance, LifecycleNext, PTL DEF Spec, ImplementsLifecycle, Lifecycle!Spec

-----------------------------------------------------------------------------
(* The service and the publisher together. *)

\* The lemmas about Publisher, under the substitution of P.
PP == INSTANCE PublisherProofs WITH
        pc <- step, verdict <- opinion, outcome <- conclusion,
        MaxReruns <- 0, reruns <- [r \in Runs |-> 0]

\* The publishers of the composition are an instance their lemmas hold of.
LEMMA PublisherHere == PP!PublisherAssumption
BY EndToEndAssumption DEF PP!PublisherAssumption
-----------------------------------------------------------------------------
\* P and PP are the same specification: the definitions of P and of PP agree one by one.
LEMMA SameInit == P!Init <=> PP!Init
BY DEF P!Init, PP!Init, P!Policies, PP!Policies

\* A push.
LEMMA SamePush == P!Push <=> PP!Push
BY DEF P!Push, PP!Push, P!jobVars, PP!jobVars

\* What both instances call a cardinality.
LEMMA SameCardinality == \A S : P!Cardinality(S) = PP!Cardinality(S)
BY DEF P!Cardinality, PP!Cardinality, P!IsFiniteSet, PP!IsFiniteSet

\* A comment of a person.
LEMMA SameComment == P!Comment <=> PP!Comment
<1>1. P!Person = PP!Person
  BY DEF P!Person, PP!Person
<1>2. {i \in 1..Len(comments) : comments[i] = P!Person} = {i \in 1..Len(comments) : comments[i] = PP!Person}
  BY <1>1
<1> QED
  BY <1>1, <1>2, SameCardinality DEF P!Comment, PP!Comment, P!jobVars, PP!jobVars

\* The first page of comments.
LEMMA SamePage == P!OnFirstPage = PP!OnFirstPage /\ P!Deleted = PP!Deleted
<1>1. P!Deleted = PP!Deleted
  BY DEF P!Deleted, PP!Deleted
<1>2. \A n : P!Batches(n) = PP!Batches(n)
  BY <1>1 DEF P!Batches, PP!Batches
<1>3. \A n : P!Cardinality(P!Batches(n)) = PP!Cardinality(PP!Batches(n))
  BY <1>2, SameCardinality
<1> QED
  BY <1>1, <1>2, <1>3 DEF P!OnFirstPage, PP!OnFirstPage

\* The start of a job.
LEMMA SameStart == ASSUME NEW r PROVE P!StartJob(r) <=> PP!StartJob(r)
BY DEF P!StartJob, PP!StartJob, P!prVars, PP!prVars, P!Verdicts, PP!Verdicts

\* The steps of a publisher.
LEMMA SameStep ==
    ASSUME NEW r
    PROVE  /\ P!ReadReview(r) <=> PP!ReadReview(r)
           /\ P!CheckFreshness(r) <=> PP!CheckFreshness(r)
           /\ P!ListSummaries(r) <=> PP!ListSummaries(r)
           /\ P!WriteSummary(r) <=> PP!WriteSummary(r)
           /\ P!DeletePrior(r) <=> PP!DeletePrior(r)
           /\ P!SubmitReview(r) <=> PP!SubmitReview(r)
           /\ P!Report(r) <=> PP!Report(r)
<1>1. P!ReadReview(r) <=> PP!ReadReview(r)
  BY DEF P!ReadReview, PP!ReadReview, P!Goto, PP!Goto, P!prVars, PP!prVars, P!jobVars, PP!jobVars
<1>2. P!CheckFreshness(r) <=> PP!CheckFreshness(r)
  BY DEF P!CheckFreshness, PP!CheckFreshness, P!Goto, PP!Goto, P!prVars, PP!prVars, P!jobVars, PP!jobVars
<1>3. P!ListSummaries(r) <=> PP!ListSummaries(r)
  BY DEF P!ListSummaries, PP!ListSummaries, P!Goto, PP!Goto, P!prVars, PP!prVars, P!jobVars, PP!jobVars,
         P!Finish, PP!Finish, P!Listed, PP!Listed
<1>4. P!WriteSummary(r) <=> PP!WriteSummary(r)
  BY DEF P!WriteSummary, PP!WriteSummary, P!Goto, PP!Goto, P!prVars, PP!prVars, P!jobVars, PP!jobVars,
         P!Finish, PP!Finish, P!AfterSummary, PP!AfterSummary, P!ReviewEvent, PP!ReviewEvent,
         P!Classify, PP!Classify, P!HasInline, PP!HasInline
<1>5. P!DeletePrior(r) <=> PP!DeletePrior(r)
  BY SamePage DEF P!DeletePrior, PP!DeletePrior, P!Goto, PP!Goto, P!prVars, PP!prVars,
                  P!jobVars, PP!jobVars, P!Finish, PP!Finish
<1>6. P!SubmitReview(r) <=> PP!SubmitReview(r)
  BY DEF P!SubmitReview, PP!SubmitReview, P!Goto, PP!Goto, P!prVars, PP!prVars, P!jobVars, PP!jobVars,
         P!Finish, PP!Finish, P!ReviewEvent, PP!ReviewEvent, P!Classify, PP!Classify, P!HasInline, PP!HasInline
<1>7. P!Report(r) <=> PP!Report(r)
  BY DEF P!Report, PP!Report, P!Goto, PP!Goto, P!prVars, PP!prVars, P!jobVars, PP!jobVars
<1> QED
  BY <1>1, <1>2, <1>3, <1>4, <1>5, <1>6, <1>7

\* A step.
LEMMA SameNext == [P!Next]_(P!vars) <=> [PP!Next]_(PP!vars)
<1>1. P!vars = PP!vars
  BY DEF P!vars, PP!vars, P!prVars, PP!prVars, P!jobVars, PP!jobVars
<1>2. \A r : P!Rerun(r) <=> PP!Rerun(r)
  BY DEF P!Rerun, PP!Rerun, P!prVars, PP!prVars, P!jobVars, PP!jobVars
<1>3. P!Next <=> PP!Next
  BY <1>2, SamePush, SameComment, SameStart, SameStep DEF P!Next, PP!Next, P!Step, PP!Step
<1>4. UNCHANGED P!vars <=> UNCHANGED PP!vars
  BY DEF P!vars, PP!vars, P!prVars, PP!prVars, P!jobVars, PP!jobVars
<1> QED
  BY <1>3, <1>4

\* What is to be seen of a run.
LEMMA SameViews ==
    ASSUME NEW r
    PROVE  /\ P!Summarised(r) <=> PP!Summarised(r)
           /\ P!Reviewed(r) <=> PP!Reviewed(r)
           /\ P!Commented(r) <=> PP!Commented(r)
BY DEF P!Summarised, PP!Summarised, P!Reviewed, PP!Reviewed, P!Commented, PP!Commented
-----------------------------------------------------------------------------
(* What ties the two parts together. *)

\* What a job reports is what its publisher concluded at the end of its work, the row holds
\* nothing else of a review, and there is a publisher only where there is a job.
Linked ==
    \A r \in Runs :
        /\ step[r] \in {"report", "done"} => conclusion[r] \in Reports
        /\ conclusion[r] # "none" => step[r] \in {"report", "done"}
        /\ outcome[r] # "none" => outcome[r] = conclusion[r]
        /\ result[r] = "review" => conclusion[r] \in {"succeeded", "stale"}
        /\ status[r] \in {"stale", "review_failed"} => conclusion[r] = status[r]
        /\ step[r] # "waiting" => job[r] # "none"
        /\ step[r] = "waiting" => ~PP!Summarised(r)

\* The inductive invariant of the composition.
EInv == IInv /\ PP!IInv /\ Linked

\* Every step of the composition is a step, or none, of the service and of the publishers.
LEMMA Mapped ==
    ASSUME EInv, [SystemNext]_allVars
    PROVE  [Next]_vars /\ [PP!Next]_(PP!vars)
<1> USE DEF prVars
<1>0. UNCHANGED prVars => UNCHANGED PP!vars
  BY DEF PP!vars, PP!prVars, PP!jobVars
<1>1. CASE UNCHANGED allVars
  BY <1>0, <1>1 DEF allVars, vars
<1>2. ASSUME NEW r \in Runs, NEW d \in Deliveries, Event(r, d)
      PROVE  [Next]_vars /\ [PP!Next]_(PP!vars)
  BY <1>0, <1>2 DEF Event, Next
<1>3. CASE ServiceStep
  BY <1>0, <1>3 DEF ServiceStep, Next, Hades
<1>4. CASE PullRequest
  BY <1>4, SamePush, SameComment DEF PullRequest, PP!Next
<1>5. ASSUME NEW r \in Runs, StartJob(r)
      PROVE  [Next]_vars /\ [PP!Next]_(PP!vars)
  BY <1>5, SameStart DEF StartJob, PP!Next
<1>6. ASSUME NEW r \in Runs, PublisherStep(r)
      PROVE  [Next]_vars /\ [PP!Next]_(PP!vars)
  BY <1>6, SameStep DEF PublisherStep, PP!Next, PP!Step
<1>7. ASSUME NEW r \in Runs, Conclude(r)
      PROVE  [Next]_vars /\ [PP!Next]_(PP!vars)
  <2>1. conclusion[r] \in Reports
    BY <1>7 DEF Conclude, EInv, Linked
  <2> QED
    BY <1>0, <1>7, <2>1 DEF Conclude, Next, Hades
<1>8. ASSUME NEW r \in Runs, Told(r)
      PROVE  [Next]_vars /\ [PP!Next]_(PP!vars)
  <2>1. Callback(r)
    BY <1>8 DEF Told
  <2>2. CASE step[r] = "report"
    BY <1>8, <2>1, <2>2, SameStep DEF Told, Next, Hades, PP!Next, PP!Step
  <2>3. CASE step[r] # "report"
    BY <1>0, <1>8, <2>1, <2>3 DEF Told, Next, Hades
  <2> QED
    BY <2>2, <2>3
<1> QED
  BY <1>1, <1>2, <1>3, <1>4, <1>5, <1>6, <1>7, <1>8 DEF SystemNext

\* A comment is added for a run only by its own publisher.
LEMMA OthersComments ==
    ASSUME PP!TypeOK, NEW r \in Runs, NEW x, x # r,
           comments' = comments \/ comments' = Append(comments, x), PP!Summarised(r)'
    PROVE  PP!Summarised(r)
<1>1. comments \in Seq(Runs \cup {PP!Person})
  BY DEF PP!TypeOK
<1>2. PICK i \in 1..Len(comments') : comments'[i] = r
  BY DEF PP!Summarised
<1>3. CASE comments' = comments
  BY <1>2, <1>3 DEF PP!Summarised
<1>4. CASE comments' = Append(comments, x)
  BY <1>1, <1>2, <1>4 DEF PP!Summarised
<1> QED
  BY <1>3, <1>4

\* A publisher's step is that of one run, which is on its way and then goes on or concludes.
LEMMA OneStep ==
    ASSUME PP!TypeOK, NEW r \in Runs, PublisherStep(r)
    PROVE  /\ step[r] \notin {"waiting", "report", "done"}
           /\ \A q \in Runs \ {r} : step'[q] = step[q] /\ conclusion'[q] = conclusion[q]
           /\ \/ step'[r] = "report" /\ conclusion'[r] \in {"succeeded", "stale", "review_failed"}
              \/ step'[r] \notin {"waiting", "report", "done"} /\ conclusion'[r] = conclusion[r]
           /\ comments' = comments \/ comments' = Append(comments, r)
<1> USE DEF PP!TypeOK, PP!Goto, PP!Finish
<1>1. CASE PP!ReadReview(r)
  BY <1>1 DEF PP!ReadReview, PP!prVars
<1>2. CASE PP!CheckFreshness(r)
  BY <1>2 DEF PP!CheckFreshness, PP!prVars
<1>3. CASE PP!ListSummaries(r)
  BY <1>3 DEF PP!ListSummaries, PP!prVars
<1>4. CASE PP!WriteSummary(r)
  BY <1>4 DEF PP!WriteSummary, PP!AfterSummary
<1>5. CASE PP!DeletePrior(r)
  BY <1>5 DEF PP!DeletePrior
<1>6. CASE PP!SubmitReview(r)
  BY <1>6 DEF PP!SubmitReview
<1> QED
  BY <1>1, <1>2, <1>3, <1>4, <1>5, <1>6, SameStep DEF PublisherStep

\* What the service does without its publishers changes no row to what only they report.
LEMMA ServiceFrame ==
    ASSUME TypeOK, ServiceStep, NEW r \in Runs
    PROVE  /\ status'[r] = status[r] \/ status'[r] \notin {"stale", "review_failed"}
           /\ result'[r] = result[r] \/ result'[r] # "review"
           /\ outcome'[r] = outcome[r] \/ outcome'[r] = "none"
           /\ job[r] # "none" => job'[r] # "none"
<1> DEFINE Fine == /\ status'[r] = status[r] \/ status'[r] \notin {"stale", "review_failed"}
                   /\ result'[r] = result[r] \/ result'[r] # "review"
                   /\ outcome'[r] = outcome[r] \/ outcome'[r] = "none"
                   /\ job[r] # "none" => job'[r] # "none"
<1> USE DEF TypeOK, Goto, Return, workerVars, dbVars, jobVars, recVars
<1>1. ASSUME NEW d \in Deliveries, Forget(d) PROVE Fine
  BY <1>1 DEF Forget
<1>2. ASSUME NEW q \in Runs, Process(q) PROVE Fine
  <2>1. CASE Ignore(q) \/ FindActive(q) \/ Mint(q)
    BY <2>1 DEF Ignore, FindActive, Mint
  <2>2. CASE SupersedeOlder(q)
    BY <2>2 DEF SupersedeOlder
  <2>3. CASE Insert(q)
    BY <2>3 DEF Insert
  <2>4. CASE Submit(q)
    BY <2>4 DEF Submit
  <2>5. CASE SetHadesJob(q)
    BY <2>5 DEF SetHadesJob
  <2>6. CASE Fail(q)
    BY <2>6 DEF Fail
  <2> QED
    BY <1>2, <2>1, <2>2, <2>3, <2>4, <2>5, <2>6 DEF Process
<1>3. ASSUME NEW q \in Runs, Clock(q) PROVE Fine
  BY <1>3 DEF Clock, Expire, Settle, Overdue
<1>4. ASSUME NEW q \in Runs, CallbackLost(q) \/ EndJob(q) PROVE Fine
  BY <1>4 DEF CallbackLost, EndJob
<1>5. CASE ReconcileOnce
  <2>1. ASSUME NEW q \in Runs, Query \/ Poll(q) PROVE Fine
    BY <2>1 DEF Query, Poll
  <2>2. CASE Finalize
    <3>1. PICK v \in verdict : /\ status' = [status EXCEPT ![v[1]] = v[2]]
                               /\ UNCHANGED <<result, job, outcome>>
      BY <2>2 DEF Finalize
    <3>2. v[2] \in Verdicts
      OBVIOUS
    <3>3. v[2] \notin {"stale", "review_failed"}
      BY <3>2 DEF Verdicts
    <3> QED
      BY <3>1, <3>3
  <2> QED
    BY <1>5, <2>1, <2>2 DEF ReconcileOnce
<1>6. CASE Restart
  BY <1>6 DEF Restart
<1> QED
  BY <1>1, <1>2, <1>3, <1>4, <1>5, <1>6 DEF ServiceStep

\* A step keeps the two parts tied together.
LEMMA LinkedNext ==
    ASSUME EInv, [SystemNext]_allVars
    PROVE  Linked'
<1>0. TypeOK /\ PP!TypeOK /\ Linked
  BY DEF EInv, IInv, PP!IInv
<1>1. CASE UNCHANGED allVars
  BY <1>0, <1>1 DEF allVars, vars, prVars, dbVars, jobVars, Linked, PP!Summarised
<1>2. ASSUME NEW r \in Runs, NEW d \in Deliveries, Event(r, d) PROVE Linked'
  BY <1>0, <1>2 DEF Event, Webhook, prVars, dbVars, jobVars, Linked, PP!Summarised
<1>3. CASE ServiceStep
  <2>1. UNCHANGED <<step, conclusion, comments>>
    BY <1>3 DEF ServiceStep, prVars
  <2> QED
    BY <1>0, <1>3, <2>1, ServiceFrame DEF Linked, PP!Summarised
<1>4. CASE PullRequest
  <2>1. UNCHANGED <<step, conclusion, outcome, result, status, job>>
    BY <1>4 DEF PullRequest, P!Push, P!Comment, vars, dbVars, jobVars
  <2>2. comments' = comments \/ comments' = Append(comments, PP!Person)
    BY <1>4, SamePush, SameComment DEF PullRequest, PP!Push, PP!Comment
  <2>3. \A q \in Runs : q # PP!Person
    BY EndToEndAssumption DEF PP!Person
  <2>4. \A q \in Runs : PP!Summarised(q)' => PP!Summarised(q)
    BY <1>0, <2>2, <2>3, OthersComments
  <2> QED
    BY <1>0, <2>1, <2>4 DEF Linked
<1>5. ASSUME NEW r \in Runs, StartJob(r) PROVE Linked'
  <2>1. /\ step[r] = "waiting" /\ step' = [step EXCEPT ![r] = "read"] /\ job[r] = "running"
        /\ UNCHANGED <<conclusion, comments, outcome, result, status, job>>
    BY <1>5 DEF StartJob, P!StartJob, P!prVars, vars, dbVars, jobVars
  <2> QED
    BY <1>0, <2>1 DEF Linked, PP!TypeOK, PP!Summarised
<1>6. ASSUME NEW r \in Runs, PublisherStep(r) PROVE Linked'
  <2>1. UNCHANGED <<outcome, result, status, job>>
    BY <1>6 DEF PublisherStep, vars, dbVars, jobVars
  <2>2. /\ step[r] \notin {"waiting", "report", "done"}
        /\ \A q \in Runs \ {r} : step'[q] = step[q] /\ conclusion'[q] = conclusion[q]
        /\ \/ step'[r] = "report" /\ conclusion'[r] \in Reports
           \/ step'[r] \notin {"waiting", "report", "done"} /\ conclusion'[r] = conclusion[r]
        /\ comments' = comments \/ comments' = Append(comments, r)
    BY <1>0, <1>6, OneStep, EndToEndAssumption
  <2>3. \A q \in Runs \ {r} : PP!Summarised(q)' => PP!Summarised(q)
    BY <1>0, <2>2, OthersComments
  <2>4. conclusion[r] = "none"
    BY <1>0, <2>2 DEF Linked
  <2>5. outcome[r] = "none" /\ result[r] # "review" /\ status[r] \notin {"stale", "review_failed"}
    BY <1>0, <2>4 DEF Linked
  <2> QED
    BY <1>0, <2>1, <2>2, <2>3, <2>5 DEF Linked
<1>7. ASSUME NEW r \in Runs, Conclude(r) PROVE Linked'
  <2>1. /\ outcome' = [outcome EXCEPT ![r] = conclusion[r]]
        /\ UNCHANGED <<step, conclusion, comments, result, status, job>>
    BY <1>7 DEF Conclude, Decide, prVars, dbVars
  <2> QED
    BY <1>0, <2>1 DEF Linked, TypeOK, PP!Summarised
<1>8. ASSUME NEW r \in Runs, Told(r) PROVE Linked'
  <2>1. /\ outcome[r] # "none" /\ job[r] = "running" /\ UNCHANGED <<outcome, job>>
        /\ SaveResult(r, outcome[r])
    BY <1>8 DEF Told, Callback, Calling
  <2>2. outcome[r] = conclusion[r]
    BY <1>0, <2>1 DEF Linked
  <2>3. /\ UNCHANGED <<conclusion, comments>>
        /\ \/ step' = step
           \/ step[r] = "report" /\ step' = [step EXCEPT ![r] = "done"]
    <3>1. CASE step[r] = "report"
      <4>1. P!Report(r)
        BY <1>8, <3>1 DEF Told
      <4> QED
        BY <3>1, <4>1 DEF P!Report, P!prVars, P!Goto
    <3>2. CASE step[r] # "report"
      BY <1>8, <3>2 DEF Told, prVars
    <3> QED
      BY <3>1, <3>2
  <2>4. \A q \in Runs \ {r} : status'[q] = status[q] /\ result'[q] = result[q]
    BY <1>0, <2>1 DEF SaveResult, TypeOK
  <2>5. status'[r] \in {status[r], outcome[r]}
    BY <1>0, <2>1 DEF SaveResult, TypeOK
  <2>6. result'[r] = result[r] \/ result'[r] = Detail(outcome[r])
    BY <1>0, <2>1 DEF SaveResult, TypeOK
  <2>7. Detail(outcome[r]) = "review" => outcome[r] \in {"succeeded", "stale"}
    BY DEF Detail
  <2>8. /\ result'[r] = "review" => conclusion[r] \in {"succeeded", "stale"}
        /\ status'[r] \in {"stale", "review_failed"} => conclusion[r] = status'[r]
    BY <1>0, <2>2, <2>5, <2>6, <2>7 DEF Linked
  <2>9. \A q \in Runs : PP!Summarised(q)' => PP!Summarised(q)
    BY <2>3 DEF PP!Summarised
  <2>10. \A q \in Runs : step'[q] = step[q] \/ (step[q] = "report" /\ step'[q] = "done")
    BY <1>0, <2>3 DEF PP!TypeOK
  <2>11. ASSUME NEW q \in Runs
         PROVE  /\ result'[q] = "review" => conclusion[q] \in {"succeeded", "stale"}
                /\ status'[q] \in {"stale", "review_failed"} => conclusion[q] = status'[q]
    <3>1. CASE q = r
      BY <2>8, <3>1
    <3>2. CASE q # r
      BY <1>0, <2>4, <3>2 DEF Linked
    <3> QED
      BY <3>1, <3>2
  <2>12. conclusion' = conclusion /\ outcome' = outcome /\ job' = job
    BY <2>1, <2>3
  <2> QED
    BY <1>0, <2>9, <2>10, <2>11, <2>12 DEF Linked
<1> QED
  BY <1>1, <1>2, <1>3, <1>4, <1>5, <1>6, <1>7, <1>8 DEF SystemNext

\* At first there are no runs, jobs and publishers.
LEMMA EInvInit == SystemInit => EInv
<1> SUFFICES ASSUME SystemInit PROVE EInv
  OBVIOUS
<1>1. IInv /\ PP!IInv
  BY InvInit, SameInit, PublisherHere, PP!InvInit DEF SystemInit
<1>2. Linked
  BY SameInit DEF SystemInit, Init, PP!Init, Linked, PP!Summarised
<1> QED
  BY <1>1, <1>2 DEF EInv

\* The invariants of the parts, and what ties them, are inductive.
LEMMA EInvNext == EInv /\ [SystemNext]_allVars => EInv'
<1> SUFFICES ASSUME EInv, [SystemNext]_allVars PROVE EInv'
  OBVIOUS
<1>1. IInv'
  BY Mapped, InvNext DEF EInv
<1>2. PP!IInv'
  BY Mapped, PublisherHere, PP!InvNext DEF EInv
<1> QED
  BY <1>1, <1>2, LinkedNext DEF EInv
-----------------------------------------------------------------------------
(* The theorems. *)

THEOREM SystemInvariance == SystemSpec => []EInv
BY EInvInit, EInvNext, PTL DEF SystemSpec

\* Together with its publishers the service does nothing that its specification rules out.
THEOREM ServiceRefinement == SystemSpec => ImplementsService
<1>1. SystemInit => Init
  BY DEF SystemInit
<1>2. EInv /\ [SystemNext]_allVars => [Next]_vars
  BY Mapped
<1> QED
  BY <1>1, <1>2, SystemInvariance, PTL DEF SystemSpec, ImplementsService, Spec

\* Nor do the publishers, of which each works for one run and for as long as its job lives.
THEOREM PublisherRefinement == SystemSpec => ImplementsPublisher
<1>1. SystemInit => P!Init
  BY DEF SystemInit
<1>2. EInv /\ [SystemNext]_allVars => [P!Next]_(P!vars)
  BY Mapped, SameNext
<1> QED
  BY <1>1, <1>2, SystemInvariance, PTL DEF SystemSpec, ImplementsPublisher, P!Spec

\* A review that a row holds is one that people can see.
THEOREM SavedReviewAlwaysSeen == SystemSpec => []SavedReviewIsSeen
<1>1. EInv => SavedReviewIsSeen
  BY SameViews DEF EInv, Linked, PP!IInv, PP!SummaryInv, SavedReviewIsSeen
<1> QED
  BY <1>1, SystemInvariance, PTL

\* What the status of a row tells about the pull request is true.
THEOREM RowsAlwaysTrue == SystemSpec => []RowsAreTrue
<1>1. EInv => RowsAreTrue
  <2> SUFFICES ASSUME EInv, NEW r \in Runs
               PROVE  /\ status[r] \in {"stale", "review_failed"}
                           => ~PP!Reviewed(r) /\ ~PP!Commented(r)
                      /\ PP!Reviewed(r) \/ PP!Summarised(r) => status[r] # "none"
    BY SameViews DEF RowsAreTrue
  <2>1. PP!FirstPass(r) /\ Linked
    BY DEF EInv, PP!IInv, PP!FirstPassInv
  <2>2. status[r] \in {"stale", "review_failed"} => ~PP!Reviewed(r) /\ ~PP!Commented(r)
    BY <2>1 DEF Linked, PP!FirstPass, PP!Visible
  <2>3. PP!Reviewed(r) \/ PP!Summarised(r) => step[r] # "waiting"
    BY <2>1 DEF Linked, PP!FirstPass, PP!Visible
  <2>4. job[r] # "none" => status[r] # "none"
    BY DEF EInv, IInv, RowInv
  <2> QED
    BY <2>1, <2>2, <2>3, <2>4 DEF Linked
<1> QED
  BY <1>1, SystemInvariance, PTL
===============================================================================
