---------------------------- MODULE RunLifecycle ----------------------------
(***************************************************************************)
(* What the run store promises about its rows, without saying who writes  *)
(* them: the status column of internal/store/store.go as the rest of      *)
(* Momos may rely on it.  A run is opened once, in status submitted; a    *)
(* newer run of the same pull request may push it aside; otherwise a      *)
(* reporter or a reconciler gives it a final status.  Whatever happens    *)
(* after that, it is never submitted again and never disappears.          *)
(*                                                                         *)
(* MomosService implements this specification: ImplementsLifecycle there,  *)
(* proved in EndToEndProofs.                                               *)
(***************************************************************************)

CONSTANTS
    Runs,       \* run ids
    PRs         \* pull requests (repository and number)

VARIABLES
    status,     \* status of each run's row, "none" before it is inserted
    result,     \* the result columns of the row
    pr          \* the pull request of the row

vars == <<status, result, pr>>

NoPR == "no pr"

Init ==
    /\ status = [r \in Runs |-> "none"]
    /\ result = [r \in Runs |-> "none"]
    /\ pr = [r \in Runs |-> NoPR]

\* INSERT: a row is created once, active and without a result.
Open(r, p) ==
    /\ status[r] = "none"
    /\ status' = [status EXCEPT ![r] = "submitted"]
    /\ pr' = [pr EXCEPT ![r] = p]
    /\ UNCHANGED result

\* Every unfinished or failed review of one pull request is pushed aside at once.
Supersede(p) ==
    /\ status' = [r \in Runs |->
                    IF pr[r] = p /\ status[r] \in {"submitted", "review_failed"}
                    THEN "superseded" ELSE status[r]]
    /\ UNCHANGED <<result, pr>>

\* A review that ran comes with its figures, one that did not with an error text.
Detail(s) == IF s \in {"succeeded", "stale"} THEN "review" ELSE "error"

\* Somebody reports how the run ended, with its result columns.
Report(r, s) ==
    /\ status[r] # "none"
    /\ status' = [status EXCEPT ![r] = s]
    /\ result' = [result EXCEPT ![r] = Detail(s)]
    /\ UNCHANGED pr

\* Somebody concludes how the run ended and leaves its result columns alone.
Conclude(r, s) ==
    /\ status[r] # "none"
    /\ status' = [status EXCEPT ![r] = s]
    /\ UNCHANGED <<result, pr>>

Next ==
    \/ \E r \in Runs, p \in PRs : Open(r, p)
    \/ \E p \in PRs : Supersede(p)
    \/ \E r \in Runs, s \in {"succeeded", "review_failed", "stale", "failed"} : Report(r, s)
    \/ \E r \in Runs, s \in {"succeeded", "failed", "timeout"} : Conclude(r, s)

Spec == Init /\ [][Next]_vars
=============================================================================
