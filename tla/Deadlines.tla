------------------------------ MODULE Deadlines ------------------------------
(***************************************************************************)
(* The clocks one run lives under: the 60 s of process, the expiry of the  *)
(* forge tokens and of the callback token that process puts into the job,  *)
(* the contexts of the reviewer and the publisher, and the timeout of the  *)
(* reconciler.  Nothing ties them together but the numbers: Hades has no   *)
(* queue limit, the clone step none, and no timeout is sent with the job.  *)
(*                                                                         *)
(* A definition X_How is no part of the specification: it is X with a     *)
(* plausible bug, and some property of this module catches it.             *)
(***************************************************************************)
EXTENDS Integers

CONSTANTS
    Configured,     \* timeout of the repository's policy, 0 when none is set
    Unset,          \* what process takes when none is set
    Grace,          \* how much longer than the timeout the callback token is valid
    ProcessLimit,   \* context of process
    ReviewLimit,    \* context of cmd/reviewer
    PublishLimit,   \* context of cmd/publisher, its callback attempts included
    ForgeTTL,       \* life of a token of the forge
    GlobalTimeout,  \* defaults.timeout, which the reconciler uses for every run
    MaxTime         \* bound: the clock

ASSUME DeadlinesAssumption ==
    /\ {Configured, Unset, Grace, ProcessLimit, ReviewLimit, PublishLimit, ForgeTTL,
        GlobalTimeout, MaxTime} \subseteq Nat

VARIABLES
    now,
    stage,      \* where the run is
    ends,       \* when the context of the stage is done
    sent,       \* (history) when Hades took the job
    begun,      \* (history) when its review step started
    forgeExp,   \* expiry of the publish token
    callExp,    \* expiry of the callback token
    posted,     \* "yes" when the forge took the summary, "refused" when the token was too old
    told,       \* the publisher's report is in the row
    refused,    \* an attempt of the callback was answered 401
    status      \* of the row

vars == <<now, stage, ends, sent, begun, forgeExp, callExp, posted, told, refused, status>>
-----------------------------------------------------------------------------
Stages == {"process", "submit", "queued", "review", "publish", "report", "over"}

Never == MaxTime + 1

TypeOK ==
    /\ now \in 0..MaxTime
    /\ stage \in Stages
    /\ {ends, forgeExp, callExp} \subseteq Nat
    /\ {sent, begun} \subseteq 0..MaxTime
    /\ posted \in {"no", "yes", "refused"}
    /\ told \in BOOLEAN
    /\ refused \in BOOLEAN
    /\ status \in {"submitted", "timeout", "reported"}

\* Create has stored the run.
Init ==
    /\ now = 0 /\ stage = "process" /\ ends = ProcessLimit
    /\ sent = 0 /\ begun = 0 /\ forgeExp = 0 /\ callExp = 0
    /\ posted = "no" /\ told = FALSE /\ refused = FALSE /\ status = "submitted"

\* Time passes, but not past the end of a context somebody works under.
Tick ==
    /\ now < MaxTime /\ now < ends
    /\ now' = now + 1
    /\ UNCHANGED <<stage, ends, sent, begun, forgeExp, callExp, posted, told, refused, status>>

\* process mints the publish token of the forge.
MintToken ==
    /\ stage = "process"
    /\ stage' = "submit"
    /\ forgeExp' = now + ForgeTTL
    /\ UNCHANGED <<now, ends, sent, begun, callExp, posted, told, refused, status>>

\* What process adds up for the callback token.
TTL == (IF Configured = 0 THEN Unset ELSE Configured) + Grace

\* process mints the callback token and submits the job.
Submit ==
    /\ stage = "submit"
    /\ stage' = "queued" /\ ends' = Never
    /\ callExp' = now + TTL
    /\ sent' = now
    /\ UNCHANGED <<now, begun, forgeExp, posted, told, refused, status>>

\* With a bug: the reviewer runs without a limit.
Review_NoLimit ==
    /\ stage = "queued"
    /\ stage' = "review" /\ ends' = Never
    /\ begun' = now
    /\ UNCHANGED <<now, sent, forgeExp, callExp, posted, told, refused, status>>

\* After the queue and the clone, which take what they take, the reviewer starts.
Review ==
    /\ stage = "queued"
    /\ stage' = "review" /\ ends' = now + ReviewLimit
    /\ begun' = now
    /\ UNCHANGED <<now, sent, forgeExp, callExp, posted, told, refused, status>>

\* The reviewer is done, or its context is.
Publish ==
    /\ stage = "review"
    /\ stage' = "publish" /\ ends' = now + PublishLimit
    /\ UNCHANGED <<now, sent, begun, forgeExp, callExp, posted, told, refused, status>>

\* The publisher's calls to the forge, with the token of the job (of a GitHub App; a
\* personal token does not expire).
Post ==
    /\ stage = "publish"
    /\ stage' = "report"
    /\ posted' = IF now < forgeExp THEN "yes" ELSE "refused"
    /\ UNCHANGED <<now, ends, sent, begun, forgeExp, callExp, told, refused, status>>

\* With a bug: Verify looks at the signature only.
Valid_NoExpiry == TRUE

\* Verify: the token is good up to the second it names.
Valid == now <= callExp

\* An attempt that reaches the service.  The publisher goes on trying when the answer is
\* lost, is no 2xx, or the store had an error.
Callback ==
    /\ stage = "report"
    /\ IF Valid THEN UNCHANGED refused /\ (\/ told' = TRUE /\ status' = "reported"
                                           \/ UNCHANGED <<told, status>>)
       ELSE refused' = TRUE /\ UNCHANGED <<told, status>>
    /\ \/ UNCHANGED <<stage, ends>>
       \/ stage' = "over" /\ ends' = Never
    /\ UNCHANGED <<now, sent, begun, forgeExp, callExp, posted>>

\* The publisher gives up: its attempts are used up, or its context is done.
GiveUp ==
    /\ stage \in {"publish", "report"}
    /\ stage' = "over" /\ ends' = Never
    /\ UNCHANGED <<now, sent, begun, forgeExp, callExp, posted, told, refused, status>>

\* A pass of the reconciler that gets no answer about the job.
Reconcile ==
    /\ status = "submitted"
    /\ now > (IF GlobalTimeout = 0 THEN Unset ELSE GlobalTimeout)
    /\ status' = "timeout"
    /\ UNCHANGED <<now, stage, ends, sent, begun, forgeExp, callExp, posted, told, refused>>

Next ==
    \/ Tick
    \/ MintToken
    \/ Submit
    \/ Review
    \/ Publish
    \/ Post
    \/ Callback
    \/ GiveUp
    \/ Reconcile

Spec == Init /\ [][Next]_vars
-----------------------------------------------------------------------------
\* What the timeout and its grace leave for the queue and the clone.
Spare == TTL - ReviewLimit - PublishLimit

\* handleCallback refuses no publisher whose job waited no longer than that: with the
\* defaults, ten minutes.  A longer timeout of the repository buys that much more.
HeardUnlessQueued == begun - sent <= Spare => ~refused

\* A run that Momos hears of is not silent on the pull request because its forge token ran
\* out: as long as the timeout leaves that token the longer one, a publisher too late to post
\* is too late to report.
HeardOnlyIfPosted ==
    ProcessLimit + TTL < ForgeTTL => (told => posted # "refused")
-----------------------------------------------------------------------------
(* What the documentation says and the code does not keep. *)

\* architecture.md, result path: retries never 401.
RetriesNeverRefused == told => ~refused

\* architecture.md, run lifecycle: nothing leads out of timeout.
TimeoutIsFinal == [][status = "timeout" => status' = "timeout"]_vars
=============================================================================
