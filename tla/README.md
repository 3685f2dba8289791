# Momos in TLA+

Momos reviews pull requests with a language model. A webhook becomes a three-step job (clone,
review, publish) that Hades runs in containers; the publish step posts the review on GitHub and
calls Momos back. This directory holds specifications of the parts of Momos whose correctness
depends on order, failure, time or a precise reading of somebody else's text, the TLC
configurations that check them, and proofs about them that hold for every size.

Paths below are relative to the repository's `internal/` unless they start with `cmd/`,
`docs/` or `plan.md`.

## 1. The system

| Part | Source | State | Operations | Talks to |
|---|---|---|---|---|
| Webhook receiver | `server/handlers.go`, `server/server.go` | `Server.deliveries` (in memory) | `handleGitHubWebhook`, `parseAnyGitHub`, `dedupe`, `gcDeliveries` | GitHub calls it; starts a goroutine of `process` per accepted event |
| `process` | `server/handlers.go` | a goroutine with a 60 s context | resolve policy, `Create`, mint tokens, fetch threads, `Submit`, `SetHadesJob`, `fail` | store, GitHub, Hades |
| Run store | `store/store.go` | SQLite table `runs`, one connection, no transactions | `Create` (3 statements), `SetHadesJob`, `SaveResult`, `SetStatus`, `ActiveOlderThan`, `Get`, `List` | |
| Reconciler | `server/reconcile.go` | the list of its last query | `reconcileOnce`, `finalize`, every minute | store, LogManager |
| Hades client | `hades/hades.go` | none | `Submit`, `Status`, `normalizeState` | Hades, LogManager |
| Callback | `handlers.go:195`, `publisher.go:208` | none | five attempts with back-off; verify token, `SaveResult` | publisher to Momos |
| Tokens | `token/token.go` | none (signed) | `Mint`, `Verify`; step token endpoints | |
| Reviewer | `reviewer/*.go`, `llm/llm.go` | the conversation, tokens used | diff, `oneshot`, `agentic`, `classify`, `review.json` | LLM server; the file is read by the publisher |
| Review schema | `review/review.go` | none | `Marshal`, `Parse` = repair, decode, validate | used by reviewer and publisher |
| Policy | `config/config.go`, `job/job.go` | the configuration file | `Resolve`, `Build`, environment of the steps | read by `process`; the environment by reviewer and publisher |
| Publisher | `publisher/publisher.go` | none but its progress | `Run`: read review, freshness, summary, review, check run, callback | GitHub, Momos |
| GitHub client | `forge/github.go` | the pull request, at GitHub | `CurrentHead`, `PostSummary`, `PostReview`, `PostCheckRun`, `ParseWebhook`, `MintToken`, `ListReviewThreads`; `FilterOutMomosThreads`, `RenderReviewThreads` (`forge/forge.go`) | GitHub |
| Diff parser | `diff/diff.go` | none | `Parse`, `IsAddedLine` | used by `classify` |
| Prompts, metrics, mains, images, deployment | `prompt/`, `metrics/`, `cmd/`, `images/`, `deploy/` | counters | | |

What is hard, and so what the properties are about:

* Several goroutines, the reconciler and callbacks write the same row, one SQL statement at a
  time, each on what it read before. Nothing is conditional on the row's present status.
* Messages get lost on either side of their effect: the answer to `POST /build`, the callback,
  its answer, every GitHub call.
* Time: a 60 s context, a 60 s cut-off, the job's timeout, an hour of replay protection.
* The service is restarted with runs in the air; the publish step may be run again.
* The head of the pull request moves while a review of it is under way.
* A guardrail is applied in one process to data another process has rearranged.
* Text that a model wrote is repaired and parsed twice; text that git wrote is parsed by prefix.
* Who an event is from, whether it is a fork and which run it competes with is computed from a
  payload, a list of forges and a merge of policies, in a fixed order of gates.
* Tokens and contexts end at times that nothing ties together but the numbers.
* What one run posted comes back as input of the next.

What makes each part correct, in a sentence each: every run gets a final status and keeps an
accepted result (store, reconciler, callback); at most one goroutine acts for a delivery
(receiver); an event that is let through gets its commit reviewed once, with the credentials of
its own forge and the rights of a fork if it is one (policy, `ParseWebhook`); what is on the pull
request is explained by a summary and is what Momos is told,
and nothing is approved that should not be (publisher); calls, cost and truncation are bounded
and honest, and the review that is published is the review that was given (reviewer, schema); a
line called added is one (diff parser); Momos's own threads never silence Momos, and people's do
(review threads); a publisher is not refused for taking as long as it may (tokens).

## 2. The modules

```
RunLifecycle  <--refines--  MomosService  <--refines--+
                            Publisher     <--refines--+--  EndToEnd

Policy  <--  Ingress                   DiffParser
Policy, ReviewDocument  <--  Reviewer  ReviewThreads
                                       Deadlines
```

`<--` without a word is EXTENDS. `MCPublisher` holds the constants for TLC of `Publisher`,
`PublisherProofs` its theorems, and so on for `Reviewer`, `DiffParser`, `Deadlines`, `Ingress`,
`ReviewThreads` and `EndToEnd`. The constants of `MomosService` are in `MCMomos`, its theorems
in the first part of `EndToEndProofs`, which cites them in the second; the lemmas and theorems
about `ReviewDocument` are in `ReviewDocumentProofs`, on which `ReviewerProofs` builds.

The parts meet at narrow points. `MomosService` treats the review and publish steps as one Hades
job with an `outcome`; `Publisher` models how that outcome comes about, and `EndToEnd` puts
the two together. `Publisher` starts from what the review step found; `Reviewer` models how
that comes about and ends with what the publish step reads. `MomosService` takes keys, pull
requests and gates as constants; `Ingress` computes them. `DiffParser` is the `OnAddedLine` of
`Publisher`. `ReviewThreads` and `Deadlines` each follow one concern across all the steps of a
run. A definition called `X_How` is not part of any specification: it is `X` with a
plausible bug, kept beside it as evidence that some property notices.

### RunLifecycle

The abstract promise of the `runs` table: a row is opened once, as `submitted`; the
`submitted` and `review_failed` rows of a pull request can be superseded, all at once; a report
sets status and result columns; a conclusion sets the status and leaves the result columns; no
row becomes `submitted` again or disappears. It deliberately allows a report after
`superseded`, because the code does (section 3, `SupersededIsFinal`).

### MomosService

One goroutine of `process` is named by the run id it draws. Its `pc` moves through the
statements and calls in the code's order: `find`, `supersede`, `insert` (the three statements
of `Create`), `mint`, `submit`, `setjob`, or `fail`. `live` is its context: once it is `FALSE`,
every statement and call fails, and each action says what the code does then (ignored errors
stay ignored). The row is `status`, `result` (`"review"` or `"error"`, the columns that only
`SaveResult` writes), `hasJob` and `age`; `age` stands for `updated_at` and `created_at` as the
two comparisons of the reconciler see them. The Hades job is `job`; its publisher has an
`outcome`, `attempts` and `acked`. The reconciler has `batch` (the rest of its list) and
`verdict` (what it is about to write); between the two, anything may happen. `Restart` clears
what lives in memory.

`Callback` is one atomic action although the handler decodes, saves and answers: only the
`UPDATE` changes shared state, and whether the answer arrives is a choice. `Eligible` stands
for triggers, fork policy, configured forge and prompt rendering, which only decide whether
`process` returns early (`Ingress` says how). `older` is a history variable.

### Publisher

The publish steps of several runs on one pull request. `head`, `comments`, `inline` and
`reviews` are GitHub's; people push and comment between any two calls of a publisher. `pc`
follows `Run`: `read`, `fresh`, `list` and `post`/`patch` (the two calls of `PostSummary`),
`prior` and `review` (the listing with its deletions, and the submission, of `PostReview`),
`report` (check run and callback). Every call may fail, and a writing call may fail after its
effect. `Rerun` starts the process again from `read`, at any point.

Abstractions: a comment is the run id its marker carries (or a person); the inline comments
of one submission are one entry of `inline`, and so is the page limit on them; a check run is
left out (always `neutral`, nothing reads it); a callback that Momos never accepts is a choice
in `Report`, its retries are in `MomosService`. A finding is one of a few constants,
characterised by `Blocking` and `OnAddedLine`. The publish step runs whatever the exit of the
review step (`ContinueOnError`); without a readable review its verdict is `"none"`. A job may be
started for an older head than the present one: events are late.

### ReviewDocument, Policy, Reviewer

`ReviewDocument` works on tokens: braces, commas, quotes, backslashes, code fences, text.
`Parse` is the code's pipeline, `RemoveTrailingCommas(Outermost(StripFences(s)))`, then a
decoder for the flattened document `{verdict,"summary","message",...}`, then `Valid`. The decoder
stands for `encoding/json` and is external. White space, keys, and the fields of a finding
other than its message are left out; arrays are flattened, so `]` does not occur.

`Policy` is the merge of defaults and rules (`Resolve`), for whatever fields a module is about,
and the way of five settings from there into the reviewer: the environment `job.Build` writes,
`FromEnv`. A `nil` pointer is the constant `Inherit`; unset numbers are 0, which is what YAML
gives.

`Reviewer` is one run of the review step: diff and limits, `oneshot` or `agentic`, `classify`,
`review.json` (of which a full disk or the end of the container leaves any part), exit, and
`readReview` of the publish step. The model may fail, ask for tools (what they return only
influences what it says next, which is arbitrary anyway) or give any of `Replies`, each of
which comes with the review it was meant to be. `RepliesAssumption` says what that is: the
review the text `Holds` - prose, a document in a fence or not, with a comma before its last
bracket or not, prose -, nothing if the text has no verdict in it, and for any other text what
`Parse` takes it for, so that no text is excluded. Prices are folded into the cost of a call.

### Ingress

From an event at a forge to a row, one delivery at a time: `Send` makes deliveries, which stay in
`sent` and are handled by `Handle` in any order, again after `Forget`, or never. `Handle` is
`parseAnyGitHub` (the first entry of type `github` whose secret fits), `Resolve`, the gates of
`process` (`Triggered`, `ForkGate`, `Supported`, the prompt), `PolicyHash` and `Create`. A row is
the columns of the table with the parts of its job's environment that the publisher decides by;
`event` says where it came from and is read by properties only. A ref is a pull request or a
branch of a repository at a forge; two forges may have repositories of one name. What the engine
of a policy stands for is strategy, model and base URL together: `PolicyHash` never looks at one
of them without the others. `End` lets any run end at any time. A hash is the record that is
hashed, and a signature is made with the right secret or is not.

### ReviewThreads

The threads of a pull request, as GitHub lists them, through any number of runs. `Fetch` is the
query with its first page of threads and of comments, or its failure; `Theirs` is
`FilterOutMomosThreads`; `Shown` is the part of `RenderReviewThreads` that decides what the block
holds, by count and by size. A size is counted in units in which a header or an author is one
and a body is its length up to its cap. `Publish` ends the run: the model raises what it found but what
the block covers (as its prompt asks), and the publisher posts that as marked threads, or
fails to. `asked` and `raised` are history variables about the last run.

### DiffParser

Git and `diff.Parse` run in step. Git's actions (`Section`, `Names`, `Hunk`, `Text`, `NoNewline`,
`End`) write a diff of several files by the grammar of a unified diff and keep what is true
(`truth`: the lines really added); with each line `Parse` takes the branch that its
`switch` takes, by prefix, and keeps what it believes (`added`). `Kinds` are what a line of text
may look like after its mark: `"pluses"` and `"dashes"` turn it into a header, `"long"` stops
the scanner. `Name` is how git writes a file's name. `spoiled` (history) names the entries that a
line of text has interfered with.

### Deadlines

The clocks of one run: the 60 s of `process`, the life of the forge token and of the callback
token, the contexts of reviewer and publisher, and the reconciler's timeout. `Tick` lets time pass
up to the end of a context somebody works under; the queue and the clone step have none. A forge
token is that of a GitHub App; with a personal token `HeardOnlyIfPosted` has nothing to say.

### EndToEnd

`MomosService` and an instance `P` of `Publisher` with one action per step either takes. A
delivery names a head (`HeadOf`) that was pushed before; the job of a run is a run of `P` for that
head; `Conclude` is the service's `Decide` with the outcome `P` has come to; `Told` is the service's
`Callback` and, the first time, `P`'s `Report`. A step of a publisher needs a running job: what
kills the job kills the publisher. All deliveries are of one pull request, and the executor does
not run a step twice here (`Publisher` alone covers that). `ImplementsService` and `ImplementsPublisher`
say that nothing of either part was bent to make them fit.

## 3. The runs

Passing:

| Run | Question | Bounds |
|---|---|---|
| `service_safety` | Do rows, jobs, superseding, replay protection and accepted results survive every interleaving, and does the service implement `RunLifecycle`? | 2 runs, 3 deliveries (two of one key, one of them unnamed and ineligible; one of another key), one pull request, 1 callback attempt, 1 restart; 1.45 million states |
| `service_liveness` | Does every submitted run end, without any callback, across a restart? | 2 runs of one pull request, no reports, 1 restart |
| `publisher` | Do summary, review, report and approval agree whatever call fails, and does the step reach its callback? | 1 run, run once or twice, a page of 1 comment, 2 heads, 1 person's comment, a blocking and a minor finding on added lines, all 8 policies; 94 802 states |
| `reviewer` | Are calls, cost and truncation bounded and told, and is what was meant what is read? | 0 or 3 turns, budgets 0, 2 and 3, calls of cost 0 or 1, limits 0 and 1, diffs of no file, exactly the limit and above; every review whose strings are up to two of comma, brace, escaped quote, fence, in every wrapping |
| `diff_parser` | Are the lines that count as added the lines that were added? | 2 files, one with a name git quotes, 3 lines each, every kind of line and every split into hunks |
| `deadlines` | Is a publisher that took only the time it may have heard, and was one that is heard able to post? | the code's own limits and defaults, in minutes, up to 70 |
| `ingress` | Does each event end up with the right run, once, with the right credentials and rights? | a fork, a branch and a namesake at a second forge, whose entry comes first, behind one of an unsupported type; 2 commits, 3 events, 2 rows, 2 defaults and 5 lists of rules; 403 000 states |
| `threads` | Do Momos's threads stay out of the way of Momos, and people's in it? | 2 concerns, 3 threads of 2 comments, a page of 3, caps of 2 threads, 1 comment, 2 and 4 units; 184 000 states |
| `end_to_end` | Is what the store says of a run what the pull request shows, and do the parts fit? | 1 run, 2 deliveries for 2 heads, 2 callback attempts, 1 restart, 1 comment of a person, a blocking finding; 376 000 states |

Why this is enough to be interesting: two runs are what a race, a superseding or a stale
reconciler list needs, and the third delivery gives the replay protection something to
refuse; one attempt with one report covers "accepted, answer lost", "lost" and "never", and
`MaxAttempts` only repeats these. A page of one comment lets a single comment by a person
push a marker off the page. Three turns allow nudge, tool call and budget to
meet in every order; strings of two units contain every adjacency of tokens that `repair`
treats specially. Three lines hold a hunk, a gap and a second hunk, or a header look-alike
between two added lines; the second file is the one a look-alike may name. Three events are a push,
its label and a competitor, and each can come late or twice. Caps of one and two are reached and
exceeded by three threads. In `end_to_end` a single run already meets every order of webhook, push,
posting, callback, reconciler and restart; with two runs TLC does not end in the time a run should
take, which is why its invariants are proved for any number. The theorems of section 5 remove the
bounds from all of these except where section 6 says so.

`SYMMETRY` is used in `service_safety` (runs are interchangeable there: `KeyOf` and `PROf`
speak of deliveries; `ImplementsLifecycle` is a safety property) and in `threads` (concerns are
alike; its two temporal properties are action properties). `CHECK_DEADLOCK FALSE` everywhere,
because a finished run, job, diff or step has nothing left to do, and the numbers of runs,
attempts, pushes, events and restarts are bounded.

The properties of the passing runs:

* `JobsAreStored`, `SupersedeSticks`, `ReconcilerIsAlone`, `OneWorkerPerDelivery`,
  `AcknowledgedReviewKept`, `SuccessIsReported`, `ReportStands`, `ImplementsLifecycle`,
  `EveryRunEnds` in `MomosService`;
* `SummaryComesFirst`, `ReportIsTrue`, `SummaryUpsert`, `NoApprovalOverVisibleFinding`,
  `AlwaysReports` in `Publisher`;
* `CallsBounded`, `SpendBounded`, `ReadAsMeant`, `ReviewArrives`, `TruncationIsTold` in
  `Reviewer`;
* `OneActiveRun`, `CommitGetsRun`, `StaysOnItsForge`, `ForkPolicyKept` in `Ingress`;
* `OwnFindingRaisedAgain`, `NoDuplicateWithinCaps`, `BlockBounded` in `ReviewThreads`;
* `OnlyAddedLines`, `AllAddedLines` in `DiffParser`;
* `HeardUnlessQueued`, `HeardOnlyIfPosted` in `Deadlines`;
* `SavedReviewIsSeen`, `RowsAreTrue`, `ImplementsService`, `ImplementsPublisher` in `EndToEnd`;
* one `TypeOK` per module (the variables of `EndToEnd` are those of its parts, and typed there; that
  of `Deadlines` is a theorem and in no run).

Some of them say less than one would like, because the code does less; their comments say exactly
what is left. `AcknowledgedReviewKept` begins when the job id is recorded: if Hades took the job
and its answer was lost, `fail` overwrites whatever a quick publisher reported. `ReportStands` is
what is left of `CallbackIsAuthoritative`: it begins when no list of the reconciler holds the
run. `SummaryUpsert` is an upsert up to the first page. `SpendBounded` grows with the turns that
only nudge, which are not checked against the budget (`plan.md` 11.3 wants "each turn").
`ReadAsMeant` and `ReviewArrives` except reviews that contain a code fence. `OnlyAddedLines` and
`AllAddedLines` except files that an added line looking like a header has touched.
`CommitGetsRun` promises a run for the commit, not for the pull request. `NoDuplicateWithinCaps`
speaks of the threads that were listed. `StaysOnItsForge` needs secrets that differ.

Violations, each a disagreement of the code with what the repository says of it:

| Run | What TLC shows |
|---|---|
| `key_race` | two deliveries of one key are both between the look-up and the insert of `Create`; both insert |
| `approval_over_finding` | a critical finding outside the diff is moved to the summary text, and the run approves |
| `succeeded_unseen` | a callback `review_failed` of a run that could post nothing is accepted after the reconciler's query and before its `SetStatus`; the row ends as `succeeded` |

Further definitions state what the repository says and the code does not keep. They stand at the
end of their modules, under a heading of that name, and have no run here; naming one as the only
`INVARIANT` (or `PROPERTY`) of its module's configuration shows the counterexample.

| Property | What it quotes | What happens |
|---|---|---|
| `MomosService!SupersededIsFinal` | `docs/architecture.md:104-105` | a superseded run's job reports, and the row leaves `superseded` |
| `MomosService!CallbackIsAuthoritative` | `server/reconcile.go:48` | as in `succeeded_unseen`, with any report |
| `Publisher!NoStaleApproval` | `docs/operations.md:30` | the head moves between the freshness check and the review, or the check fails, and the approval is given |
| `Publisher!InlineDoesNotStack` | `forge/github.go:396-397` | the second run of a pull request deletes only comments with its own marker (`Runs` of two) |
| `Reviewer!NilErrorMeansReview` | `reviewer/reviewer.go:77-79` | a review that quotes code in a fence inside an outer fence is accepted, written, and unreadable for the publisher |
| `Reviewer!UnsetLimitsInherit` | `config/config.go:128-129` | a rule that sets one limit zeroes the others, and the model is shown an empty diff |
| `DiffParser!InlineOnAddedLines` | `diff/diff.go:3-4` | an added line `++ x`, which git writes as `+++ x`, starts a file `x` (two files with plain names) |
| `DiffParser!ChangedFilesTouched` | `diff/diff.go:103` | deletions, renames and modes are not counted; a change of such files only is "No reviewable changes" |
| `Deadlines!RetriesNeverRefused` | `docs/architecture.md:67-68` | the callback token expires between a saved attempt and its retry |
| `Deadlines!TimeoutIsFinal` | `docs/architecture.md:104-105` | a run is given up after 15 minutes whose reviewer has 30, and reports later |
| `Ingress!PullRequestGetsRun` | `docs/install.md:297-298` | two pull requests with one head: the second event is a duplicate (`MCSameHead`, `MCPlain`, `MCNoRules`) |
| `Ingress!SupersededByNewerHead` | `docs/architecture.md:105` | a late delivery of an older head, or the namesake at another forge, supersedes |
| `Ingress!OneRunPerDelivery` | `plan.md:75` | replay protection lasts an hour or until a restart, and is not in the store |
| `Ingress!ForksAreTold` | `config/config.go:111-115` | the payload of a fork that was deleted names no head repository and counts as the repository's own |
| `ReviewThreads!PeopleAreHeard` | `plan.md:547-548` | Momos's own threads fill the one page that is fetched (`Page = 2`) |
| `ReviewThreads!HardCap` | `plans/existing-threads.md:55-57` | the cap is tested before a thread is written |

## 4. Fairness

`MomosService!FairSpec`: weak fairness of the steps of `process` (the Go scheduler runs
goroutines, and every call in them has a deadline), of the clock (`Settle`, `Overdue`), and of the
reconciler as a whole, whose ticker is never stopped while the service runs. Not of GitHub, Hades
or the publisher: `EveryRunEnds` must hold although no callback comes. The service is restarted
finitely often (`MaxCrashes`). Fairness of the reconciler as one action is enough
because a batch only shrinks.

`Publisher!FairSpec`: weak fairness of the steps of each publisher, which runs in a container
with a 5 minute context that ends every call. A run whose executor kills the container for good
is not claimed to report; that is what the reconciler is for.

The other modules have no liveness property. That a review step ends follows from `CallsBounded`;
that a run ends does not depend on what `Ingress`, `ReviewThreads` or `Deadlines` add, and
`EndToEnd` is checked for safety only.

## 5. What is proved

TLAPS checks every proof to the last leaf. All theorems hold for every value of the constants
that satisfies the named assumption of the module, nothing else is assumed.

**`EndToEndProofs`**, first part, from `ServiceAssumption`: `TypeCorrect`, `JobsAlwaysStored`,
`SupersedeAlwaysSticks`, `ReconcilerAlwaysAlone`, `OneWorkerAlways`, `AcknowledgedAlwaysKept`,
`SuccessAlwaysReported`, `ReportAlwaysStands`, `Refinement`. None of the invariants is inductive
alone; the conjunction `IInv` adds what each needs. For the rows and jobs: which fields a row
that does not exist yet has, and that only goroutines past `submit` have a job. For superseding:
that the rows recorded in `older` were hit unless the context was over, in which case the run is
not inserted either - this is why an ignored error does no harm. For the reconciler: that a run
in its batch is settled and its goroutine's context is over. For results: that an accepted
outcome was saved, and that only `fail`, which excludes `hasJob`, could overwrite it. The action
property `ReportStands` follows from the same invariant: a run with a recorded job has no
goroutine left, and a reported row is not `submitted`, so no later query lists it. The refinement
maps a row to itself and the pull request of a row to that of its delivery; each action is
`Open`, `Supersede`, `Report`, `Conclude` or a stutter.

**`PublisherProofs`**, from `PublisherAssumption`: `TypeCorrect`, `Invariance`,
`SummaryAlwaysFirst`, `ReportAlwaysTrue`, `SummaryAlwaysUpserted`, `ApprovalAlwaysGuarded`.
`SummaryInv` ties the places where a publisher may be to the existence of its summary;
`UpsertInv` says that one about to post has none on the first page (comments are only
appended, so a position never changes); `FirstPass` says what a publisher that was not
restarted has left so far; the approval invariant needs that the findings of a run are fixed
once its job started.

**`ReviewDocumentProofs`**, from nothing: `ParseType`, `ReplyRead`, `MarshalRead`,
`PrefixUnread`, for texts, documents and strings of every length. The definitions of the module
are recursive over lengths (modes of a scanner, selected positions, flattened sequences). No
theorem of the library that takes an operator can be cited, so induction is done over sets of
numbers: `SetInduction`, from the well-foundedness of the subset ordering of finite sets. From it
come lemmas that say what each recursion computes (`ModeDef`, `AtDef`, `FlattenDef`) and that two
scanners in the same mode before the same tokens stay together (`ModeShift`). `Layout` says where
the strings of a document stand, wherever the document stands; from it follow the modes at
every position (`LayoutModes`), the frame and the strings the decoder finds (`LayoutSkeleton`,
`LayoutMembers`), and `DecodeLayout`. `ReplyRead` then follows the three steps of `Repair` over a reply:
what is between the fences (`ShapedOf`), what is between the outermost braces
(`OutermostBehind`), which commas go (`CommasDropped`). `PrefixUnread` is true because the last
bracket of a document is the only one outside its strings (`DecodePrefix`). The fence of a
document matters for all of them, and `Fenced` is where they stop.

**`ReviewerProofs`**, from `ReviewerAssumption`: `TypeCorrect`, `CallsAlwaysBounded`,
`SpendAlwaysBounded`, `TruncationAlwaysTold`; and from `RepliesAssumption` as well:
`ReadAlwaysAsMeant`, `ReviewAlwaysArrives`. `IInv` counts calls per place in the
conversation, bounds the cost by the budget plus the unchecked turns before each turn, and
ties the flag to what was cut. `DocumentInv` says that the review at hand is what was meant or
nothing, and that what is in the file is a whole document when the exit is 0 and nothing or a
proper part of one when it is not; `ClassifyProperties` says that the split of findings makes a
review of a review, keeps it free of fences, and that every finding is in one of the two places.

**`IngressProofs`**, from `IngressAssumption`: `TypeCorrect`, `OneActiveRunAlways`,
`CommitAlwaysGetsRun`, `AlwaysStaysOnItsForge`, `ForkPolicyAlwaysKept`. What makes them inductive is
that every row is the `Row` of an event that was admitted, under a policy that never
changes; `OneActiveRun` follows from what `Supersede` leaves submitted when the new row is
appended, and `CommitGetsRun` from `Duplicate` naming the row that already has the commit.

**`DiffParserProofs`**, from `ParserAssumption`: `TypeCorrect`, `OnlyAddedLinesAlways`,
`AllAddedLinesAlways`, for diffs of any length. The invariant says that in a section that is not
spoiled `cur` is the name of git's file and `newLine` is git's `at`, once a hunk has begun; and that
an entry that is not spoiled agrees with `truth` in both directions.

**`DeadlinesProofs`**, from `DeadlinesAssumption`: `TypeCorrect`, `HeardUnlessQueuedAlways`,
`HeardOnlyIfPostedAlways`, for all limits. The invariant bounds `ends` and `now` by what each
stage adds to `sent` and `begun`.

**`ReviewThreadsProofs`**, from `ThreadsAssumption`: `TypeCorrect`, `AlwaysRaisedAgain`,
`BlockAlwaysBounded`, `NeverDuplicatesWithinCaps`. The second and the last are action properties.
What is covered was shown, and what is shown is not `Mine`; a thread of a person that counts less
than the caps before it is shown, whatever Momos's threads take. The sizes are sums over sets
(`MapThenSumSet`); `RecursionIsSum`, `SumMonotone` and `SumBounded`, by induction over the subsets of
a finite set, say what the proofs need of them.

**`EndToEndProofs`**, second part, from the assumptions of `EndToEnd` and `MomosService`:
`SystemInvariance`, `ServiceRefinement`, `PublisherRefinement`, `SavedReviewAlwaysSeen`,
`RowsAlwaysTrue`, for any number of runs. The step lemmas of the first part and of
`PublisherProofs` are cited for the two parts (the latter through an instance with the
substitution of `P`); what is added is the invariant that ties them: a publisher past `waiting`
has a job, what a job decided is what its publisher concluded, and a row holds a review only if
its publisher concluded `succeeded` or `stale`. The refinements go action by action, as does
everything else.

## 6. What is only model-checked

* Liveness (`EveryRunEnds`, `AlwaysReports`): under fairness, out of reach of the prover.
* The violations: TLC's counterexamples are the evidence.

## 7. What is not modelled

* Cryptography: a signature or a token is as good as the secret it was made with. The step token
  endpoints, which embed mode does not use.
* Bodies, YAML, environment substitution, JSON shapes, HTTP plumbing, the text of comments and
  `sanitize`; the templates of prompts (a prompt can be rendered or not).
* Metrics, the list of runs, check runs: nothing reads them. That repeated callbacks count twice
  is in the list of hazards.
* The status `no_changes` of `docs/architecture.md` does not occur: nothing reports it.
* What the tools of the agentic strategy read: the model's next answer is arbitrary anyway.
* The clone step, which is a shell script: a clone that fails is a diff that cannot be computed.
  Images, Helm chart, compose files.
* A life cycle of reviews: a `REQUEST_CHANGES` that nobody dismisses keeps blocking. The repository
  does not say who should dismiss it.

## 8. Plan

Done, in this order: the service with its lifecycle, the publisher, the reviewer with schema and
policy; then the diff parser, the deadlines of a run, the way of an event to its run, the review
threads, and the composition of service and publisher, each with its proofs. The order was by
weight: the rows are what everything else reports to, the pull request is what people see, the
review is what it is all for; the rest decides who gets it.

What is left:

1. `Ingress` with overlapping deliveries: its keys and gates in the place of the constants of
   `MomosService`.
2. A composition of `Reviewer` and `Publisher` over `review.json` and `DiffParser`, so that
   `OnAddedLine` is what `Parse` says.
3. Proofs of what the code does guarantee where a violation shows the limit, as `ReportStands` is for
   the callback: an approval is for the head that was current when the review was begun.
