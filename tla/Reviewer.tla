------------------------------ MODULE Reviewer ------------------------------
(***************************************************************************)
(* The review step of a job (internal/reviewer): the diff, the oneshot or  *)
(* agentic conversation with the model, and the review.json that the       *)
(* publish step reads back (publisher.readReview).  The model is an        *)
(* OpenAI-compatible server: a call fails, asks for tools, or answers with *)
(* any text, and costs something.                                          *)
(*                                                                         *)
(* A definition X_How is no part of the specification: it is X with a     *)
(* plausible bug, and some property of this module catches it.             *)
(***************************************************************************)
EXTENDS Integers, Sequences, ReviewDocument, Policy

CONSTANTS
    Defaults,       \* the default policies an operator may write
    RuleLists,      \* the lists of repository rules
    Repo,           \* the repository under review
    Diffs,          \* what git diff may print: the files it touches and its size
    Replies,        \* texts a model answers with, each with the review it means to give
    MaxCallCost     \* bound: what one call may cost

ASSUME ReviewerAssumption ==
    /\ MaxCallCost \in Nat
    /\ Diffs \subseteq [files : Nat, size : Nat]
    /\ \A d \in Defaults, rules \in RuleLists :
          FromEnv(ReviewEnv(Resolve(d, rules, Repo))) \in
              [strategy : {"oneshot", "agentic"}, maxTurns : Nat,
               maxFiles : Nat, maxBytes : Nat, maxCost : Nat]

\* What a reply means is for its author to say: a review, if it holds one; nothing, if there is
\* no verdict in it; any other text means what it is taken for.
ASSUME RepliesAssumption ==
    \A reply \in Replies :
        /\ reply.text \in Seq(Tokens)
        /\ \/ IsReview(reply.meaning) /\ Holds(reply.text, reply.meaning)
           \/ reply.meaning = Unreadable /\ ~Contains(reply.text, Good)
           \/ reply.meaning = Parse(reply.text)

VARIABLES
    defaults, rules,    \* the configuration file
    cfg,        \* the Config of the reviewer
    pc,
    diff,       \* the diff git printed
    shown,      \* how much of it the model is shown
    turn,       \* turns of the agentic loop that are over
    nudges,     \* (history) those of them that ended with a request to answer
    calls,      \* (history) calls of the model that were answered
    spent,      \* what they cost
    meant,      \* (history) the review the model meant to give with its last answer
    review,     \* the review that was parsed from it
    file,       \* review.json, as tokens; empty if there is none
    truncated,  \* its flag of the same name
    exit,       \* how the reviewer ended
    read        \* what the publish step reads

setupVars == <<defaults, rules, cfg>>
talkVars  == <<turn, nudges, calls, spent, meant, review>>
outVars   == <<file, truncated, exit, read>>
vars == <<setupVars, pc, diff, shown, talkVars, outVars>>
-----------------------------------------------------------------------------
NoDiff  == [files |-> 0, size |-> 0]
Minimal == Review(<<"text">>, <<>>)

PCs == {"diff", "first", "repair", "turn", "force", "write", "publish", "done"}

TypeOK ==
    /\ defaults \in Defaults
    /\ rules \in RuleLists
    /\ cfg = FromEnv(ReviewEnv(Resolve(defaults, rules, Repo)))
    /\ pc \in PCs
    /\ diff \in Diffs \cup {NoDiff}
    /\ shown \in Nat
    /\ turn \in 0..cfg.maxTurns
    /\ nudges \in 0..cfg.maxTurns
    /\ calls \in Nat
    /\ spent \in Nat
    /\ truncated \in BOOLEAN
    /\ exit \in {"running", "ok", "error"}

Init ==
    /\ defaults \in Defaults
    /\ rules \in RuleLists
    /\ cfg = FromEnv(ReviewEnv(Resolve(defaults, rules, Repo)))
    /\ pc = "diff"
    /\ diff = NoDiff
    /\ shown = 0
    /\ turn = 0
    /\ nudges = 0
    /\ calls = 0
    /\ spent = 0
    /\ meant = Unreadable
    /\ review = Unreadable
    /\ file = <<>>
    /\ truncated = FALSE
    /\ exit = "running"
    /\ read = Unreadable
-----------------------------------------------------------------------------
Goto(l) == pc' = l /\ UNCHANGED exit

\* The reviewer exits; the publish step follows whatever its exit code.
Exit(e) == pc' = "publish" /\ exit' = e

\* With a bug: the flag tells of files only.
CutOff_Files(d) == d.files > cfg.maxFiles

\* What the publisher will call truncated: too many bytes, which are cut off, or too many
\* files, which are not.
CutOff(d) == d.size > cfg.maxBytes \/ d.files > cfg.maxFiles

\* Run, up to the strategy: a diff that cannot be computed is an error, one that touches no
\* file is not shown to the model, and one that is too large is cut.
ComputeDiff ==
    /\ pc = "diff"
    /\ \/ /\ Exit("error")
          /\ UNCHANGED <<diff, shown, review, truncated>>
       \/ \E d \in Diffs :
             /\ diff' = d
             /\ IF d.files = 0
                THEN /\ review' = Minimal
                     /\ Goto("write")
                     /\ UNCHANGED <<shown, truncated>>
                ELSE /\ shown' = IF d.size > cfg.maxBytes THEN cfg.maxBytes ELSE d.size
                     /\ truncated' = CutOff(d)
                     /\ Goto(IF cfg.strategy = "agentic"
                             THEN IF cfg.maxTurns = 0 THEN "force" ELSE "turn" ELSE "first")
                     /\ UNCHANGED review
    /\ UNCHANGED <<setupVars, turn, nudges, calls, spent, meant, file, read>>

\* Complete, as far as the budget goes: the answer arrives and is paid for.
Paid(cost) ==
    /\ calls' = calls + 1
    /\ spent' = spent + cost

\* Complete returns an error: no answer, no 2xx, no choices, or the 30 minutes are over.
CallFails ==
    /\ pc \in {"first", "repair", "turn", "force"}
    /\ Exit("error")
    /\ UNCHANGED <<setupVars, diff, shown, talkVars, file, truncated, read>>

\* What review.Parse makes of everything the model may say, and what it meant to say.
Answers == {[parsed |-> Parse(reply.text), meaning |-> reply.meaning] : reply \in Replies}

\* An answer in text; a review that parses ends the conversation.
Answer(answer, cost) ==
    /\ Paid(cost)
    /\ review' = answer.parsed
    /\ meant' = answer.meaning

\* oneshot: the first call.
First(answer, cost) ==
    /\ pc = "first"
    /\ Answer(answer, cost)
    /\ Goto(IF review'.ok THEN "write" ELSE "repair")
    /\ UNCHANGED <<setupVars, diff, shown, turn, nudges, file, truncated, read>>

\* The last call of either strategy: the one repair of oneshot, or the final answer that
\* agentic demands when its turns or its budget are used up.
FinalCall(answer, cost) ==
    /\ pc \in {"repair", "force"}
    /\ Answer(answer, cost)
    /\ IF review'.ok THEN Goto("write") ELSE Exit("error")
    /\ UNCHANGED <<setupVars, diff, shown, turn, nudges, file, truncated, read>>

\* With a bug: one turn too many.
NextTurn_OffByOne == Goto(IF turn' <= cfg.maxTurns THEN "turn" ELSE "force")

\* The loop goes on while there are turns.
NextTurn == Goto(IF turn' < cfg.maxTurns THEN "turn" ELSE "force")

\* With a bug: the budget is compared with what the last call cost.
ToolTurn_LastCallOnly(cost) ==
    /\ pc = "turn"
    /\ Paid(cost)
    /\ turn' = turn + 1
    /\ IF cfg.maxCost > 0 /\ cost >= cfg.maxCost THEN Goto("force") ELSE NextTurn
    /\ UNCHANGED <<setupVars, diff, shown, nudges, meant, review, file, truncated, read>>

\* agentic: the model asks for tools, which read the repository; then the budget is checked.
ToolTurn(cost) ==
    /\ pc = "turn"
    /\ Paid(cost)
    /\ turn' = turn + 1
    /\ IF cfg.maxCost > 0 /\ spent' >= cfg.maxCost THEN Goto("force") ELSE NextTurn
    /\ UNCHANGED <<setupVars, diff, shown, nudges, meant, review, file, truncated, read>>

\* With a bug: a turn that was only talk is not counted.
TextTurn_NotCounted(answer, cost) ==
    /\ pc = "turn"
    /\ Answer(answer, cost)
    /\ IF review'.ok THEN Goto("write") ELSE Goto("turn")
    /\ UNCHANGED <<setupVars, diff, shown, turn, nudges, file, truncated, read>>

\* agentic: the model answers in text; if that is no review it is nudged, unchecked.
TextTurn(answer, cost) ==
    /\ pc = "turn"
    /\ Answer(answer, cost)
    /\ IF review'.ok
       THEN Goto("write") /\ UNCHANGED <<turn, nudges>>
       ELSE turn' = turn + 1 /\ nudges' = nudges + 1 /\ NextTurn
    /\ UNCHANGED <<setupVars, diff, shown, file, truncated, read>>

\* With a bug: the findings outside the diff are dropped.
Classify_Drops(rev, outside) == Review(rev.summary, At(rev.findings, DOMAIN rev.findings \ outside))

\* classify: of the findings, those that are not on an added line go to the summary.
Classify(rev, outside) ==
    LET extra == FlattenSeq(At([i \in DOMAIN rev.findings |-> <<"text">> \o rev.findings[i]], outside))
    IN  Review(rev.summary \o extra, At(rev.findings, DOMAIN rev.findings \ outside))

\* Run, from classify on: review.json is written and the reviewer exits with 0; a full disk
\* or the end of the container leaves a part of it.
WriteReview ==
    /\ pc = "write"
    /\ \E outside \in SUBSET DOMAIN review.findings :
          LET doc == Marshal(Classify(review, outside))
          IN  \/ file' = doc /\ Exit("ok")
              \/ \E n \in 0..Len(doc) - 1 : file' = SubSeq(doc, 1, n) /\ Exit("error")
    /\ UNCHANGED <<setupVars, diff, shown, talkVars, truncated, read>>

\* readReview in the publish step.
ReadReview ==
    /\ pc = "publish"
    /\ read' = Parse(file)
    /\ Goto("done")
    /\ UNCHANGED <<setupVars, diff, shown, talkVars, file, truncated>>

Next ==
    \/ ComputeDiff
    \/ CallFails
    \/ \E cost \in 0..MaxCallCost :
          \/ ToolTurn(cost)
          \/ \E answer \in Answers : First(answer, cost) \/ TextTurn(answer, cost) \/ FinalCall(answer, cost)
    \/ WriteReview
    \/ ReadReview

Spec == Init /\ [][Next]_vars
-----------------------------------------------------------------------------
(* Properties. *)

\* agentic: the hard turn limit.  The model is called at most once more than the limit says,
\* and a oneshot review calls it at most twice, whatever it answers.
CallsBounded ==
    calls <= IF cfg.strategy = "agentic" THEN cfg.maxTurns + 1 ELSE 2

\* agentic: the running budget.  A review goes over its budget by the call that reached it,
\* the final answer, and the turns that only nudged the model, which are not checked.
SpendBounded ==
    cfg.strategy = "agentic" /\ cfg.maxCost > 0
        => spent < cfg.maxCost + (nudges + 2) * MaxCallCost

\* Parse: what a model wraps around its review, and the commas it leaves before a bracket,
\* neither change the review nor make it unreadable.  Only a code fence in it may.
ReadAsMeant == calls > 0 => review = meant \/ (~review.ok /\ Fenced(meant))

\* Run and readReview: the publish step reads a review if and only if the reviewer exited
\* with 0, whatever part of the file a failure left, and no finding is lost on the way.
\* Only a code fence in the review may make a difference.
ReviewArrives ==
    pc = "done" /\ ~Fenced(review) =>
        /\ exit = "ok" <=> read.ok
        /\ exit = "ok" =>
              \A i \in DOMAIN review.findings :
                 \/ Contains(read.findings, review.findings[i])
                 \/ \E a, b \in 0..Len(read.summary) :
                       SubSeq(read.summary, a + 1, b) = review.findings[i]

\* The publisher never presents a review of part of a diff as one of the whole diff.
TruncationIsTold == exit = "ok" /\ shown < diff.size /\ calls > 0 => truncated
-----------------------------------------------------------------------------
(* What the documentation says and the code does not keep. *)

\* Run: a nil error means that a review was produced, which the publisher can report.
NilErrorMeansReview == pc = "done" /\ exit = "ok" => read.ok

\* RepoRule: a field that a rule leaves unset inherits, so a rule that says nothing of
\* max_diff_bytes shows the model as much of the diff as the defaults would.
UnsetLimitsInherit ==
    LET i == SelectInSeq(rules, LAMBDA r : Matches(r, Repo))
        limit == defaults.limits.maxBytes
    IN  i # 0 /\ rules[i].limits # Inherit /\ rules[i].limits.maxBytes = 0 /\ calls > 0
            => shown = IF diff.size > limit THEN limit ELSE diff.size
=============================================================================
