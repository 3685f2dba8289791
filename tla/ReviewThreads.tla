---------------------------- MODULE ReviewThreads ----------------------------
(***************************************************************************)
(* The review threads of one pull request through several runs: people     *)
(* open, answer and resolve threads and change the code; process fetches   *)
(* the threads (ListReviewThreads), drops Momos's own                      *)
(* (FilterOutMomosThreads), renders the rest under caps                    *)
(* (RenderReviewThreads) and gives them to the review step; the publisher  *)
(* posts what was found as threads that carry MomosInlineMarker.           *)
(*                                                                         *)
(* The model is taken to do as its prompt says: it raises every concern of *)
(* the diff but those that the block it was given has a thread about.      *)
(*                                                                         *)
(* A definition X_How is no part of the specification: it is X with a      *)
(* plausible bug, and some property of this module catches it.             *)
(***************************************************************************)
EXTENDS Integers, Sequences, FiniteSets, FiniteSetsExt, SequencesExt

CONSTANTS
    Concerns,           \* what there is to say about the code
    Lengths,            \* the lengths of a comment
    Page, PageComments, \* first:100 threads with first:20 comments in the GraphQL query
    maxThreads, maxThreadComment, maxCommentChars, maxThreadsBytes,
    MaxPosted,          \* bound: threads on the pull request
    MaxReplies          \* bound: comments of a thread

ASSUME ThreadsAssumption ==
    /\ IsFiniteSet(Concerns)
    /\ Lengths \subseteq Nat
    /\ {Page, PageComments} \subseteq Nat \ {0}
    /\ {maxThreads, maxThreadComment, maxCommentChars, maxThreadsBytes} \subseteq Nat \ {0}
    /\ MaxPosted \in Nat /\ MaxReplies \in Nat

VARIABLES
    threads,    \* the threads at GitHub, oldest first
    fetched,    \* a run is between its fetch and its publish step
    listed,     \* what ListReviewThreads answered to it
    asked,      \* of the last run: the concerns that the diff gave reason for,
    raised      \* and those it raised

vars == <<threads, fetched, listed, asked, raised>>
-----------------------------------------------------------------------------
\* A comment: does it carry the marker, and how long is its body.
Comment == [mine : BOOLEAN, length : Nat]
Thread  == [about : Concerns, state : {"open", "resolved", "outdated"}, comments : Seq(Comment)]

TypeOK ==
    /\ threads \in Seq(Thread) /\ listed \in Seq(Thread)
    /\ fetched \in BOOLEAN
    /\ asked \subseteq Concerns /\ raised \subseteq asked

Init ==
    /\ threads = <<>> /\ listed = <<>>
    /\ fetched = FALSE
    /\ asked = {} /\ raised = {}
-----------------------------------------------------------------------------
(* People. *)

Person(n) == [mine |-> FALSE, length |-> n]

Open(c, n) ==
    /\ Len(threads) < MaxPosted
    /\ threads' = Append(threads, [about |-> c, state |-> "open", comments |-> <<Person(n)>>])
    /\ UNCHANGED <<fetched, listed, asked, raised>>

\* Anyone may answer in any thread, Momos's included.
Reply(i, n) ==
    /\ Len(threads[i].comments) < MaxReplies
    /\ threads' = [threads EXCEPT ![i].comments = Append(@, Person(n))]
    /\ UNCHANGED <<fetched, listed, asked, raised>>

\* Someone resolves a thread, or a push changes the line it is on, whether or not that
\* settles its concern.
Settle(i, state) ==
    /\ threads[i].state = "open"
    /\ threads' = [threads EXCEPT ![i].state = state]
    /\ UNCHANGED <<fetched, listed, asked, raised>>
-----------------------------------------------------------------------------
(* ListReviewThreads, FilterOutMomosThreads and RenderReviewThreads. *)

Prefix(s, n) == SubSeq(s, 1, Min({n, Len(s)}))

\* The query has no cursor: what is beyond the first page is not fetched.
FirstPage(ts) ==
    [i \in DOMAIN Prefix(ts, Page) |-> [ts[i] EXCEPT !.comments = Prefix(@, PageComments)]]

\* With a bug: a thread is Momos's when its last word is.
Mine_LastComment(t) == t.comments # <<>> /\ t.comments[Len(t.comments)].mine

\* The marker in any comment of the thread.
Mine(t) == \E k \in DOMAIN t.comments : t.comments[k].mine

\* With a bug: the caps are applied to what was fetched, before the filter.
Theirs_AfterCaps(ts) == {i \in DOMAIN Prefix(ts, maxThreads) : ~Mine(ts[i])}

\* FilterOutMomosThreads: the places of the threads that stay.
Theirs(ts) == {i \in DOMAIN ts : ~Mine(ts[i])}

\* With a bug: bodies are not cut.
BodySize_Uncut(comment) == 1 + comment.length

\* A line of the block: the author, and the body cut to its cap.
BodySize(comment) == 1 + Min({comment.length, maxCommentChars})

\* A thread in the block: where it is, its first comments, and a line for the others.
ThreadSize(t) ==
    1 + MapThenSumSet(LAMBDA k : BodySize(t.comments[k]), DOMAIN Prefix(t.comments, maxThreadComment))
      + (IF Len(t.comments) > maxThreadComment THEN 1 ELSE 0)

SizeOf(ts, places) == MapThenSumSet(LAMBDA i : ThreadSize(ts[i]), places)

\* RenderReviewThreads goes on to a thread unless the caps are reached by those before it.
Shown(ts) ==
    {i \in Theirs(ts) :
        LET before == {j \in Theirs(ts) : j < i}
        IN  Cardinality(before) < maxThreads /\ SizeOf(ts, before) < maxThreadsBytes}

-----------------------------------------------------------------------------
(* A run. *)

\* process: the threads are fetched, or the call fails and the run goes on without.
Fetch ==
    /\ ~fetched
    /\ fetched' = TRUE
    /\ listed' \in {FirstPage(threads), <<>>}
    /\ asked' = {} /\ raised' = {}
    /\ UNCHANGED threads

\* What the block has a thread about, in whatever state: threadsBlock asks not to raise it.
Covered(ts) == {ts[i].about : i \in Shown(ts)}

Marked(c) ==
    [about |-> c, state |-> "open", comments |-> <<[mine |-> TRUE, length |-> 0]>>]

\* With a bug: the model echoes the threads it is shown.
Found_Echo(found, ts) == found \cup Covered(ts)

Found(found, ts) == found \ Covered(ts)

\* The review step raises what is left, and the publisher posts it (toInline tags each
\* comment) or fails to.  The comments of other runs stay: the marker of PostReview names
\* the run.
Publish(found) ==
    /\ fetched
    /\ fetched' = FALSE
    /\ listed' = <<>>
    /\ asked' = found
    /\ raised' = Found(found, listed)
    /\ \/ UNCHANGED threads
       \/ /\ Len(threads) + Cardinality(raised') <= MaxPosted
          /\ \E order \in SetToSeqs(raised') :
                threads' = threads \o [k \in DOMAIN order |-> Marked(order[k])]

Next ==
    \/ \E c \in Concerns, n \in Lengths : Open(c, n)
    \/ \E i \in DOMAIN threads, n \in Lengths : Reply(i, n)
    \/ \E i \in DOMAIN threads, s \in {"resolved", "outdated"} : Settle(i, s)
    \/ Fetch
    \/ \E found \in SUBSET Concerns : Publish(found)

Spec == Init /\ [][Next]_vars
-----------------------------------------------------------------------------
(* Properties. *)

Publishes == fetched /\ ~fetched'

\* Only people's threads drive deduplication: a concern of the reviewed code is raised again,
\* though an earlier run raised it and someone answered, resolved or outdated that thread,
\* unless a thread that Momos has no part in is about it.
OwnFindingRaisedAgain ==
    [][Publishes =>
         \A c \in asked' \ raised' :
             \E i \in DOMAIN listed :
                 /\ listed[i].about = c
                 /\ \A k \in DOMAIN listed[i].comments : ~listed[i].comments[k].mine]_vars

\* What a person has asked for is not asked for again, as long as the threads were fetched
\* and people's alone stay within the caps; Momos's own threads use up none of them.
NoDuplicateWithinCaps ==
    [][LET theirs == {i \in DOMAIN listed : ~Mine(listed[i])}
       IN  Publishes /\ Cardinality(theirs) <= maxThreads
             /\ SizeOf(listed, theirs) <= maxThreadsBytes
             => \A i \in theirs : listed[i].about \notin raised']_vars

\* The block stays below its cap but for its last thread, whose comments are capped too.
BlockBounded ==
    LET largest == 2 + maxThreadComment * (1 + maxCommentChars)
    IN  /\ Cardinality(Shown(listed)) <= maxThreads
        /\ SizeOf(listed, Shown(listed)) < maxThreadsBytes + largest
-----------------------------------------------------------------------------
(* What the documentation says and the code does not keep. *)

\* plan.md: the threads of people are rendered with caps: none is lost to Momos's own.
PeopleAreHeard ==
    [][LET theirs == {i \in DOMAIN threads : ~Mine(threads[i])}
       IN  fetched' /\ listed' # listed /\ Cardinality(theirs) <= maxThreads
             /\ SizeOf(threads, theirs) <= maxThreadsBytes
             => \A i \in theirs : threads[i].about \in Covered(listed')]_vars

\* existing-threads.md: a hard total cap on the serialized block.
HardCap == SizeOf(listed, Shown(listed)) <= maxThreadsBytes
=============================================================================
