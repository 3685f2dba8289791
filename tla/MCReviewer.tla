----------------------------- MODULE MCReviewer -----------------------------
(***************************************************************************)
(* Constants of the TLC runs of Reviewer: every review whose strings are   *)
(* up to MaxUnits of the tokens that matter, in every wrapping a model may  *)
(* give it; configurations with and without a rule and with zero limits.   *)
(***************************************************************************)
EXTENDS Reviewer, FiniteSets

CONSTANTS MaxUnits, repo

Units == {<<Comma>>, <<Close>>, <<Escape, Quote>>, <<Fence>>}

Strings(n) == {FlattenSeq(u) : u \in BoundedSeq(Units, n)}

Reviews ==
    {Review(s, <<>>) : s \in Strings(MaxUnits) \ {<<>>}} \cup
    {Review(s, <<f>>) : s \in Strings(1), f \in Strings(1)}

\* Replies that hold a review, and two that hold none: prose, and a verdict nobody knows.
MCReplies ==
    {[text |-> Reply(before, r, comma, inFence, after), meaning |-> r] :
        before \in {<<>>, <<"text">>}, r \in Reviews, comma \in BOOLEAN, inFence \in BOOLEAN,
        after \in {<<>>, <<"text", Close>>}} \cup
    {[text |-> t, meaning |-> Unreadable] :
        t \in {<<"text">>, <<Open, Bad, Comma, Quote, "text", Quote, Close>>}}

Limits(files, bytes, cost) == [maxFiles |-> files, maxBytes |-> bytes, maxCost |-> cost]

MCDefaults ==
    {[limits |-> Limits(1, 1, c), strategy |-> s, maxTurns |-> t] :
        c \in {0, 2}, s \in {Empty, "agentic"}, t \in {0, 3}}

MCRuleLists ==
    {<<>>,
     <<[match |-> {}, limits |-> Limits(2, 2, 1), strategy |-> Inherit, maxTurns |-> Inherit],
       [match |-> {repo}, limits |-> Limits(0, 0, 3), strategy |-> Inherit, maxTurns |-> Inherit]>>}

MCDiffs == {[files |-> 0, size |-> 1], [files |-> 1, size |-> 1], [files |-> 1, size |-> 2]}
=============================================================================
