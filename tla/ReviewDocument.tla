--------------------------- MODULE ReviewDocument ---------------------------
(***************************************************************************)
(* review.json as the reviewer writes it and as review.Parse understands   *)
(* it (internal/review/review.go).  A text is a sequence of tokens; white  *)
(* space outside strings is left out.  The document is flattened to a      *)
(* verdict, the summary and the messages of the findings:                  *)
(*                                                                         *)
(*     { verdict , "summary" , "message" , ... }                           *)
(*                                                                         *)
(* A string is the sequence of the tokens between its quotes, in escaped   *)
(* form, and braces, commas and code fences may stand in it.               *)
(*                                                                         *)
(* A definition X_How is no part of the specification: it is X with a     *)
(* plausible bug.                                                          *)
(***************************************************************************)
EXTENDS Integers, Sequences, SequencesExt

Open    == "open"
Close   == "close"
Comma   == "comma"
Good    == "good"
Bad     == "bad"
Quote   == "quote"
Escape  == "backslash"
Fence   == "fence"
Tokens  == {Open, Close, Comma, Quote, Escape, Fence, Good, Bad, "text"}

\* What Parse returns when it returns an error.
Unreadable == [ok |-> FALSE]

Review(summary, findings) == [ok |-> TRUE, summary |-> summary, findings |-> findings]

\* The tokens of s at the positions in I.
At(s, I) == FoldLeftDomain(LAMBDA kept, i : IF i \in I THEN Append(kept, s[i]) ELSE kept, <<>>, s)
-----------------------------------------------------------------------------
(* Writing. *)

\* The strings of a document, in order.
Texts(review) == <<review.summary>> \o review.findings

Member(string) == <<Comma, Quote>> \o string \o <<Quote>>

\* json.Marshal.
Marshal(review) ==
    LET texts == Texts(review)
    IN  <<Open, Good>> \o FlattenSeq([k \in 1..Len(texts) |-> Member(texts[k])]) \o <<Close>>
-----------------------------------------------------------------------------
(* Reading. *)

\* A scanner is outside strings, inside one, or behind a backslash in one: what encoding/json
\* and removeTrailingCommas agree on.
Step(mode, token) ==
    CASE mode = "out"     -> IF token = Quote THEN "in" ELSE "out"
      [] mode = "escaped" -> "in"
      [] mode = "in"      -> CASE token = Escape -> "escaped"
                               [] token = Quote  -> "out"
                               [] OTHER          -> "in"

\* The mode after each token.
Mode(s) ==
    LET mode[i \in 0..Len(s)] == IF i = 0 THEN "out" ELSE Step(mode[i - 1], s[i])
    IN  mode

\* repair, first step: what is between the first code fence and the last one after it.
StripFences(s) ==
    LET first == SelectInSeq(s, LAMBDA t : t = Fence)
        last  == SelectLastInSeq(s, LAMBDA t : t = Fence)
    IN  IF first = 0 THEN s
        ELSE SubSeq(s, first + 1, IF last = first THEN Len(s) ELSE last - 1)

\* repair, second step: the outermost braces.
Outermost(s) ==
    LET open  == SelectInSeq(s, LAMBDA t : t = Open)
        close == SelectLastInSeq(s, LAMBDA t : t = Close)
    IN  IF open > 0 /\ close > open THEN SubSeq(s, open, close) ELSE s

\* With a bug: commas inside strings are dropped, too.
RemoveTrailingCommas_InStrings(s) ==
    At(s, {i \in 1..Len(s) : ~(s[i] = Comma /\ i < Len(s) /\ s[i + 1] = Close)})

\* removeTrailingCommas: a comma before a closing bracket goes, outside strings.
RemoveTrailingCommas(s) ==
    LET mode == Mode(s)
    IN  At(s, {i \in 1..Len(s) :
                 ~(mode[i - 1] = "out" /\ s[i] = Comma /\ i < Len(s) /\ s[i + 1] = Close)})

Repair(s) == RemoveTrailingCommas(Outermost(StripFences(s)))

\* The decoder reads the first JSON value and ignores what follows.  The value is a
\* document if its tokens outside strings are {, a verdict, and commas and strings by
\* turns, up to the first } outside strings.
Decode(s) ==
    LET mode  == Mode(s)
        ends  == {i \in 1..Len(s) : mode[i - 1] = "out" /\ s[i] = Close}
        end   == CHOOSE i \in ends : \A j \in ends : i <= j
        frame == {i \in 1..end : mode[i - 1] = "out"}
        opens == {i \in frame : s[i] = Quote}
        strings == [i \in 1..Len(s) |->
                      IF i \in opens
                      THEN LET shut == CHOOSE j \in i + 1..end :
                                         mode[j] = "out" /\ \A k \in i + 1..j - 1 : mode[k] # "out"
                           IN  SubSeq(s, i + 1, shut - 1)
                      ELSE <<>>]
        members == At(strings, opens)
    IN  IF \/ ends = {}
           \/ At(s, frame) # <<Open, Good>>
                \o FlattenSeq([k \in 1..Len(members) |-> <<Comma, Quote>>]) \o <<Close>>
           \/ members = <<>>
        THEN Unreadable
        ELSE Review(Head(members), Tail(members))

\* Validate.  An unknown verdict does not decode above.
Valid(review) == review.ok /\ (review.summary # <<>> \/ review.findings # <<>>)

Parse(s) ==
    LET review == Decode(Repair(s))
    IN  IF Valid(review) THEN review ELSE Unreadable
-----------------------------------------------------------------------------
(* The reference the parser is held to. *)

\* What may stand between the quotes of a JSON string: every quote is escaped.
IsString(s) ==
    LET mode == Mode(<<Quote>> \o s)
    IN  /\ s \in Seq(Tokens)
        /\ \A i \in 1..Len(s) + 1 : mode[i] # "out"
        /\ mode[Len(s) + 1] = "in"

\* The reviews that can be written and pass Validate.
IsReview(review) ==
    /\ review \in [ok : {TRUE}, summary : Seq(Tokens), findings : Seq(Seq(Tokens))]
    /\ IsString(review.summary)
    /\ \A k \in DOMAIN review.findings : IsString(review.findings[k])
    /\ Valid(review)

Fenced(review) == review.ok /\ Contains(Marshal(review), Fence)

\* A model's reply that holds a review: prose, the document in a code fence or not, with
\* a trailing comma or not, and more prose.
Reply(before, review, comma, inFence, after) ==
    LET doc  == Marshal(review)
        body == IF comma THEN Front(doc) \o <<Comma, Close>> ELSE doc
    IN  before \o (IF inFence THEN <<Fence>> \o body \o <<Fence>> ELSE body) \o after

\* The text is such a reply.  The prose before the review opens no brace or fence, the prose
\* behind it no fence.  A verdict is written with quotes, so it occurs once, in no string and not
\* in the prose.
Holds(text, review) ==
    \E i \in 0..Len(text), comma \in BOOLEAN, inFence \in BOOLEAN :
        LET before == SubSeq(text, 1, i)
            n      == i + Len(Reply(<<>>, review, comma, inFence, <<>>))
            after  == SubSeq(text, n + 1, Len(text))
        IN  /\ text = Reply(before, review, comma, inFence, after)
            /\ ~Contains(before, Open) /\ ~Contains(before, Fence) /\ ~Contains(after, Fence)
            /\ \A j \in 1..Len(text) : text[j] = Good => j = i + (IF inFence THEN 3 ELSE 2)
=============================================================================
