------------------------------ MODULE DiffParser ------------------------------
(***************************************************************************)
(* internal/diff: what Parse makes of the output of git diff.  Git writes  *)
(* the diff line by line, following its grammar: a section per file, with  *)
(* the two names and the hunks or with neither (a rename, a new mode, a    *)
(* binary file).  Parse takes every line as its switch does, by the first  *)
(* prefix that fits, which is not always what git meant by the line.       *)
(*                                                                         *)
(* The counters Additions and Deletions are read by tests only and left    *)
(* out.  A definition X_How is no part of the specification: it is X with  *)
(* a plausible bug, and some property of this module catches it.           *)
(***************************************************************************)
EXTENDS Integers, FiniteSets

CONSTANTS
    Files,      \* the files the diff is about, by the names findings give them
    Paths,      \* what may follow "+++ " (and "b/") in a line
    Name,       \* how git writes a file's name there: quoted when it has special
                \* characters, with a tab at the end when it has a blank
    DevNull,    \* /dev/null, where the name of a deleted file would be
    NoFile,     \* cur == nil
    Kinds,      \* the kinds of text a line of a file may hold
    MaxLine     \* bound: length of a file

\* Two names are never written alike, and none is written as another file's is spelled.
ASSUME ParserAssumption ==
    /\ Files \subseteq Paths
    /\ DevNull \notin Paths /\ NoFile \notin Paths
    /\ Name \in [Files -> Paths]
    /\ \A f, g \in Files : Name[f] = Name[g] => f = g
    /\ \A f \in Files : Name[f] \in Files => Name[f] = f
    /\ Kinds \subseteq {"plain", "dashes", "pluses", "long"}
    /\ MaxLine \in Nat

VARIABLES
    mode,       \* git: what it has written last
    section,    \* git: the file it writes about
    at,         \* git: the number of the next line of the head side
    room,       \* git: how many lines of the head side the hunk still has
    touched,    \* (history) the files that have a section
    truth,      \* (history) the lines, of what file, that were really added
    spoiled,    \* (history) the paths whose entry a line of text has interfered with
    cur,        \* Parse: the path of the file it is in
    newLine,    \* Parse: its count of the lines of the head side
    entries,    \* Parse: the domain of d.Files
    added,      \* Parse: the AddedLines of its entries
    stopped     \* Parse: the scanner has given up, at a line longer than its 16 MB

gitVars   == <<mode, section, at, room, touched, truth>>
parseVars == <<cur, newLine, entries, added, stopped>>
vars      == <<gitVars, spoiled, parseVars>>
-----------------------------------------------------------------------------
Modes == {"start", "headers", "named", "gone", "hunk", "end"}
Marks == {"+", "-", " "}

TypeOK ==
    /\ mode \in Modes
    /\ section \in Files \cup {NoFile}
    /\ at \in Nat /\ room \in 0..MaxLine
    /\ touched \subseteq Files
    /\ truth \subseteq Files \X Nat
    /\ spoiled \subseteq Paths
    /\ cur \in Paths \cup {NoFile}
    /\ newLine \in Nat
    /\ entries \subseteq Paths
    /\ added \subseteq Paths \X Nat
    /\ stopped \in BOOLEAN

Init ==
    /\ mode = "start" /\ section = NoFile /\ at = 0 /\ room = 0
    /\ touched = {} /\ truth = {} /\ spoiled = {}
    /\ cur = NoFile /\ newLine = 0 /\ entries = {} /\ added = {} /\ stopped = FALSE
-----------------------------------------------------------------------------
(* The branches of the switch of Parse. *)

\* "diff --git"
ParseSection == cur' = NoFile /\ UNCHANGED <<newLine, entries, added, stopped>>

\* With a bug: the name of a deleted file is taken for a path.
ParseName_Deleted(p) ==
    /\ cur' = p
    /\ entries' = entries \cup {p}
    /\ added' = {e \in added : e[1] # p}
    /\ UNCHANGED <<newLine, stopped>>

\* "+++ ": an empty entry, in the place of one the path may have.
ParseName(p) ==
    /\ IF p = DevNull
       THEN cur' = NoFile /\ UNCHANGED <<entries, added>>
       ELSE /\ cur' = p
            /\ entries' = entries \cup {p}
            /\ added' = {e \in added : e[1] # p}
    /\ UNCHANGED <<newLine, stopped>>

\* "@@": parseHunkNewStart takes the number after the first "+".
ParseHunk(c) == newLine' = c /\ UNCHANGED <<cur, entries, added, stopped>>

\* "+"
ParseAdded ==
    /\ added' = IF cur = NoFile THEN added ELSE added \cup {<<cur, newLine>>}
    /\ newLine' = IF cur = NoFile THEN newLine ELSE newLine + 1
    /\ UNCHANGED <<cur, entries, stopped>>

\* The default: a line of context.
ParseContext ==
    /\ newLine' = IF cur = NoFile THEN newLine ELSE newLine + 1
    /\ UNCHANGED <<cur, entries, added, stopped>>

\* Scan returns false, for good; its error is not looked at.
ParseTooLong == stopped' = TRUE /\ UNCHANGED <<cur, newLine, entries, added>>

\* "--- " and "-": nothing that is kept.
ParseSkip == UNCHANGED parseVars

\* With a bug: the remark is taken for a line of context.
ParseRemark_Counted == ParseContext

\* "\", before the default: not a line of the file.
ParseRemark == UNCHANGED parseVars

\* How the switch takes a line of a file with a mark before it.
ReadsAs(mark, kind) ==
    IF kind = "long" THEN "long"
    ELSE IF mark = "+" /\ kind = "pluses" THEN "+++ "
    ELSE IF mark = "-" /\ kind = "dashes" THEN "--- "
    ELSE mark

\* With a bug: a removed line advances the count.
ParseText_CountsRemoved(mark, kind, p) ==
    \/ ReadsAs(mark, kind) = "long" /\ ParseTooLong
    \/ ReadsAs(mark, kind) = "+++ " /\ ParseName(p)
    \/ ReadsAs(mark, kind) = "+" /\ ParseAdded
    \/ ReadsAs(mark, kind) \in {" ", "-"} /\ ParseContext
    \/ ReadsAs(mark, kind) = "--- " /\ ParseSkip

\* A line of a file; p is the path in it when it reads as a header.
ParseText(mark, kind, p) ==
    \/ ReadsAs(mark, kind) = "long" /\ ParseTooLong
    \/ ReadsAs(mark, kind) = "+++ " /\ ParseName(p)
    \/ ReadsAs(mark, kind) = "+" /\ ParseAdded
    \/ ReadsAs(mark, kind) = " " /\ ParseContext
    \/ ReadsAs(mark, kind) \in {"--- ", "-"} /\ ParseSkip

\* A line that Parse still gets to see.
Parse(Branch) == IF stopped THEN UNCHANGED parseVars ELSE Branch
-----------------------------------------------------------------------------
(* Git writes, Parse reads. *)

\* The section of a file begins.  The headers up to its names hold nothing for Parse, and
\* a section without hunks has no more than those.
Section(f) ==
    /\ mode # "end" /\ room = 0
    /\ f \notin touched
    /\ mode' = "headers" /\ section' = f
    /\ touched' = touched \cup {f}
    /\ Parse(ParseSection)
    /\ UNCHANGED <<at, room, truth, spoiled>>

\* The lines "--- " and "+++ ".
Names(gone) ==
    /\ mode = "headers"
    /\ mode' = IF gone THEN "gone" ELSE "named"
    /\ at' = 1
    /\ spoiled' = IF gone \/ stopped THEN spoiled ELSE spoiled \ {Name[section]}
    /\ Parse(ParseName(IF gone THEN DevNull ELSE Name[section]))
    /\ UNCHANGED <<section, room, touched, truth>>

\* A hunk of n lines of the head side.  It starts at the first of them, or, when it only
\* removes lines, at the line before; a deleted file has none.
Hunk(n, from) ==
    /\ mode \in {"named", "hunk"} \/ (mode = "gone" /\ n = 0 /\ from = 1)
    /\ room = 0
    /\ at <= from /\ from + n <= MaxLine + 1
    /\ mode' = IF mode = "gone" THEN mode ELSE "hunk"
    /\ at' = from /\ room' = n
    /\ Parse(ParseHunk(IF n = 0 THEN from - 1 ELSE from))
    /\ UNCHANGED <<section, touched, truth, spoiled>>

\* A line of the hunk, removed, added or context.  Only an added one can pass for a name.
Text(mark, kind, p) ==
    /\ mode \in {"hunk", "gone"}
    /\ mark # "-" => room > 0
    /\ at' = IF mark = "-" THEN at ELSE at + 1
    /\ room' = IF mark = "-" THEN room ELSE room - 1
    /\ truth' = IF mark = "+" THEN truth \cup {<<section, at>>} ELSE truth
    /\ spoiled' = IF mark = "+" /\ kind = "pluses" /\ ~stopped
                  THEN spoiled \cup {Name[section]} \cup ({p} \cap Paths) ELSE spoiled
    /\ Parse(ParseText(mark, kind, p))
    /\ UNCHANGED <<mode, section, touched>>

\* "\ No newline at end of file"
NoNewline ==
    /\ mode \in {"hunk", "gone"}
    /\ Parse(ParseRemark)
    /\ UNCHANGED <<gitVars, spoiled>>

\* The diff ends.
End ==
    /\ mode # "end" /\ room = 0
    /\ mode' = "end"
    /\ UNCHANGED <<section, at, room, touched, truth, spoiled, parseVars>>

Next ==
    \/ \E f \in Files : Section(f)
    \/ \E gone \in BOOLEAN : Names(gone)
    \/ \E n \in 0..MaxLine, from \in 1..MaxLine : Hunk(n, from)
    \/ \E mark \in Marks, kind \in Kinds :
          \E p \in IF kind = "pluses" THEN Paths \cup {DevNull} ELSE {DevNull} : Text(mark, kind, p)
    \/ NoNewline
    \/ End

Spec == Init /\ [][Next]_vars
-----------------------------------------------------------------------------
\* An inline comment goes to a line that the pull request really adds: hunk after hunk and
\* file after file the count of Parse is the count of the head side.  Removed lines that
\* look like headers do no harm, an added one spoils its own file and the one it names.
OnlyAddedLines == \A e \in added : e[1] \in Files \ spoiled => e \in truth

\* And no finding on an added line is taken for one outside the diff, except in a file
\* whose name git writes in another way than findings do, and past a line too long.
AllAddedLines ==
    ~stopped => \A e \in truth : Name[e[1]] = e[1] /\ e[1] \notin spoiled => e \in added
-----------------------------------------------------------------------------
(* What the comments say and the code does not keep. *)

\* diff.go, package comment: inline comments are only posted on added lines.
InlineOnAddedLines == \A e \in added : e[1] \in Files => e \in truth

\* diff.go, ChangedFiles: the number of files touched by the diff.
ChangedFilesTouched == mode = "end" => Cardinality(entries) = Cardinality(touched)
=============================================================================
