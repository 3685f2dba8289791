-------------------------- MODULE DiffParserProofs --------------------------
(***************************************************************************)
(* Proofs about DiffParser for every set of files, every way git writes    *)
(* their names and files of every length.                                  *)
(***************************************************************************)
EXTENDS DiffParser, TLAPS

USE DEF gitVars, parseVars

\* Nothing is known yet of the lines of the file whose headers are being written.
Fresh == mode = "headers" => \A e \in truth : e[1] # section

\* What is written about has a section, and there is a file once there is one.
Sections ==
    /\ \A e \in truth : e[1] \in touched
    /\ mode \in {"headers", "named", "hunk", "gone"} => section \in Files \cap touched
    /\ mode # "hunk" => room = 0

\* The parser is where git is, or in a spoiled entry, or in none; and it counts like git
\* while the hunk has lines of the head side.
InStep ==
    mode \in {"named", "hunk"} /\ ~stopped =>
        /\ cur \in {Name[section], NoFile} \cup spoiled
        /\ Name[section] \notin spoiled =>
              cur = Name[section] /\ (room > 0 => newLine = at)

\* The entries that nothing has interfered with agree with the truth.
Agree ==
    \A f \in Files : Name[f] \notin spoiled =>
        /\ \A l \in Nat : <<Name[f], l>> \in added => <<f, l>> \in truth
        /\ ~stopped => \A l \in Nat : <<f, l>> \in truth => <<Name[f], l>> \in added

\* Every line is noted under a name of git's or a spoiled path.
Known == \A e \in added : e[1] \in spoiled \/ \E f \in Files : e[1] = Name[f]

IInv == TypeOK /\ Fresh /\ Sections /\ InStep /\ Agree /\ Known
-----------------------------------------------------------------------------
(* What a step of the parser does to its state. *)

\* Reading a line of text keeps the types of the parser.
LEMMA ParseTextType ==
    ASSUME TypeOK, NEW mark, NEW kind, NEW p \in Paths \cup {DevNull},
           Parse(ParseText(mark, kind, p))
    PROVE  /\ cur' \in Paths \cup {NoFile}
           /\ newLine' \in Nat
           /\ entries' \subseteq Paths
           /\ added' \subseteq Paths \X Nat
           /\ stopped' \in BOOLEAN
<1>1. CASE UNCHANGED parseVars
  BY <1>1 DEF TypeOK
<1>2. CASE ParseTooLong
  BY <1>2 DEF TypeOK, ParseTooLong
<1>3. CASE ParseName(p)
  BY <1>3 DEF TypeOK, ParseName
<1>4. CASE ParseAdded
  BY <1>4 DEF TypeOK, ParseAdded
<1>5. CASE ParseContext
  BY <1>5 DEF TypeOK, ParseContext
<1>6. QED
  BY <1>1, <1>2, <1>3, <1>4, <1>5 DEF Parse, ParseText, ParseSkip

\* Only a line that reads as added can add to the parser's lines, and only one that reads
\* as a name can empty an entry.
LEMMA ParseTextEffect ==
    ASSUME TypeOK, NEW mark \in Marks, NEW kind, NEW p \in Paths \cup {DevNull},
           ~stopped, ParseText(mark, kind, p)
    PROVE  \/ /\ mark = "+" /\ kind = "pluses" /\ ParseName(p)
           \/ /\ mark = "+" /\ ~stopped' /\ ParseAdded
           \/ /\ mark = " " /\ ~stopped' /\ ParseContext
           \/ /\ mark = "-" /\ UNCHANGED parseVars
           \/ /\ stopped' /\ UNCHANGED <<cur, newLine, entries, added>>
<1>1. CASE ReadsAs(mark, kind) = "long" /\ ParseTooLong
  BY <1>1 DEF ParseTooLong
<1>2. CASE ReadsAs(mark, kind) = "+++ " /\ ParseName(p)
  BY <1>2 DEF ReadsAs, Marks
<1>3. CASE ReadsAs(mark, kind) = "+" /\ ParseAdded
  BY <1>3 DEF ReadsAs, Marks, ParseAdded
<1>4. CASE ReadsAs(mark, kind) = " " /\ ParseContext
  BY <1>4 DEF ReadsAs, Marks, ParseContext
<1>5. CASE ReadsAs(mark, kind) \in {"--- ", "-"} /\ ParseSkip
  BY <1>5 DEF ReadsAs, Marks, ParseSkip
<1>6. QED
  BY <1>1, <1>2, <1>3, <1>4, <1>5 DEF ParseText
-----------------------------------------------------------------------------
(* Types. *)

\* The initial values have their types.
LEMMA TypeInit == Init => TypeOK
<1>1. 0 \in 0..MaxLine
  BY ParserAssumption
<1>2. Init => mode \in Modes /\ section \in Files \cup {NoFile} /\ at \in Nat /\ room \in 0..MaxLine
  BY <1>1 DEF Init, Modes
<1>3. Init => touched \subseteq Files /\ truth \subseteq Files \X Nat /\ spoiled \subseteq Paths
  BY DEF Init
<1>4. Init => /\ cur \in Paths \cup {NoFile} /\ newLine \in Nat
              /\ entries \subseteq Paths /\ added \subseteq Paths \X Nat
  BY DEF Init
<1>5. Init => stopped \in BOOLEAN
  BY DEF Init
<1>6. QED
  BY <1>2, <1>3, <1>4, <1>5 DEF TypeOK

\* Every step keeps the types.
LEMMA TypeStep == TypeOK /\ Sections /\ [Next]_vars => TypeOK'
<1> SUFFICES ASSUME TypeOK, Sections, [Next]_vars PROVE TypeOK'
  OBVIOUS
<1>1. ASSUME NEW f \in Files, Section(f) PROVE TypeOK'
  BY <1>1 DEF TypeOK, Modes, Section, Parse, ParseSection
<1>2. ASSUME NEW gone \in BOOLEAN, Names(gone) PROVE TypeOK'
  <2>1. section \in Files /\ Name[section] \in Paths
    BY <1>2, ParserAssumption DEF Sections, Names
  <2>2. QED
    BY <1>2, <2>1 DEF TypeOK, Modes, Names, Parse, ParseName
<1>3. ASSUME NEW n \in 0..MaxLine, NEW from \in 1..MaxLine, Hunk(n, from) PROVE TypeOK'
  <2>1. /\ n \in Nat /\ n <= MaxLine /\ from \in Nat /\ from - 1 \in Nat
    BY ParserAssumption
  <2>2. mode' \in Modes /\ at' \in Nat /\ room' \in 0..MaxLine
    BY <1>3, <2>1 DEF TypeOK, Modes, Hunk
  <2>3. QED
    BY <1>3, <2>1, <2>2 DEF TypeOK, Hunk, Parse, ParseHunk
<1>4. ASSUME NEW mark \in Marks, NEW kind \in Kinds, NEW p \in Paths \cup {DevNull}, Text(mark, kind, p)
      PROVE  TypeOK'
  <2>1. section \in Files /\ Name[section] \in Paths
    BY <1>4, ParserAssumption DEF Sections, Text
  <2>2. at' \in Nat /\ room' \in 0..MaxLine
    BY <1>4, ParserAssumption DEF TypeOK, Text
  <2>3. truth' \subseteq Files \X Nat /\ spoiled' \subseteq Paths
    BY <1>4, <2>1 DEF TypeOK, Text
  <2>4. QED
    BY <1>4, <2>1, <2>2, <2>3, ParseTextType DEF TypeOK, Text
<1>5. CASE NoNewline
  BY <1>5 DEF TypeOK, NoNewline, Parse, ParseRemark
<1>6. CASE End
  BY <1>6 DEF TypeOK, Modes, End
<1>7. CASE UNCHANGED vars
  BY <1>7 DEF TypeOK, vars
<1>8. QED
  <2>1. ASSUME NEW kind, NEW p \in IF kind = "pluses" THEN Paths \cup {DevNull} ELSE {DevNull}
        PROVE  p \in Paths \cup {DevNull}
    OBVIOUS
  <2>2. QED
    BY <1>1, <1>2, <1>3, <1>4, <1>5, <1>6, <1>7, <2>1 DEF Next
-----------------------------------------------------------------------------
(* Where git is. *)

\* Every step keeps Fresh and Sections.
LEMMA GitStep == TypeOK /\ Fresh /\ Sections /\ [Next]_vars => Fresh' /\ Sections'
<1> SUFFICES ASSUME TypeOK, Fresh, Sections, [Next]_vars PROVE Fresh' /\ Sections'
  OBVIOUS
<1>1. ASSUME NEW f \in Files, Section(f) PROVE Fresh' /\ Sections'
  BY <1>1 DEF Fresh, Sections, Section
<1>2. ASSUME NEW gone \in BOOLEAN, Names(gone) PROVE Fresh' /\ Sections'
  BY <1>2 DEF Fresh, Sections, Names
<1>3. ASSUME NEW n \in 0..MaxLine, NEW from \in 1..MaxLine, Hunk(n, from) PROVE Fresh' /\ Sections'
  BY <1>3 DEF Fresh, Sections, Hunk
<1>4. ASSUME NEW mark \in Marks, NEW kind \in Kinds, NEW p, Text(mark, kind, p)
      PROVE  Fresh' /\ Sections'
  <2>1. mode \in {"hunk", "gone"} /\ mode' = mode /\ section' = section /\ touched' = touched
    BY <1>4 DEF Text
  <2>2. section \in touched
    BY <2>1 DEF Sections
  <2>3. QED
    BY <1>4, <2>1, <2>2 DEF Fresh, Sections, Text
<1>5. CASE NoNewline
  BY <1>5 DEF Fresh, Sections, NoNewline
<1>6. CASE End
  BY <1>6 DEF Fresh, Sections, End
<1>7. CASE UNCHANGED vars
  BY <1>7 DEF Fresh, Sections, vars
<1>8. QED
  BY <1>1, <1>2, <1>3, <1>4, <1>5, <1>6, <1>7 DEF Next
-----------------------------------------------------------------------------
(* The parser keeps in step with git, and what it has noted agrees with the truth. *)

\* A step that ends or begins a section, or changes nothing of note.
LEMMA QuietStep ==
    ASSUME IInv,
           truth' = truth /\ spoiled' = spoiled /\ added' = added /\ stopped' = stopped,
           \/ mode' \notin {"named", "hunk"}
           \/ /\ mode' = mode /\ section' = section /\ at' = at
              /\ room' = room /\ cur' = cur /\ newLine' = newLine
    PROVE  InStep' /\ Agree'
BY DEF IInv, InStep, Agree

\* The names of a section: the entry is new, whatever was at its path before.
LEMMA NamesStep ==
    ASSUME IInv, NEW gone \in BOOLEAN, Names(gone)
    PROVE  InStep' /\ Agree'
<1>1. section \in Files /\ Name[section] \in Paths /\ room = 0
  BY ParserAssumption DEF IInv, Sections, Names
<1>2. CASE gone \/ stopped
  <2>1. UNCHANGED <<truth, spoiled, added, stopped>>
    BY <1>2 DEF Names, Parse, ParseName
  <2>2. ~(mode' \in {"named", "hunk"} /\ ~stopped')
    BY <1>2, <2>1 DEF Names
  <2>3. QED
    BY <2>1, <2>2 DEF IInv, InStep, Agree
<1>3. CASE ~gone /\ ~stopped
  <2>1. /\ cur' = Name[section] /\ section' = section /\ room' = 0 /\ truth' = truth
        /\ added' = {e \in added : e[1] # Name[section]}
        /\ spoiled' = spoiled \ {Name[section]}
        /\ ~stopped'
    BY <1>1, <1>3, ParserAssumption DEF Names, Parse, ParseName
  <2>2. InStep'
    BY <2>1 DEF InStep
  <2>3. ASSUME NEW f \in Files, Name[f] \notin spoiled', NEW l \in Nat
        PROVE  <<Name[f], l>> \in added' <=> <<f, l>> \in truth'
    <3>1. CASE f = section
      <4>1. <<f, l>> \notin truth
        BY <3>1 DEF IInv, Fresh, Names
      <4>2. QED
        BY <2>1, <3>1, <4>1
    <3>2. CASE f # section
      <4>1. Name[f] # Name[section]
        BY <1>1, <3>2, ParserAssumption
      <4>2. Name[f] \notin spoiled
        BY <2>1, <2>3, <4>1
      <4>3. QED
        BY <1>3, <2>1, <4>1, <4>2 DEF IInv, Agree
    <3>3. QED
      BY <3>1, <3>2
  <2>4. QED
    BY <2>2, <2>3 DEF Agree
<1>4. QED
  BY <1>2, <1>3

\* A hunk header: the count is set to what it says, which matters if lines follow.
LEMMA HunkStep ==
    ASSUME IInv, NEW n \in 0..MaxLine, NEW from \in 1..MaxLine, Hunk(n, from)
    PROVE  InStep' /\ Agree'
<1>1. UNCHANGED <<section, truth, spoiled, added, cur, stopped>>
  BY DEF Hunk, Parse, ParseHunk
<1>2. Agree'
  BY <1>1 DEF IInv, Agree
<1>3. ASSUME mode' = "hunk", ~stopped
      PROVE  mode \in {"named", "hunk"} /\ (room' > 0 => newLine' = at')
  BY <1>3, ParserAssumption DEF Hunk, Parse, ParseHunk
<1>4. mode' \in {"hunk", "gone"}
  BY DEF Hunk
<1>5. QED
  BY <1>1, <1>2, <1>3, <1>4 DEF IInv, InStep

\* A line of text.
LEMMA TextStep ==
    ASSUME IInv, NEW mark \in Marks, NEW kind \in Kinds, NEW p \in Paths \cup {DevNull},
           Text(mark, kind, p)
    PROVE  InStep' /\ Agree'
<1>1. /\ section \in Files /\ Name[section] \in Paths
      /\ room \in Nat /\ at \in Nat /\ newLine \in Nat
      /\ mode' = mode /\ section' = section
      /\ mark # "-" => room > 0 /\ mode = "hunk"
      /\ truth' = IF mark = "+" THEN truth \cup {<<section, at>>} ELSE truth
      /\ spoiled \subseteq spoiled'
  <2>1. section \in Files /\ mode' = mode /\ section' = section /\ spoiled \subseteq spoiled'
    BY DEF IInv, Sections, Text
  <2>2. room \in Nat /\ at \in Nat /\ newLine \in Nat /\ Name[section] \in Paths
    BY <2>1, ParserAssumption DEF IInv, TypeOK
  <2>3. mark # "-" => room > 0 /\ mode = "hunk"
    BY <2>2 DEF IInv, Sections, Text
  <2>4. QED
    BY <2>1, <2>2, <2>3 DEF Text
<1>2. CASE stopped
  <2>1. UNCHANGED parseVars /\ stopped' /\ truth \subseteq truth'
    BY <1>1, <1>2 DEF Text, Parse
  <2>2. QED
    BY <1>1, <1>2, <2>1 DEF IInv, InStep, Agree
<1>3. CASE ~stopped /\ stopped' /\ UNCHANGED <<cur, newLine, entries, added>>
  <2>1. truth \subseteq truth'
    BY <1>1
  <2>2. QED
    BY <1>1, <1>3, <2>1 DEF IInv, InStep, Agree
<1>4. CASE ~stopped /\ mark = "+" /\ kind = "pluses" /\ ParseName(p)
  <2>1. spoiled' = spoiled \cup {Name[section]} \cup ({p} \cap Paths) /\ stopped' = stopped
    BY <1>4 DEF Text, ParseName
  <2>2. InStep'
    BY <1>1, <1>4, <2>1 DEF InStep, ParseName
  <2>3. ASSUME NEW f \in Files, Name[f] \notin spoiled', NEW l \in Nat
        PROVE  <<Name[f], l>> \in added' <=> <<f, l>> \in truth'
    <3>1. f # section /\ Name[f] # p /\ Name[f] \notin spoiled
      BY <2>1, <2>3, ParserAssumption
    <3>2. <<Name[f], l>> \in added' <=> <<Name[f], l>> \in added
      BY <1>4, <3>1 DEF ParseName
    <3>3. <<f, l>> \in truth' <=> <<f, l>> \in truth
      BY <1>1, <3>1
    <3>4. QED
      BY <1>4, <3>1, <3>2, <3>3 DEF IInv, Agree
  <2>4. QED
    BY <2>2, <2>3 DEF Agree
<1>5. CASE ~stopped /\ mark = "+" /\ ~stopped' /\ ParseAdded
  <2>1. mode = "hunk" /\ room > 0 /\ at' = at + 1 /\ room' = room - 1
    BY <1>1, <1>5 DEF Text
  <2>2. /\ cur \in {Name[section], NoFile} \cup spoiled
        /\ Name[section] \notin spoiled => cur = Name[section] /\ newLine = at
    BY <1>5, <2>1 DEF IInv, InStep
  <2>3. InStep'
    BY <1>1, <1>5, <2>1, <2>2, ParserAssumption DEF InStep, ParseAdded
  <2>4. ASSUME NEW f \in Files, Name[f] \notin spoiled', NEW l \in Nat
        PROVE  <<Name[f], l>> \in added' <=> <<f, l>> \in truth'
    <3>1. Name[f] \notin spoiled /\ Name[f] \in Paths
      BY <1>1, <2>4, ParserAssumption
    <3>2. <<Name[f], l>> \in added <=> <<f, l>> \in truth
      BY <1>5, <3>1 DEF IInv, Agree
    <3>3. CASE f = section
      <4>1. cur = Name[f] /\ cur # NoFile /\ newLine = at
        BY <2>2, <3>1, <3>3, ParserAssumption
      <4>2. added' = added \cup {<<Name[f], at>>} /\ truth' = truth \cup {<<f, at>>}
        BY <1>1, <1>5, <3>3, <4>1 DEF ParseAdded
      <4>3. QED
        BY <3>2, <4>2
    <3>4. CASE f # section
      <4>1. Name[f] # cur
        BY <1>1, <2>2, <3>1, <3>4, ParserAssumption
      <4>2. QED
        BY <1>1, <1>5, <3>2, <3>4, <4>1 DEF ParseAdded
    <3>5. QED
      BY <3>3, <3>4
  <2>5. QED
    BY <2>3, <2>4 DEF Agree
<1>6. CASE ~stopped /\ mark = " " /\ ~stopped' /\ ParseContext
  <2>1. /\ truth' = truth /\ added' = added /\ spoiled' = spoiled /\ cur' = cur
        /\ mode = "hunk" /\ room > 0 /\ at' = at + 1 /\ room' = room - 1
    <3>1. mark # "+" /\ mark # "-"
      BY <1>6
    <3>2. QED
      BY <1>1, <1>6, <3>1 DEF Text, ParseContext
  <2>2. InStep'
    BY <1>1, <1>6, <2>1, ParserAssumption DEF IInv, InStep, ParseContext
  <2>3. QED
    BY <1>6, <2>1, <2>2 DEF IInv, Agree
<1>7. CASE ~stopped /\ mark = "-" /\ UNCHANGED parseVars
  <2>1. truth' = truth /\ spoiled' = spoiled /\ at' = at /\ room' = room
    BY <1>1, <1>7 DEF Text
  <2>2. QED
    BY <1>1, <1>7, <2>1 DEF IInv, InStep, Agree
<1>8. QED
  BY <1>2, <1>3, <1>4, <1>5, <1>6, <1>7, ParseTextEffect DEF IInv, Text, Parse

\* Every step keeps Known.
LEMMA KnownStep == IInv /\ [Next]_vars => Known'
<1> SUFFICES ASSUME IInv, [Next]_vars PROVE Known'
  OBVIOUS
<1>1. CASE added' \subseteq added /\ spoiled \subseteq spoiled'
  BY <1>1 DEF IInv, Known
<1>2. ASSUME NEW f \in Files, Section(f) PROVE Known'
  BY <1>1, <1>2 DEF Section, Parse, ParseSection
<1>3. ASSUME NEW gone \in BOOLEAN, Names(gone) PROVE Known'
  <2>1. section \in Files
    BY <1>3 DEF IInv, Sections, Names
  <2>2. added' \subseteq added /\ spoiled \subseteq spoiled' \cup {Name[section]}
    BY <1>3 DEF Names, Parse, ParseName
  <2>3. QED
    BY <2>1, <2>2 DEF IInv, Known
<1>4. ASSUME NEW n \in 0..MaxLine, NEW from \in 1..MaxLine, Hunk(n, from) PROVE Known'
  BY <1>1, <1>4 DEF Hunk, Parse, ParseHunk
<1>5. ASSUME NEW mark \in Marks, NEW kind \in Kinds, NEW p \in Paths \cup {DevNull},
             Text(mark, kind, p)
      PROVE  Known'
  <2>1. spoiled \subseteq spoiled'
    BY <1>5 DEF Text
  <2>2. CASE ~stopped /\ mark = "+" /\ ParseAdded
    <3>1. section \in Files /\ mode = "hunk"
      BY <1>5, <2>2 DEF IInv, TypeOK, Sections, Text
    <3>2. cur \in {Name[section], NoFile} \cup spoiled
      BY <2>2, <3>1 DEF IInv, InStep
    <3>3. \A e \in added' : e \in added \/ (e[1] = cur /\ cur # NoFile)
      BY <2>2 DEF ParseAdded
    <3>4. QED
      BY <2>1, <3>1, <3>2, <3>3 DEF IInv, Known
  <2>3. CASE ParseName(p) \/ ParseContext \/ UNCHANGED added
    BY <1>1, <2>1, <2>3 DEF ParseName, ParseContext
  <2>4. QED
    BY <1>5, <2>2, <2>3, ParseTextEffect DEF IInv, Text, Parse
<1>6. CASE NoNewline
  BY <1>1, <1>6 DEF NoNewline, Parse, ParseRemark
<1>7. CASE End
  BY <1>1, <1>7 DEF End
<1>8. CASE UNCHANGED vars
  BY <1>1, <1>8 DEF vars
<1>9. QED
  <2>1. ASSUME NEW kind, NEW p \in IF kind = "pluses" THEN Paths \cup {DevNull} ELSE {DevNull}
        PROVE  p \in Paths \cup {DevNull}
    OBVIOUS
  <2>2. QED
    BY <1>2, <1>3, <1>4, <1>5, <1>6, <1>7, <1>8, <2>1 DEF Next

\* The inductive invariant.
LEMMA InvStep == IInv /\ [Next]_vars => IInv'
<1> SUFFICES ASSUME IInv, [Next]_vars PROVE IInv'
  OBVIOUS
<1>1. TypeOK' /\ Fresh' /\ Sections'
  BY TypeStep, GitStep DEF IInv
<1> SUFFICES InStep' /\ Agree'
  BY <1>1, KnownStep DEF IInv
<1>2. ASSUME NEW f \in Files, Section(f) PROVE InStep' /\ Agree'
  BY <1>2, QuietStep DEF Section, Parse, ParseSection
<1>3. ASSUME NEW mark \in Marks, NEW kind \in Kinds,
             NEW p \in IF kind = "pluses" THEN Paths \cup {DevNull} ELSE {DevNull},
             Text(mark, kind, p)
      PROVE  InStep' /\ Agree'
  <2>1. p \in Paths \cup {DevNull}
    OBVIOUS
  <2>2. QED
    BY <1>3, <2>1, TextStep
<1>4. CASE NoNewline
  <2>1. /\ truth' = truth /\ spoiled' = spoiled /\ added' = added /\ stopped' = stopped
        /\ mode' = mode /\ section' = section /\ at' = at
        /\ room' = room /\ cur' = cur /\ newLine' = newLine
    BY <1>4 DEF NoNewline, Parse, ParseRemark
  <2>2. QED
    BY <2>1, QuietStep
<1>5. CASE End
  <2>1. /\ truth' = truth /\ spoiled' = spoiled /\ added' = added /\ stopped' = stopped
        /\ mode' \notin {"named", "hunk"}
    BY <1>5 DEF End
  <2>2. QED
    BY <2>1, QuietStep
<1>6. CASE UNCHANGED vars
  <2>1. /\ truth' = truth /\ spoiled' = spoiled /\ added' = added /\ stopped' = stopped
        /\ mode' = mode /\ section' = section /\ at' = at
        /\ room' = room /\ cur' = cur /\ newLine' = newLine
    BY <1>6 DEF vars
  <2>2. QED
    BY <2>1, QuietStep
<1>7. QED
  BY <1>2, <1>3, <1>4, <1>5, <1>6, NamesStep, HunkStep DEF Next

\* What is proved below rests on this invariant.
LEMMA Invariance == Spec => []IInv
<1>1. Init => IInv
  BY TypeInit DEF Init, IInv, Fresh, Sections, InStep, Agree, Known
<1>2. QED
  BY <1>1, InvStep, PTL DEF Spec
-----------------------------------------------------------------------------
\* Every variable keeps its type, for every set of files and every way to write names.
THEOREM TypeCorrect == Spec => []TypeOK
BY Invariance, PTL DEF IInv

\* IsAddedLine says yes to added lines only: for every diff, every length and number of
\* hunks, in every file whose entry no added line that looks like a header interfered with.
THEOREM OnlyAddedLinesAlways == Spec => []OnlyAddedLines
<1>1. IInv => OnlyAddedLines
  <2> SUFFICES ASSUME IInv, NEW e \in added, e[1] \in Files, e[1] \notin spoiled PROVE e \in truth
    BY DEF OnlyAddedLines
  <2>1. PICK q \in Paths, l \in Nat : e = <<q, l>>
    BY DEF IInv, TypeOK
  <2>2. PICK f \in Files : q = Name[f]
    BY <2>1 DEF IInv, Known
  <2>3. f = q
    BY <2>1, <2>2, ParserAssumption
  <2>4. QED
    BY <2>1, <2>2, <2>3 DEF IInv, Agree
<1>2. QED
  BY <1>1, Invariance, PTL

\* IsAddedLine says yes to every added line, unless the parser stopped at a line too long.
THEOREM AllAddedLinesAlways == Spec => []AllAddedLines
<1>1. IInv => AllAddedLines
  <2> SUFFICES ASSUME IInv, ~stopped, NEW e \in truth, Name[e[1]] = e[1], e[1] \notin spoiled
               PROVE  e \in added
    BY DEF AllAddedLines
  <2>1. PICK f \in Files, l \in Nat : e = <<f, l>>
    BY DEF IInv, TypeOK
  <2>2. QED
    BY <2>1 DEF IInv, Agree
<1>2. QED
  BY <1>1, Invariance, PTL
=============================================================================
