--------------------------- MODULE MCInsertDatabase ---------------------------
(***************************************************************************)
(* Instances of InsertDatabase for TLC.  Between them the reports take     *)
(* every path of the function: text that does not parse, a missing header  *)
(* key, a missing entry key, an unknown module, no entries, words that are *)
(* skipped for each of the three reasons, a word without a comma that is   *)
(* all digits, a negative count, a repeated word, two modules at once.     *)
(***************************************************************************)
EXTENDS InsertDatabase

Word(left, right) == [left |-> left, comma |-> TRUE, right |-> right]
Bare(text) == [left |-> text, comma |-> FALSE, right |-> ""]
Entry(module, words) == [keys |-> TRUE, module |-> module, words |-> words]
Report(entries) == [parses |-> TRUE, header |-> TRUE, entries |-> entries]

Atoi == [t \in {"", "Pan", "Zoom", "0", "2", "7", "-1"} |->
           CASE t = "2" -> 2 [] t = "7" -> 7 [] t = "-1" -> -1 [] OTHER -> 0]

Garbage == [Report(<<>>) EXCEPT !.parses = FALSE]
Headless == [Report(<<Entry("Road", <<Word("Zoom", "2")>>)>>) EXCEPT !.header = FALSE]
Empty == Report(<<>>)
Unusable ==
  Report(<<Entry("Bridge", <<Word("Zoom", "2")>>),
           Entry("Road", <<Word("", "2"), Word("Zoom", ""), Word("Pan", "0"), Bare("Zoom")>>)>>)
TwoModules ==
  Report(<<Entry("Road", <<Word("Zoom", "2"), Bare("7"), Word("Zoom", "2")>>),
           Entry("Sewer", <<>>),
           Entry("Water", <<Word("Pan", "-1"), Word("Pan", "0")>>)>>)
Keyless ==
  Report(<<Entry("Road", <<Word("Zoom", "2")>>),
           [Entry("Storm", <<Word("Pan", "7")>>) EXCEPT !.keys = FALSE]>>)

AllReports == {Garbage, Headless, Empty, Unusable, TwoModules, Keyless}
=============================================================================
