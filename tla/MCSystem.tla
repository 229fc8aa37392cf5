------------------------------- MODULE MCSystem -------------------------------
(***************************************************************************)
(* An instance of System for TLC: two processes one after the other, each  *)
(* with two clients.  A client of the first sends two entries, one of the  *)
(* second says nothing that would be stored.  A report has two bytes: TCP  *)
(* delivers it whole or cuts it in two.                                    *)
(***************************************************************************)
EXTENDS System

Atoi == [t \in {"", "Zoom", "Pan", "0", "2", "7"} |->
           CASE t = "2" -> 2 [] t = "7" -> 7 [] OTHER -> 0]

Word(command, count) == [left |-> command, comma |-> TRUE, right |-> count]
Entry(module, words) == [keys |-> TRUE, module |-> module, words |-> words]
Report(entries) == [parses |-> TRUE, header |-> TRUE, entries |-> entries]

TwoEntries ==
  Report(<<Entry("Road", <<Word("Zoom", "2"), Word("Pan", "7")>>), Entry("Water", <<Word("Pan", "2")>>)>>)
Road == Report(<<Entry("Road", <<Word("Zoom", "7")>>)>>)
Water == Report(<<Entry("Water", <<Word("Zoom", "7")>>)>>)
Unusable == Report(<<Entry("Road", <<Word("Zoom", "0")>>)>>)

TwoProcesses == <<<<TwoEntries, Road>>, <<Unusable, Water>>>>
NotJson == [Report(<<>>) EXCEPT !.parses = FALSE]
Two == {2}
=============================================================================
