------------------------------ MODULE ReportText ------------------------------
(***************************************************************************)
(* What the text of a report decides, as Utilities/SqlUtils.cpp reads it:  *)
(* does it parse, has it the header's keys with the right types, and its   *)
(* analytics entries.  A word of an entry's usage is what stands left and  *)
(* right of its first comma.  Module Analytics says which texts the        *)
(* clients of this repository write.                                       *)
(***************************************************************************)
EXTENDS Integers, Sequences

CONSTANT Number   \* std::atoi, as a function on the texts of the reports

Words == [left : STRING, comma : BOOLEAN, right : STRING]
Entries == [keys : BOOLEAN, module : STRING, words : Seq(Words)]
Texts == [parses : BOOLEAN, header : BOOLEAN, entries : Seq(Entries)]

tableNames ==
  [Survey |-> "SurveyTbl", Terrain |-> "TerrainTbl", Road |-> "RoadTbl",
   Sewer |-> "SewerTbl", Storm |-> "StormTbl", Water |-> "WaterTbl",
   Signage |-> "SignageTbl"]

FindTableName(moduleName) ==
  IF moduleName \in DOMAIN tableNames THEN tableNames[moduleName] ELSE ""

(* substr(found + 1) of a word without a comma is the whole word again. *)
Second(word) == IF word.comma THEN word.right ELSE word.left

Usable(word) == word.left # "" /\ Second(word) # "" /\ Number[Second(word)] # 0

(* The rows of the bulk insert for entry j of report r, but for their id.  *)
(* The positions keep rows apart that hold the same values.                *)
Lines(r, j) ==
  LET e == r.entries[j]
  IN  IF FindTableName(e.module) = "" THEN {}
      ELSE {[table |-> FindTableName(e.module), Command |-> e.words[i].left,
             Count |-> Number[Second(e.words[i])], entry |-> j, word |-> i] :
              i \in {w \in DOMAIN e.words : Usable(e.words[w])}}
=============================================================================
