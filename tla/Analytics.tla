------------------------------- MODULE Analytics -------------------------------
(***************************************************************************)
(* Utilities/Analytics.{h,cpp} and Commands.cpp: a client program counts   *)
(* the commands of its user, module by module, and turns the counts into   *)
(* the text of a report.  An Analytics object belongs to one thread, so it *)
(* is a value here, the sequence m_data of its ModuleAnalytics, and its    *)
(* functions are operators that return the object as they leave it.        *)
(*                                                                         *)
(* An operator commented "Slip" is a wrong version of the one below it,    *)
(* kept to show that some property notices the mistake.                    *)
(***************************************************************************)
EXTENDS Integers, SequencesExt

CONSTANT allCommands   \* the commands of every module

moduleNames ==
  [SURVEY_ID |-> "Survey", TERRAIN_ID |-> "Terrain", ROAD_ID |-> "Road",
   SEWER_ID |-> "Sewer", STORM_ID |-> "Storm", WATER_ID |-> "Water",
   SIGNAGE_ID |-> "Signage"]

(* Any commands, repetitions included.  No vector has a negative size, nor *)
(* the huge one that such a number turns into: the constructor throws.     *)
SelectionThrows(count) == count < 0
GetCommandSelection(id, count) == [1 .. count -> allCommands[id]]

ModuleAnalytics(id) == [m_id |-> id, m_commands |-> <<>>, m_usage |-> [c \in {} |-> 0]]

(* The position of a module's object, 0 for end(). *)
Find(m_data, id) == SelectInSeq(m_data, LAMBDA m : m.m_id = id)

AddCommands(m_data, id, commands) ==
  LET data == IF Find(m_data, id) = 0 THEN Append(m_data, ModuleAnalytics(id)) ELSE m_data
  IN  [data EXCEPT ![Find(data, id)].m_commands = @ \o commands]

(* Slip: "= 1" for "++". *)
CountCommand_Once(m_usage, command) ==
  [c \in DOMAIN m_usage \cup {command} |-> IF c = command THEN 1 ELSE m_usage[c]]

(* m_usage[command]++ *)
CountCommand(m_usage, command) ==
  [c \in DOMAIN m_usage \cup {command} |->
     (IF c \in DOMAIN m_usage THEN m_usage[c] ELSE 0) + (IF c = command THEN 1 ELSE 0)]

GatherUsage(m_data) ==
  [i \in DOMAIN m_data |->
     [m_data[i] EXCEPT !.m_usage = FoldLeft(CountCommand, @, m_data[i].m_commands),
                       !.m_commands = <<>>]]

UsageWord(m_usage, command) ==
  [left |-> command, comma |-> TRUE, right |-> ToString(m_usage[command])]

(* ModuleAnalytics::ToString and ToJson; the order of an unordered_map is  *)
(* nobody's business.                                                      *)
ModuleToJson(module) ==
  {[keys |-> TRUE, module |-> moduleNames[module.m_id],
    words |-> [i \in DOMAIN order |-> UsageWord(module.m_usage, order[i])]] :
      order \in SetToSeqs(DOMAIN module.m_usage)}

(* Analytics::ToJson, as the texts of module ReportText. *)
ToJson(m_data) ==
  LET entries == [i \in DOMAIN m_data |-> ModuleToJson(m_data[i])]
  IN  {[parses |-> TRUE, header |-> TRUE, entries |-> e] :
         e \in {f \in [DOMAIN m_data -> UNION Range(entries)] :
                  \A i \in DOMAIN m_data : f[i] \in entries[i]}}
=============================================================================
