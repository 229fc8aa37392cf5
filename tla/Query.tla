--------------------------------- MODULE Query ---------------------------------
(***************************************************************************)
(* Query/Query.cpp: it reads the report database in eight statements for   *)
(* --since and seven for --stats, one after the other, each of which sees  *)
(* what was committed before it.  Nothing makes them a transaction.  The   *)
(* database belongs to others and only grows.                              *)
(*                                                                         *)
(* An operator commented "Slip" is a wrong version of the one below it,    *)
(* kept to show that some property notices the mistake.                    *)
(***************************************************************************)
EXTENDS Integers, SequencesExt

CONSTANTS
  timestamp,   \* the argument of --since
  limit        \* the argument of --limit

VARIABLES
  options,         \* the options given, "since" and "stats"
  at,              \* one of steps, or "failed"
  instanceCount,   \* what was printed of InstanceTbl
  recordCounts,    \* what was printed of each table, in the order of tableNames
  inUse,           \* what was printed of each table's commands, in that order
  DateTime,        \* database: the times of InstanceTbl, by id
  rows             \* database: the rows of the module tables

printed == <<instanceCount, recordCounts, inUse>>

tableNames ==
  <<"SewerTbl", "SurveyTbl", "TerrainTbl", "RoadTbl", "StormTbl", "WaterTbl", "SignageTbl">>

(* Without an option there is nothing to do but to print a help text. *)
Asked(step) ==
  \/ step = "connecting" /\ options # {}
  \/ step \in {"instances", "records"} /\ "since" \in options
  \/ step = "stats" /\ "stats" \in options
  \/ step = "done"

(* Slip: InstanceTbl is counted after its records. *)
steps_InstancesLast == <<"connecting", "records", "instances", "stats", "done">>

(* The order of main and PrintRecordsSince. *)
steps == <<"connecting", "instances", "records", "stats", "done">>

(* The first of these that was asked for. *)
FirstOf(positions) == steps[Min({i \in positions : Asked(steps[i])})]

Init ==
  /\ options \in SUBSET {"since", "stats"}
  /\ at = FirstOf(DOMAIN steps)
  /\ instanceCount = 0 /\ recordCounts = <<>> /\ inUse = <<>>

After(step) == FirstOf({i \in DOMAIN steps : \E j \in 1 .. i - 1 : steps[j] = step})

Connect ==
  /\ at = "connecting" /\ at' = After(at)
  /\ UNCHANGED printed

-----------------------------------------------------------------------------
(* PrintRecordsSince *)
Since == {id \in DOMAIN DateTime : DateTime[id] > timestamp}

CountInstances ==
  /\ at = "instances" /\ at' = After(at)
  /\ instanceCount' = Cardinality(Since)
  /\ UNCHANGED <<recordCounts, inUse>>

(* The next table, joined with InstanceTbl. *)
CountRecords ==
  LET next == Len(recordCounts) + 1
  IN  /\ at = "records"
      /\ recordCounts' = Append(recordCounts, Cardinality(
           {row \in rows : row.line.table = tableNames[next] /\ row.InstanceID \in Since}))
      /\ at' = IF next = Len(tableNames) THEN After(at) ELSE at
      /\ UNCHANGED <<instanceCount, inUse>>

-----------------------------------------------------------------------------
(* PrintInUseStats *)
Uses(table, command) == {row \in rows : row.line.table = table /\ row.line.Command = command}

(* Slip: COUNT for SUM. *)
Sum_OfRows(table, command) == Cardinality(Uses(table, command))

Sum(table, command) == SumFunction([row \in Uses(table, command) |-> row.line.Count])

(* GROUP BY Command ORDER BY Sum DESC LIMIT n, where equals come in any order. *)
MostUsed(table) ==
  LET commands == {row.line.Command : row \in {r \in rows : r.line.table = table}}
      sums == {[command |-> c, sum |-> Sum(table, c)] : c \in commands}
      ranked == {s \in SetToSeqs(sums) :
                   \A i, j \in DOMAIN s : i < j => s[i].sum >= s[j].sum}
  IN  {SubSeq(s, 1, Min({limit, Len(s)})) : s \in ranked}

PrintInUse ==
  LET next == Len(inUse) + 1
  IN  /\ at = "stats"
      /\ \E answer \in MostUsed(tableNames[next]) : inUse' = Append(inUse, answer)
      /\ at' = IF next = Len(tableNames) THEN After(at) ELSE at
      /\ UNCHANGED <<instanceCount, recordCounts>>

(* main catches what ConnectToDatabase throws, and nothing else. *)
Fail ==
  /\ at \notin {"done", "failed"} /\ at' = "failed"
  /\ UNCHANGED printed

Next ==
  /\ Connect \/ CountInstances \/ CountRecords \/ PrintInUse \/ Fail
  /\ UNCHANGED options
=============================================================================
