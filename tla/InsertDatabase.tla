---------------------------- MODULE InsertDatabase ----------------------------
(***************************************************************************)
(* Utilities/SqlUtils.cpp, InsertDatabase: one report becomes one row of   *)
(* InstanceTbl and, for every usable word of its "analytics", one row of a *)
(* module's table, in one MySQL transaction.  The consumer thread calls it *)
(* for one report after another, over one connection.                      *)
(*                                                                         *)
(* What a report's text decides is in module ReportText.  An exception     *)
(* leaves Consume, so it ends the process (ProducerConsumer!InsertThrows); *)
(* MySQL rolls back the transaction of a connection that closes.           *)
(*                                                                         *)
(* An operator commented "Slip" is a wrong version of the one below it,    *)
(* kept to show that some property notices the mistake.                    *)
(***************************************************************************)
EXTENDS ReportText, FiniteSets

CONSTANTS
  Reports,        \* the reports that may be queued
  MaxId,          \* the largest id InstanceTbl can give: 2^32 - 1, smaller for TLC
  MayThrow,       \* whether a call of the connection may throw
  MayRefuse,      \* whether executeUpdate may return 0 instead
  NoReport        \* the value of report between two calls

ASSUME DatabaseAssumption ==
  /\ MaxId \in Nat \ {0}
  /\ MayThrow \in BOOLEAN /\ MayRefuse \in BOOLEAN
  /\ NoReport \notin Reports

ASSUME ReportAssumption == Reports \subseteq Texts

VARIABLES
  pc,             \* the next thing InsertDatabase does, "idle" between calls
  report,         \* json
  instanceID,
  numInserts,
  entry,          \* the position of v in subjson
  result,         \* what the last call returned
  terminated,     \* std::terminate was called
  autoCommit,     \* connection: is every statement its own transaction
  lastInsertId,   \* connection: LAST_INSERT_ID()
  txInstances,    \* connection: the InstanceTbl rows of the open transaction
  txRows,         \* connection: its rows of the module tables
  nextId,         \* database: AUTO_INCREMENT of InstanceTbl, never rolled back
  instances,      \* database: the committed rows of InstanceTbl
  rows            \* database: the committed rows of the module tables

locals == <<instanceID, numInserts, entry>>
committed == <<instances, rows>>
transaction == <<txInstances, txRows>>
vars == <<pc, report, locals, result, terminated, autoCommit, lastInsertId,
          transaction, nextId, committed>>

Init ==
  /\ pc = "idle" /\ report = NoReport
  /\ instanceID = 0 /\ numInserts = 0 /\ entry = 1 /\ result = 0
  /\ terminated = FALSE
  /\ autoCommit = TRUE /\ lastInsertId = 0
  /\ txInstances = {} /\ txRows = {}
  /\ nextId = 1
  /\ instances = {} /\ rows = {}

-----------------------------------------------------------------------------
(* The VALUES of a bulk insert *)
Rows(id, lines) == {[InstanceID |-> id, line |-> l] : l \in lines}

-----------------------------------------------------------------------------
(* The connection *)

Execute(newInstances, newRows) ==
  IF autoCommit
    THEN /\ instances' = instances \cup newInstances
         /\ rows' = rows \cup newRows
         /\ UNCHANGED transaction
    ELSE /\ txInstances' = txInstances \cup newInstances
         /\ txRows' = txRows \cup newRows
         /\ UNCHANGED committed

EmptyTransaction == txInstances' = {} /\ txRows' = {}

CommitTransaction ==
  /\ instances' = instances \cup txInstances
  /\ rows' = rows \cup txRows
  /\ EmptyTransaction

RollbackTransaction == EmptyTransaction /\ UNCHANGED committed

-----------------------------------------------------------------------------
(* InsertDatabase *)

At(point) == pc = point /\ ~terminated

Return(value) ==
  /\ pc' = "idle" /\ report' = NoReport
  /\ result' = value
  /\ UNCHANGED <<locals, terminated, autoCommit, lastInsertId, nextId>>

Call(r) ==
  /\ At("idle")
  /\ pc' = "parse" /\ report' = r
  /\ UNCHANGED <<locals, result, terminated, autoCommit, lastInsertId, transaction, nextId, committed>>

ParseError ==
  /\ At("parse") /\ ~report.parses
  /\ Return(0)
  /\ UNCHANGED <<transaction, committed>>

(* Slip: setAutoCommit(true). *)
StartTransaction_AutoCommit ==
  /\ At("parse") /\ report.parses
  /\ pc' = "instance" /\ autoCommit' = TRUE
  /\ UNCHANGED <<report, locals, result, terminated, lastInsertId, transaction, nextId, committed>>

StartTransaction ==
  /\ At("parse") /\ report.parses
  /\ pc' = "instance" /\ autoCommit' = FALSE
  /\ UNCHANGED <<report, locals, result, terminated, lastInsertId, transaction, nextId, committed>>

(* Slip: an id is given out whether or not the column can hold it. *)
InsertInstance_AnyId ==
  /\ At("instance") /\ report.header
  /\ pc' = "lastid"
  /\ Execute({[id |-> nextId, report |-> report]}, {})
  /\ nextId' = nextId + 1 /\ lastInsertId' = nextId
  /\ UNCHANGED <<report, locals, result, terminated, autoCommit>>

(* An id is used up even if the transaction is rolled back later. *)
InsertInstance ==
  /\ At("instance") /\ report.header /\ nextId <= MaxId
  /\ pc' = "lastid"
  /\ Execute({[id |-> nextId, report |-> report]}, {})
  /\ nextId' = nextId + 1 /\ lastInsertId' = nextId
  /\ UNCHANGED <<report, locals, result, terminated, autoCommit>>

(* Slip: LAST_INSERT_ID() is asked for whether or not a row was inserted. *)
InstanceRefused_AsksAnyway ==
  /\ At("instance") /\ report.header /\ MayRefuse
  /\ pc' = "lastid"
  /\ UNCHANGED <<report, locals, result, terminated, autoCommit, lastInsertId, transaction, nextId, committed>>

InstanceRefused ==
  /\ At("instance") /\ report.header /\ MayRefuse
  /\ pc' = "check" /\ instanceID' = 0
  /\ UNCHANGED <<report, numInserts, entry, result, terminated, autoCommit, lastInsertId, transaction, nextId, committed>>

LastInsertId ==
  /\ At("lastid")
  /\ pc' = "check" /\ instanceID' = lastInsertId
  /\ UNCHANGED <<report, numInserts, entry, result, terminated, autoCommit, lastInsertId, transaction, nextId, committed>>

NoInstance ==
  /\ At("check") /\ instanceID = 0
  /\ RollbackTransaction
  /\ Return(0)

(* Slip: numInserts is not set back to 0. *)
StartEntries_KeepsCount ==
  /\ At("check") /\ instanceID # 0
  /\ pc' = "entry" /\ entry' = 1
  /\ UNCHANGED <<report, instanceID, numInserts, result, terminated, autoCommit, lastInsertId, transaction, nextId, committed>>

StartEntries ==
  /\ At("check") /\ instanceID # 0
  /\ pc' = "entry" /\ entry' = 1 /\ numInserts' = 0
  /\ UNCHANGED <<report, instanceID, result, terminated, autoCommit, lastInsertId, transaction, nextId, committed>>

(* The entry v the loop has reached, and its rows. *)
InLoop == At("entry") /\ entry \in DOMAIN report.entries
HasKeys == report.entries[entry].keys
Bulk == Lines(report, entry)

NextEntry ==
  /\ entry' = entry + 1
  /\ UNCHANGED <<pc, report, instanceID, result, terminated, autoCommit, lastInsertId, nextId>>

(* An unknown module, or no usable word. *)
SkipEntry ==
  /\ InLoop /\ HasKeys /\ Bulk = {}
  /\ NextEntry
  /\ UNCHANGED <<numInserts, transaction, committed>>

(* Slip: "bulk =" for "bulk +=", so that the last usable word is all there is. *)
InsertRows_LastWord ==
  /\ InLoop /\ HasKeys /\ Bulk # {}
  /\ Execute({}, Rows(instanceID, {l \in Bulk : \A other \in Bulk : other.word <= l.word}))
  /\ numInserts' = numInserts + 1
  /\ NextEntry

InsertRows ==
  /\ InLoop /\ HasKeys /\ Bulk # {}
  /\ Execute({}, Rows(instanceID, Bulk))
  /\ numInserts' = numInserts + 1
  /\ NextEntry

RowsRefused ==
  /\ InLoop /\ HasKeys /\ Bulk # {} /\ MayRefuse
  /\ NextEntry
  /\ UNCHANGED <<numInserts, transaction, committed>>

LoopEnds == At("entry") /\ entry \notin DOMAIN report.entries

Commit ==
  /\ LoopEnds /\ numInserts > 0
  /\ CommitTransaction
  /\ Return(numInserts)

Rollback ==
  /\ LoopEnds /\ numInserts = 0
  /\ RollbackTransaction
  /\ Return(0)

(* Where the next call is one of the connection's, which may throw; and    *)
(* where a missing key, or an id beyond the column's range, surely throws. *)
AtDatabaseCall ==
  \/ pc = "parse" /\ report.parses
  \/ pc = "instance" \/ pc = "lastid"
  \/ pc = "check" /\ instanceID = 0
  \/ pc = "entry" /\ (entry \in DOMAIN report.entries => HasKeys /\ Bulk # {})

MustThrow ==
  \/ pc = "instance" /\ (~report.header \/ nextId > MaxId)
  \/ pc = "entry" /\ entry \in DOMAIN report.entries /\ ~HasKeys

Terminate ==
  /\ ~terminated /\ terminated' = TRUE
  /\ pc' = "idle" /\ report' = NoReport
  /\ UNCHANGED <<locals, result, autoCommit, lastInsertId, nextId>>

Throw ==
  /\ MustThrow \/ (MayThrow /\ AtDatabaseCall)
  /\ Terminate
  /\ EmptyTransaction /\ UNCHANGED committed

(* The connection is lost with the answer to a commit that was made. *)
CommitThrows ==
  /\ MayThrow /\ LoopEnds /\ numInserts > 0
  /\ Terminate
  /\ CommitTransaction

Step ==
  \/ ParseError \/ StartTransaction
  \/ InsertInstance \/ InstanceRefused \/ LastInsertId \/ NoInstance
  \/ StartEntries \/ SkipEntry \/ InsertRows \/ RowsRefused
  \/ Commit \/ Rollback
  \/ Throw \/ CommitThrows

(* Somebody starts the server again, which makes a new connection. *)
Restart ==
  /\ terminated /\ terminated' = FALSE
  /\ autoCommit' = TRUE /\ lastInsertId' = 0
  /\ instanceID' = 0 /\ numInserts' = 0 /\ entry' = 1 /\ result' = 0
  /\ UNCHANGED <<pc, report, transaction, nextId, committed>>

Next == (\E r \in Reports : Call(r)) \/ Step \/ Restart

Spec == Init /\ [][Next]_vars

-----------------------------------------------------------------------------
Points == {"idle", "parse", "instance", "lastid", "check", "entry"}

Instances == [id : 1 .. MaxId, report : Reports]
InstanceIDs == {i.id : i \in instances}

(* The values each variable ranges over. *)
TypeOK ==
  /\ pc \in Points
  /\ report \in Reports \cup {NoReport} /\ (report = NoReport <=> pc = "idle")
  /\ instanceID \in 0 .. MaxId /\ lastInsertId \in 0 .. MaxId
  /\ numInserts \in Nat /\ entry \in Nat \ {0} /\ result \in Nat
  /\ terminated \in BOOLEAN /\ autoCommit \in BOOLEAN
  /\ nextId \in 1 .. MaxId + 1
  /\ instances \subseteq Instances /\ txInstances \subseteq Instances
  /\ \A row \in rows \cup txRows : row.InstanceID \in 1 .. MaxId

(* Every return and every exception closes the transaction: the next       *)
(* report's setAutoCommit(false) never finds an older report's rows in it. *)
IdleMeansClean == pc = "idle" => txInstances = {} /\ txRows = {}

(* A committed row of a module table belongs to the committed instance of  *)
(* the very report that said it, and no instance is there without rows.    *)
RowsBelongToTheirReport ==
  /\ \A i, j \in instances : i.id = j.id => i = j
  /\ \A row \in rows : \E i \in instances :
       /\ row.InstanceID = i.id
       /\ row.line.entry \in DOMAIN i.report.entries
       /\ row.line \in Lines(i.report, row.line.entry)
  /\ \A i \in instances : \E row \in rows : row.InstanceID = i.id

(* An entry's rows are in the database together or not at all. *)
EntriesAreWhole ==
  \A i \in instances : \A j \in DOMAIN i.report.entries :
    \/ Rows(i.id, Lines(i.report, j)) \subseteq rows
    \/ Rows(i.id, Lines(i.report, j)) \cap rows = {}

(* What a call returns, and "Consumed n" prints, is the number of entries  *)
(* whose rows it committed, and 0 only if it left no trace.                *)
ResultIsTruthful ==
  [][ pc # "idle" /\ pc' = "idle" /\ ~terminated' =>
        /\ result' = Cardinality({row.line.entry : row \in rows' \ rows})
        /\ result' = 0 => instances' = instances /\ rows' = rows ]_vars

-----------------------------------------------------------------------------
(* The promise kept: InsertDatabase stores a report whole, at its commit,  *)
(* or not at all; where executeUpdate may report a failure by its result,  *)
(* single entries may be left out, but never a part of one (ReportStore).  *)
Says(r) == IF r.parses THEN {Lines(r, j) : j \in DOMAIN r.entries} \ {{}} ELSE {}

Stored == [id \in InstanceIDs |-> {row.line : row \in {x \in rows : x.InstanceID = id}}]

Store == INSTANCE ReportStore WITH
  Ids <- 1 .. MaxId,
  Content <- [r \in Reports |-> Says(r)],
  Lossy <- MayRefuse,
  inbox <- report,
  stored <- Stored,
  dead <- terminated

ImplementsReportStore == Store!Spec
=============================================================================
