------------------------- MODULE InsertDatabaseProofs -------------------------
(***************************************************************************)
(* What module InsertDatabase promises for all reports, whatever id the    *)
(* column ends at, and that InsertDatabase implements ReportStore.         *)
(***************************************************************************)
EXTENDS InsertDatabase, FiniteSetTheorems, TLAPS

(* The open transaction is that of the report being worked on: its         *)
(* instance, under the id that was given out last.                         *)
Pending(id) ==
  /\ id \in 1 .. MaxId /\ id = nextId - 1
  /\ txInstances = {[id |-> id, report |-> report]}
  /\ \A i \in instances : i.id < id

(* Between its first statement and its end a call is inside a transaction. *)
InTransaction ==
  /\ pc \in {"instance", "lastid", "check", "entry"} => ~autoCommit /\ report.parses
  /\ terminated => pc = "idle"
  /\ pc \in {"idle", "parse", "instance"} => txInstances = {} /\ txRows = {}
  /\ pc = "lastid" => Pending(lastInsertId) /\ txRows = {}
  /\ pc = "check" => txRows = {} /\ (Pending(instanceID) \/ (instanceID = 0 /\ txInstances = {} /\ MayRefuse))
  /\ pc = "entry" => Pending(instanceID) /\ entry \in 1 .. Len(report.entries) + 1

(* In the loop the transaction holds the rows of entries behind it, each   *)
(* whole or not at all, and all of them unless a statement was refused.    *)
RowsSoFar ==
  pc = "entry" =>
    /\ \A row \in txRows : \E j \in 1 .. entry - 1 : row \in Rows(instanceID, Lines(report, j))
    /\ \A j \in 1 .. entry - 1 :
         \/ Rows(instanceID, Lines(report, j)) \subseteq txRows
         \/ ~(\E row \in Rows(instanceID, Lines(report, j)) : row \in txRows) /\ MayRefuse
    /\ numInserts = 0 <=> txRows = {}

(* What is committed carries ids that were given out. *)
IdsAreOld ==
  /\ \A i \in instances : i.id < nextId
  /\ \A i, j \in instances : i.id = j.id => i = j

(* Every committed row is a line of the report its instance stands for,    *)
(* and every committed instance has one.                                   *)
RowsHaveInstances ==
  /\ \A row \in rows : \E i \in instances :
       \E j \in DOMAIN i.report.entries : row \in Rows(i.id, Lines(i.report, j))
  /\ \A i \in instances : \E row \in rows : row.InstanceID = i.id

IInv == TypeOK /\ InTransaction /\ RowsSoFar /\ IdsAreOld /\ RowsHaveInstances /\ EntriesAreWhole

-----------------------------------------------------------------------------
(* A report's entries are numbered from 1 to their Len. *)
LEMMA ReportFacts ==
  ASSUME NEW r \in Reports
  PROVE  /\ r.parses \in BOOLEAN /\ r.header \in BOOLEAN
         /\ Len(r.entries) \in Nat /\ DOMAIN r.entries = 1 .. Len(r.entries)
<1>1. r \in [parses : BOOLEAN, header : BOOLEAN, entries : Seq(Entries)]
  BY ReportAssumption DEF Texts
<1>. QED
  BY <1>1

(* A line knows the entry it comes from. *)
LEMMA LineEntry ==
  ASSUME NEW r, NEW j, NEW l \in Lines(r, j)
  PROVE  l.entry = j
<1>. DEFINE e == r.entries[j]
            positions == {w \in DOMAIN e.words : Usable(e.words[w])}
            line(i) == [table |-> FindTableName(e.module), Command |-> e.words[i].left,
                        Count |-> Number[Second(e.words[i])], entry |-> j, word |-> i]
<1>1. FindTableName(e.module) # ""
  BY DEF Lines
<1>2. Lines(r, j) = {line(i) : i \in positions}
  BY <1>1 DEF Lines
<1>3. PICK i \in positions : l = line(i)
  BY <1>2
<1>. QED
  BY <1>3

(* A row is a line under the id of its instance, and knows its entry. *)
LEMMA RowFacts ==
  ASSUME NEW id, NEW r, NEW j, NEW row \in Rows(id, Lines(r, j))
  PROVE  /\ row.InstanceID = id
         /\ row.line \in Lines(r, j) /\ row.line.entry = j
         /\ row = [InstanceID |-> id, line |-> row.line]
<1>1. PICK l \in Lines(r, j) : row = [InstanceID |-> id, line |-> l]
  BY DEF Rows
<1>2. l.entry = j
  BY LineEntry
<1>. QED
  BY <1>1, <1>2

(* Nothing is open and nothing is stored at the start. *)
LEMMA InitIInv == Init => IInv
<1>. SUFFICES ASSUME Init PROVE IInv
  OBVIOUS
<1>. USE DatabaseAssumption DEF Init
<1>1. TypeOK
  <2>1. terminated \in BOOLEAN /\ autoCommit \in BOOLEAN
    BY Zenon
  <2>2. /\ pc = "idle" /\ report = NoReport /\ nextId = 1
        /\ instanceID = 0 /\ lastInsertId = 0 /\ numInserts = 0 /\ entry = 1 /\ result = 0
        /\ txInstances = {} /\ txRows = {} /\ instances = {} /\ rows = {}
    OBVIOUS
  <2>. HIDE DEF Init
  <2>. QED
    BY <2>1, <2>2 DEF TypeOK, Points
<1>2. InTransaction /\ RowsSoFar
  BY DEF InTransaction, RowsSoFar
<1>3. IdsAreOld /\ RowsHaveInstances /\ EntriesAreWhole
  BY DEF IdsAreOld, RowsHaveInstances, EntriesAreWhole
<1>. QED
  BY <1>1, <1>2, <1>3 DEF IInv

-----------------------------------------------------------------------------
(* Every step keeps the types.  An id is given out only while the column   *)
(* has room for it, and rows are inserted under an id that was given out.  *)
LEMMA TypeOKStep ==
  ASSUME TypeOK, InTransaction, [Next]_vars
  PROVE  TypeOK'
<1>. USE DatabaseAssumption DEF TypeOK, Points
<1>1. ASSUME NEW r \in Reports, Call(r) PROVE TypeOK'
  BY <1>1 DEF Call, At, locals, transaction, committed
<1>2. CASE ParseError
  BY <1>2 DEF ParseError, At, Return, locals, transaction, committed
<1>3. CASE StartTransaction
  BY <1>3 DEF StartTransaction, At, locals, transaction, committed
<1>4. CASE InsertInstance
  <2>1. ~autoCommit /\ nextId \in 1 .. MaxId /\ report \in Reports
    BY <1>4 DEF InsertInstance, At, InTransaction
  <2>2. [id |-> nextId, report |-> report] \in Instances
    BY <2>1 DEF Instances
  <2>3. /\ txInstances' = txInstances \cup {[id |-> nextId, report |-> report]}
        /\ txRows' = txRows /\ UNCHANGED committed
    BY <1>4, <2>1 DEF InsertInstance, Execute
  <2>. QED
    BY <1>4, <2>1, <2>2, <2>3 DEF InsertInstance, At, locals, committed
<1>5. CASE InstanceRefused
  BY <1>5 DEF InstanceRefused, At, locals, transaction, committed
<1>6. CASE LastInsertId
  BY <1>6 DEF LastInsertId, At, locals, transaction, committed
<1>7. CASE NoInstance
  BY <1>7 DEF NoInstance, At, Return, RollbackTransaction, EmptyTransaction, locals, committed
<1>8. CASE StartEntries
  BY <1>8 DEF StartEntries, At, locals, transaction, committed
<1>9. CASE SkipEntry
  BY <1>9 DEF SkipEntry, InLoop, At, NextEntry, locals, transaction, committed
<1>10. CASE InsertRows
  <2>1. ~autoCommit /\ instanceID \in 1 .. MaxId
    BY <1>10 DEF InsertRows, InLoop, At, InTransaction, Pending
  <2>2. /\ txInstances' = txInstances
        /\ txRows' = txRows \cup Rows(instanceID, Bulk)
        /\ UNCHANGED committed
    BY <1>10, <2>1 DEF InsertRows, Execute
  <2>3. \A row \in Rows(instanceID, Bulk) : row.InstanceID \in 1 .. MaxId
    BY <2>1 DEF Rows
  <2>. QED
    BY <1>10, <2>1, <2>2, <2>3 DEF InsertRows, InLoop, At, NextEntry, committed
<1>11. CASE RowsRefused
  BY <1>11 DEF RowsRefused, InLoop, At, NextEntry, transaction, committed
<1>12. CASE Commit
  BY <1>12 DEF Commit, LoopEnds, At, CommitTransaction, EmptyTransaction, Return, locals
<1>13. CASE Rollback
  BY <1>13 DEF Rollback, LoopEnds, At, RollbackTransaction, EmptyTransaction, Return, locals, committed
<1>14. CASE Throw
  BY <1>14 DEF Throw, Terminate, EmptyTransaction, locals, committed
<1>15. CASE CommitThrows
  BY <1>15 DEF CommitThrows, Terminate, CommitTransaction, EmptyTransaction, locals
<1>16. CASE Restart
  <2>1. terminated' \in BOOLEAN /\ autoCommit' \in BOOLEAN
    BY <1>16, Zenon DEF Restart
  <2>2. /\ instanceID' = 0 /\ lastInsertId' = 0 /\ numInserts' = 0 /\ entry' = 1 /\ result' = 0
        /\ pc' = pc /\ report' = report /\ nextId' = nextId
        /\ UNCHANGED <<txInstances, txRows, instances, rows>>
    BY <1>16 DEF Restart, transaction, committed
  <2>. QED
    BY <2>1, <2>2
<1>17. CASE UNCHANGED vars
  BY <1>17 DEF vars, locals, transaction, committed
<1>. QED
  BY <1>1, <1>2, <1>3, <1>4, <1>5, <1>6, <1>7, <1>8, <1>9, <1>10, <1>11, <1>12, <1>13,
     <1>14, <1>15, <1>16, <1>17 DEF Next, Step

(* Every step leaves the transaction as the next one needs it: opened by   *)
(* setAutoCommit(false), filled in order, empty again at every end.        *)
LEMMA InTransactionStep ==
  ASSUME TypeOK, InTransaction, RowsSoFar, IdsAreOld, [Next]_vars
  PROVE  InTransaction'
<1>. USE DatabaseAssumption DEF InTransaction
<1>1. ASSUME NEW r \in Reports, Call(r) PROVE InTransaction'
  BY <1>1 DEF Call, At, locals, transaction, committed
<1>2. CASE ParseError
  BY <1>2 DEF ParseError, At, Return, locals, transaction, committed
<1>3. CASE StartTransaction
  BY <1>3 DEF StartTransaction, At, locals, transaction, committed
<1>4. CASE InsertInstance
  <2>1. /\ ~autoCommit /\ nextId \in 1 .. MaxId /\ report.parses
        /\ txInstances = {} /\ txRows = {}
    BY <1>4 DEF InsertInstance, At, TypeOK
  <2>2. /\ txInstances' = {[id |-> nextId, report |-> report]}
        /\ txRows' = {} /\ instances' = instances
    BY <1>4, <2>1 DEF InsertInstance, Execute, committed
  <2>3. Pending(lastInsertId)'
    BY <1>4, <2>1, <2>2 DEF InsertInstance, Pending, IdsAreOld, locals
  <2>. QED
    BY <1>4, <2>1, <2>2, <2>3 DEF InsertInstance, At, locals
<1>5. CASE InstanceRefused
  BY <1>5 DEF InstanceRefused, At, locals, transaction, committed
<1>6. CASE LastInsertId
  BY <1>6 DEF LastInsertId, At, Pending, locals, transaction, committed
<1>7. CASE NoInstance
  BY <1>7 DEF NoInstance, At, Return, RollbackTransaction, EmptyTransaction, locals, committed
<1>8. CASE StartEntries
  <2>1. Pending(instanceID) /\ report \in Reports
    BY <1>8 DEF StartEntries, At, TypeOK
  <2>2. Len(report.entries) \in Nat
    BY <2>1, ReportFacts
  <2>. QED
    BY <1>8, <2>1, <2>2 DEF StartEntries, At, Pending, locals, transaction, committed
<1>9. ASSUME InLoop, NextEntry, txInstances' = txInstances, instances' = instances
      PROVE  InTransaction'
  <2>1. report \in Reports
    BY <1>9 DEF InLoop, At, TypeOK
  <2>2. /\ Len(report.entries) \in Nat /\ entry \in 1 .. Len(report.entries)
    BY <1>9, <2>1, ReportFacts DEF InLoop
  <2>. QED
    BY <1>9, <2>2 DEF InLoop, At, NextEntry, Pending
<1>10. CASE SkipEntry
  BY <1>9, <1>10 DEF SkipEntry, transaction, committed
<1>11. CASE InsertRows
  <2>1. ~autoCommit
    BY <1>11 DEF InsertRows, InLoop, At
  <2>. QED
    BY <1>9, <1>11, <2>1 DEF InsertRows, Execute, committed
<1>12. CASE RowsRefused
  BY <1>9, <1>12 DEF RowsRefused, transaction, committed
<1>13. CASE Commit
  BY <1>13 DEF Commit, LoopEnds, At, CommitTransaction, EmptyTransaction, Return
<1>14. CASE Rollback
  BY <1>14 DEF Rollback, LoopEnds, At, RollbackTransaction, EmptyTransaction, Return
<1>15. CASE Throw
  BY <1>15 DEF Throw, Terminate, EmptyTransaction
<1>16. CASE CommitThrows
  BY <1>16 DEF CommitThrows, Terminate, CommitTransaction, EmptyTransaction
<1>17. CASE Restart
  BY <1>17 DEF Restart, transaction, committed
<1>18. CASE UNCHANGED vars
  BY <1>18 DEF vars, locals, transaction, committed, Pending
<1>. QED
  BY <1>1, <1>2, <1>3, <1>4, <1>5, <1>6, <1>7, <1>8, <1>10, <1>11, <1>12, <1>13,
     <1>14, <1>15, <1>16, <1>17, <1>18 DEF Next, Step

-----------------------------------------------------------------------------
(* No row of the open transaction comes from an entry still ahead. *)
LEMMA NothingAhead ==
  ASSUME TypeOK, InTransaction, RowsSoFar, pc = "entry", NEW row \in Rows(instanceID, Lines(report, entry))
  PROVE  row \notin txRows
<1>1. entry \in Nat
  BY DEF TypeOK
<1>2. row.line.entry = entry
  BY RowFacts
<1>3. SUFFICES ASSUME row \in txRows PROVE FALSE
  OBVIOUS
<1>4. PICK j \in 1 .. entry - 1 : row \in Rows(instanceID, Lines(report, j))
  BY <1>3 DEF RowsSoFar
<1>5. row.line.entry = j
  BY <1>4, RowFacts
<1>. QED
  BY <1>1, <1>2, <1>4, <1>5

(* An entry passed over leaves the rows as they are. *)
LEMMA EntryPassed ==
  ASSUME TypeOK, InTransaction, RowsSoFar, InLoop, NextEntry,
         Bulk = {} \/ MayRefuse, numInserts' = numInserts, txRows' = txRows
  PROVE  RowsSoFar'
<1>1. /\ pc = "entry" /\ pc' = "entry" /\ entry \in Nat \ {0} /\ entry' = entry + 1
      /\ report' = report /\ instanceID' = instanceID
  BY DEF InLoop, At, NextEntry, TypeOK
<1>2. ASSUME NEW row \in txRows
      PROVE  \E j \in 1 .. entry : row \in Rows(instanceID, Lines(report, j))
  <2>1. PICK j \in 1 .. entry - 1 : row \in Rows(instanceID, Lines(report, j))
    BY <1>1, <1>2 DEF RowsSoFar
  <2>. QED
    BY <1>1, <2>1
<1>3. ASSUME NEW j \in 1 .. entry
      PROVE  \/ Rows(instanceID, Lines(report, j)) \subseteq txRows
             \/ ~(\E row \in Rows(instanceID, Lines(report, j)) : row \in txRows) /\ MayRefuse
  <2>1. CASE j \in 1 .. entry - 1
    BY <1>1, <2>1 DEF RowsSoFar
  <2>2. CASE j = entry /\ Bulk = {}
    BY <2>2 DEF Bulk, Rows
  <2>3. CASE j = entry /\ MayRefuse
    BY <1>1, <2>3, NothingAhead
  <2>. QED
    BY <1>1, <2>1, <2>2, <2>3
<1>4. numInserts = 0 <=> txRows = {}
  BY <1>1 DEF RowsSoFar
<1>5. entry' - 1 = entry
  BY <1>1
<1>. QED
  BY <1>1, <1>2, <1>3, <1>4, <1>5 DEF RowsSoFar

(* Every step keeps the transaction's rows those of the entries behind it. *)
LEMMA RowsSoFarStep ==
  ASSUME TypeOK, InTransaction, RowsSoFar, [Next]_vars
  PROVE  RowsSoFar'
<1>1. ASSUME NEW r \in Reports, Call(r) PROVE RowsSoFar'
  BY <1>1 DEF Call, RowsSoFar
<1>2. CASE ParseError \/ NoInstance \/ Commit \/ Rollback
  BY <1>2 DEF ParseError, NoInstance, Commit, Rollback, Return, RowsSoFar
<1>3. CASE StartTransaction \/ InsertInstance \/ InstanceRefused \/ LastInsertId
  BY <1>3 DEF StartTransaction, InsertInstance, InstanceRefused, LastInsertId, RowsSoFar
<1>4. CASE Throw \/ CommitThrows
  BY <1>4 DEF Throw, CommitThrows, Terminate, RowsSoFar
<1>5. CASE Restart
  BY <1>5 DEF Restart, InTransaction, RowsSoFar
<1>6. CASE StartEntries
  <2>1. txRows' = {} /\ numInserts' = 0 /\ entry' = 1
    BY <1>6 DEF StartEntries, At, InTransaction, transaction
  <2>. QED
    BY <2>1 DEF RowsSoFar
<1>7. CASE SkipEntry
  BY <1>7, EntryPassed DEF SkipEntry, transaction
<1>8. CASE RowsRefused
  BY <1>8, EntryPassed DEF RowsRefused, transaction
<1>9. CASE InsertRows
  <2>. DEFINE New == Rows(instanceID, Lines(report, entry))
  <2>1. /\ pc = "entry" /\ pc' = "entry" /\ entry \in Nat \ {0} /\ entry' = entry + 1
        /\ report' = report /\ instanceID' = instanceID
        /\ numInserts \in Nat /\ numInserts' = numInserts + 1
    BY <1>9 DEF InsertRows, InLoop, At, NextEntry, TypeOK
  <2>2. txRows' = txRows \cup New
    BY <1>9, <2>1 DEF InsertRows, Execute, InTransaction, Bulk
  <2>3. New # {}
    BY <1>9 DEF InsertRows, Bulk, Rows
  <2>4. ASSUME NEW row \in txRows'
        PROVE  \E j \in 1 .. entry : row \in Rows(instanceID, Lines(report, j))
    <3>1. CASE row \in New
      BY <2>1, <3>1
    <3>2. CASE row \in txRows
      <4>1. PICK j \in 1 .. entry - 1 : row \in Rows(instanceID, Lines(report, j))
        BY <2>1, <3>2 DEF RowsSoFar
      <4>. QED
        BY <2>1, <4>1
    <3>. QED
      BY <2>2, <3>1, <3>2
  <2>5. ASSUME NEW j \in 1 .. entry
        PROVE  \/ Rows(instanceID, Lines(report, j)) \subseteq txRows'
               \/ ~(\E row \in Rows(instanceID, Lines(report, j)) : row \in txRows') /\ MayRefuse
    <3>1. CASE j = entry
      BY <2>2, <3>1
    <3>2. CASE j \in 1 .. entry - 1
      <4>1. ASSUME NEW row \in Rows(instanceID, Lines(report, j)) PROVE row \notin New
        <5>1. row.line.entry = j
          BY RowFacts
        <5>2. row \in New => row.line.entry = entry
          BY RowFacts
        <5>. QED
          BY <2>1, <3>2, <5>1, <5>2
      <4>2. \/ Rows(instanceID, Lines(report, j)) \subseteq txRows
            \/ ~(\E row \in Rows(instanceID, Lines(report, j)) : row \in txRows) /\ MayRefuse
        BY <2>1, <3>2 DEF RowsSoFar
      <4>. QED
        BY <2>2, <4>1, <4>2
    <3>. QED
      BY <2>1, <3>1, <3>2
  <2>6. txRows' # {} /\ numInserts' # 0 /\ entry' - 1 = entry
    BY <2>1, <2>2, <2>3
  <2>. HIDE DEF New
  <2>. QED
    BY <2>1, <2>4, <2>5, <2>6 DEF RowsSoFar
<1>10. CASE UNCHANGED vars
  BY <1>10 DEF vars, locals, transaction, RowsSoFar
<1>. QED
  BY <1>1, <1>2, <1>3, <1>4, <1>5, <1>6, <1>7, <1>8, <1>9, <1>10 DEF Next, Step

-----------------------------------------------------------------------------
Committed == IdsAreOld /\ RowsHaveInstances /\ EntriesAreWhole

(* What a committed row says of the instance it hangs on. *)
LEMMA RowOfInstance ==
  ASSUME RowsHaveInstances, NEW row \in rows
  PROVE  \E i \in instances : row.InstanceID = i.id
<1>1. PICK i \in instances : \E j \in DOMAIN i.report.entries : row \in Rows(i.id, Lines(i.report, j))
  BY DEF RowsHaveInstances
<1>. QED
  BY <1>1, RowFacts

(* At the end of the loop every row of the transaction comes from one of   *)
(* the report's entries, and every entry is behind.                        *)
LEMMA LoopDone ==
  ASSUME TypeOK, InTransaction, LoopEnds
  PROVE  /\ pc = "entry" /\ report \in Reports /\ report.parses
         /\ DOMAIN report.entries = 1 .. entry - 1
<1>1. pc = "entry" /\ report \in Reports /\ report.parses
  BY DEF LoopEnds, At, InTransaction, TypeOK
<1>2. /\ Len(report.entries) \in Nat
      /\ DOMAIN report.entries = 1 .. Len(report.entries)
  BY <1>1, ReportFacts
<1>3. entry \in 1 .. Len(report.entries) + 1 /\ entry \notin 1 .. Len(report.entries)
  BY <1>1, <1>2 DEF InTransaction, LoopEnds
<1>. QED
  BY <1>1, <1>2, <1>3

(* A commit adds one whole instance to what is committed. *)
LEMMA CommitKeeps ==
  ASSUME TypeOK, InTransaction, RowsSoFar, Committed,
         LoopEnds, numInserts > 0, CommitTransaction, nextId' = nextId
  PROVE  Committed'
<1>. DEFINE new == [id |-> instanceID, report |-> report]
<1>1. /\ pc = "entry" /\ report \in Reports /\ DOMAIN report.entries = 1 .. entry - 1
  BY LoopDone
<1>2. /\ txInstances = {new} /\ instanceID = nextId - 1
      /\ \A i \in instances : i.id < instanceID
  BY <1>1 DEF InTransaction, Pending
<1>3. instances' = instances \cup {new} /\ rows' = rows \cup txRows
  BY <1>2 DEF CommitTransaction
<1>4. /\ nextId \in Nat /\ instanceID \in Nat /\ new.id = instanceID /\ new.report = report
      /\ \A i \in instances : i.id \in Nat
  BY DatabaseAssumption DEF TypeOK, Instances
<1>5. IdsAreOld'
  BY <1>2, <1>3, <1>4 DEF Committed, IdsAreOld
<1>6. \A row \in txRows : \E j \in DOMAIN report.entries : row \in Rows(instanceID, Lines(report, j))
  BY <1>1 DEF RowsSoFar
<1>7. \A row \in txRows : row.InstanceID = instanceID
  BY <1>6, RowFacts
<1>8. \A row \in rows : row.InstanceID < instanceID
  BY <1>2, RowOfInstance DEF Committed
<1>9. RowsHaveInstances'
  <2>1. ASSUME NEW row \in rows'
        PROVE  \E i \in instances' : \E j \in DOMAIN i.report.entries : row \in Rows(i.id, Lines(i.report, j))
    <3>1. CASE row \in rows
      BY <1>3, <3>1 DEF Committed, RowsHaveInstances
    <3>2. CASE row \in txRows
      BY <1>3, <1>4, <1>6, <3>2
    <3>. QED
      BY <1>3, <3>1, <3>2
  <2>2. txRows # {}
    BY <1>1 DEF RowsSoFar
  <2>3. ASSUME NEW i \in instances' PROVE \E row \in rows' : row.InstanceID = i.id
    <3>1. CASE i \in instances
      BY <1>3, <3>1 DEF Committed, RowsHaveInstances
    <3>2. CASE i = new
      BY <1>3, <1>4, <1>7, <2>2, <3>2
    <3>. QED
      BY <1>3, <3>1, <3>2
  <2>. HIDE DEF new
  <2>. QED
    BY <2>1, <2>3 DEF RowsHaveInstances
<1>10. EntriesAreWhole'
  <2>1. ASSUME NEW i \in instances', NEW j \in DOMAIN i.report.entries
        PROVE  \/ Rows(i.id, Lines(i.report, j)) \subseteq rows'
               \/ Rows(i.id, Lines(i.report, j)) \cap rows' = {}
    <3>. DEFINE R == Rows(i.id, Lines(i.report, j))
    <3>1. \A row \in R : row.InstanceID = i.id
      BY RowFacts
    <3>2. CASE i \in instances
      <4>1. R \subseteq rows \/ R \cap rows = {}
        BY <3>2 DEF Committed, EntriesAreWhole
      <4>2. R \cap txRows = {}
        BY <1>2, <1>4, <1>7, <3>1, <3>2
      <4>. QED
        BY <1>3, <4>1, <4>2
    <3>3. CASE i = new
      <4>1. R \cap rows = {}
        BY <1>4, <1>8, <3>1, <3>3
      <4>2. R = Rows(instanceID, Lines(report, j)) /\ j \in 1 .. entry - 1
        BY <1>1, <1>4, <3>3
      <4>3. R \subseteq txRows \/ ~(\E row \in R : row \in txRows)
        BY <1>1, <4>2 DEF RowsSoFar
      <4>. QED
        BY <1>3, <4>1, <4>3
    <3>. QED
      BY <1>3, <3>2, <3>3
  <2>. QED
    BY <2>1 DEF EntriesAreWhole
<1>. QED
  BY <1>5, <1>9, <1>10 DEF Committed

(* Every step keeps what is committed in order; only a commit adds to it. *)
LEMMA CommittedStep ==
  ASSUME TypeOK, InTransaction, RowsSoFar, Committed, [Next]_vars
  PROVE  Committed'
<1>1. ASSUME UNCHANGED committed, nextId' \in {nextId, nextId + 1} PROVE Committed'
  <2>1. nextId \in Nat /\ \A i \in instances : i.id \in Nat
    BY DatabaseAssumption DEF TypeOK, Instances
  <2>2. instances' = instances /\ rows' = rows
    BY <1>1 DEF committed
  <2>3. \A i \in instances' : i.id < nextId'
    BY <1>1, <2>1, <2>2 DEF Committed, IdsAreOld
  <2>. QED
    BY <2>2, <2>3 DEF Committed, IdsAreOld, RowsHaveInstances, EntriesAreWhole
<1>2. ASSUME NEW r \in Reports, Call(r) PROVE Committed'
  BY <1>1, <1>2 DEF Call
<1>3. CASE ParseError \/ NoInstance \/ Rollback
  BY <1>1, <1>3 DEF ParseError, NoInstance, Rollback, RollbackTransaction, Return
<1>4. CASE StartTransaction \/ InstanceRefused \/ LastInsertId \/ StartEntries
  BY <1>1, <1>4 DEF StartTransaction, InstanceRefused, LastInsertId, StartEntries
<1>5. CASE InsertInstance
  <2>1. ~autoCommit
    BY <1>5 DEF InsertInstance, At, InTransaction
  <2>. QED
    BY <1>1, <1>5, <2>1 DEF InsertInstance, Execute
<1>6. CASE InsertRows
  <2>1. ~autoCommit
    BY <1>6 DEF InsertRows, InLoop, At, InTransaction
  <2>. QED
    BY <1>1, <1>6, <2>1 DEF InsertRows, Execute, NextEntry
<1>7. CASE SkipEntry \/ RowsRefused
  BY <1>1, <1>7 DEF SkipEntry, RowsRefused, NextEntry
<1>8. CASE Commit
  BY <1>8, CommitKeeps DEF Commit, Return
<1>9. CASE CommitThrows
  BY <1>9, CommitKeeps DEF CommitThrows, Terminate
<1>10. CASE Throw
  BY <1>1, <1>10 DEF Throw, Terminate
<1>11. CASE Restart
  BY <1>1, <1>11 DEF Restart
<1>12. CASE UNCHANGED vars
  BY <1>1, <1>12 DEF vars
<1>. QED
  BY <1>2, <1>3, <1>4, <1>5, <1>6, <1>7, <1>8, <1>9, <1>10, <1>11, <1>12 DEF Next, Step

(* So every step keeps the invariant. *)
LEMMA InvarianceStep == IInv /\ [Next]_vars => IInv'
BY TypeOKStep, InTransactionStep, RowsSoFarStep, CommittedStep DEF IInv, Committed

(* The parts of the invariant, and so all of it, hold in every state. *)
THEOREM Invariance == Spec => []IInv
BY InitIInv, InvarianceStep, PTL DEF Spec

(* Every variable keeps its type; no id beyond the column is given out. *)
THEOREM TypeCorrectness == Spec => []TypeOK
<1>1. IInv => TypeOK
  BY DEF IInv
<1>. QED
  BY <1>1, Invariance, PTL

(* However a call of InsertDatabase ends, it leaves no open transaction. *)
THEOREM TransactionsEnd == Spec => []IdleMeansClean
<1>1. IInv => IdleMeansClean
  BY DEF IInv, InTransaction, IdleMeansClean
<1>. QED
  BY <1>1, Invariance, PTL

(* Rows stay with the report that said them, refused statements included. *)
THEOREM ReferentialIntegrity == Spec => []RowsBelongToTheirReport
<1>1. ASSUME IInv PROVE RowsBelongToTheirReport
  <2>1. ASSUME NEW row \in rows
        PROVE  \E i \in instances :
                 /\ row.InstanceID = i.id
                 /\ row.line.entry \in DOMAIN i.report.entries
                 /\ row.line \in Lines(i.report, row.line.entry)
    <3>1. PICK i \in instances : \E j \in DOMAIN i.report.entries : row \in Rows(i.id, Lines(i.report, j))
      BY <1>1 DEF IInv, RowsHaveInstances
    <3>2. PICK j \in DOMAIN i.report.entries : row \in Rows(i.id, Lines(i.report, j))
      BY <3>1
    <3>3. row.InstanceID = i.id /\ row.line \in Lines(i.report, j) /\ row.line.entry = j
      BY <3>2, RowFacts
    <3>. QED
      BY <3>2, <3>3
  <2>. QED
    BY <1>1, <2>1 DEF IInv, IdsAreOld, RowsHaveInstances, RowsBelongToTheirReport
<1>. QED
  BY <1>1, Invariance, PTL

(* The rows of an entry are stored together or not at all. *)
THEOREM EntriesStoredWhole == Spec => []EntriesAreWhole
<1>1. IInv => EntriesAreWhole
  BY DEF IInv
<1>. QED
  BY <1>1, Invariance, PTL

-----------------------------------------------------------------------------
(* What a call returns. *)

(* The entries that newRows come from. *)
Written(newRows) == {row.line.entry : row \in newRows}

(* numInserts counts the entries whose rows are in the transaction. *)
InsertsCounted ==
  pc = "entry" => IsFiniteSet(Written(txRows)) /\ numInserts = Cardinality(Written(txRows))

(* A bulk insert adds rows of one entry, of which there were none before. *)
LEMMA InsertCounts ==
  ASSUME TypeOK, InTransaction, RowsSoFar, InsertsCounted, InsertRows
  PROVE  InsertsCounted'
<1>1. pc = "entry" /\ numInserts' = numInserts + 1
  BY DEF InsertRows, InLoop, At
<1>2. txRows' = txRows \cup Rows(instanceID, Lines(report, entry))
  BY <1>1 DEF InsertRows, Execute, InTransaction, Bulk
<1>3. PICK new : new \in Rows(instanceID, Lines(report, entry))
  BY DEF InsertRows, Bulk, Rows
<1>4. \A row \in Rows(instanceID, Lines(report, entry)) : row.line.entry = entry
  BY RowFacts
<1>5. Written(txRows') = Written(txRows) \cup {entry}
  BY <1>2, <1>3, <1>4 DEF Written
<1>6. entry \notin Written(txRows)
  <2>1. SUFFICES ASSUME NEW row \in txRows, row.line.entry = entry PROVE FALSE
    BY DEF Written
  <2>2. PICK j \in 1 .. entry - 1 : row \in Rows(instanceID, Lines(report, j))
    BY <1>1 DEF RowsSoFar
  <2>3. row.line.entry = j /\ entry \in Nat
    BY <2>2, RowFacts DEF TypeOK
  <2>. QED
    BY <2>1, <2>2, <2>3
<1>7. IsFiniteSet(Written(txRows)) /\ numInserts = Cardinality(Written(txRows))
  BY <1>1 DEF InsertsCounted
<1>8. /\ IsFiniteSet(Written(txRows'))
      /\ Cardinality(Written(txRows')) = Cardinality(Written(txRows)) + 1
  BY <1>5, <1>6, <1>7, FS_AddElement
<1>. QED
  BY <1>1, <1>7, <1>8 DEF InsertsCounted, Written

(* Every step keeps count. *)
LEMMA InsertsCountedStep ==
  ASSUME TypeOK, InTransaction, RowsSoFar, InsertsCounted, [Next]_vars
  PROVE  InsertsCounted'
<1>1. ASSUME NEW r \in Reports, Call(r) PROVE InsertsCounted'
  BY <1>1 DEF Call, InsertsCounted
<1>2. CASE ParseError \/ NoInstance \/ Commit \/ Rollback
  BY <1>2 DEF ParseError, NoInstance, Commit, Rollback, Return, InsertsCounted
<1>3. CASE StartTransaction \/ InsertInstance \/ InstanceRefused \/ LastInsertId
  BY <1>3 DEF StartTransaction, InsertInstance, InstanceRefused, LastInsertId, InsertsCounted
<1>4. CASE Throw \/ CommitThrows
  BY <1>4 DEF Throw, CommitThrows, Terminate, InsertsCounted
<1>5. CASE Restart
  BY <1>5 DEF Restart, InTransaction, InsertsCounted
<1>6. CASE StartEntries
  <2>1. txRows' = {} /\ numInserts' = 0
    BY <1>6 DEF StartEntries, At, InTransaction, transaction
  <2>2. Written({}) = {}
    BY DEF Written
  <2>3. Written(txRows)' = {}
    BY <2>1, <2>2 DEF Written
  <2>. QED
    BY <2>1, <2>3, FS_EmptySet DEF InsertsCounted
<1>7. CASE SkipEntry \/ RowsRefused
  <2>1. pc = "entry" /\ UNCHANGED <<numInserts, txRows>>
    BY <1>7 DEF SkipEntry, RowsRefused, InLoop, At, transaction
  <2>. QED
    BY <2>1 DEF InsertsCounted, Written
<1>8. CASE InsertRows
  BY <1>8, InsertCounts
<1>9. CASE UNCHANGED vars
  BY <1>9 DEF vars, locals, transaction, InsertsCounted, Written
<1>. QED
  BY <1>1, <1>2, <1>3, <1>4, <1>5, <1>6, <1>7, <1>8, <1>9 DEF Next, Step

(* The rows of a transaction are new: no row in the database has its id. *)
LEMMA TransactionIsNew ==
  ASSUME IInv, LoopEnds, CommitTransaction
  PROVE  rows' \ rows = txRows
<1>1. TypeOK /\ InTransaction /\ RowsSoFar /\ RowsHaveInstances /\ pc = "entry"
  BY DEF IInv, LoopEnds, At
<1>2. instanceID \in Nat /\ \A i \in instances : i.id < instanceID /\ i.id \in Nat
  BY <1>1 DEF InTransaction, Pending, TypeOK, Instances
<1>3. ASSUME NEW row \in txRows PROVE row \notin rows
  <2>1. PICK j \in 1 .. entry - 1 : row \in Rows(instanceID, Lines(report, j))
    BY <1>1 DEF RowsSoFar
  <2>2. row.InstanceID = instanceID
    BY <2>1, RowFacts
  <2>. QED
    BY <1>1, <1>2, <2>2, RowOfInstance
<1>. QED
  BY <1>3 DEF CommitTransaction

(* The number that Consume prints is that of the entries whose rows a call *)
(* of InsertDatabase left in the database, and 0 means that it left none.  *)
THEOREM ResultsAreTold == Spec => ResultIsTruthful
<1>. DEFINE Told ==
       pc # "idle" /\ pc' = "idle" /\ ~terminated' =>
         /\ result' = Cardinality({row.line.entry : row \in rows' \ rows})
         /\ result' = 0 => instances' = instances /\ rows' = rows
<1>1. Init => InsertsCounted
  BY DEF Init, InsertsCounted
<1>2. IInv /\ InsertsCounted /\ [Next]_vars => InsertsCounted'
  BY InsertsCountedStep DEF IInv
<1>3. ASSUME IInv, InsertsCounted, [Next]_vars, pc # "idle", pc' = "idle", ~terminated' PROVE Told
  <2>1. CASE ParseError \/ NoInstance \/ Rollback
    <3>1. result' = 0 /\ UNCHANGED committed
      BY <2>1 DEF ParseError, NoInstance, Rollback, RollbackTransaction, Return
    <3>2. {row.line.entry : row \in rows' \ rows} = {}
      BY <3>1 DEF committed
    <3>. QED
      BY <3>1, <3>2, FS_EmptySet DEF committed
  <2>2. CASE Commit
    <3>1. /\ LoopEnds /\ CommitTransaction /\ pc = "entry"
          /\ numInserts > 0 /\ result' = numInserts
      BY <2>2 DEF Commit, Return, LoopEnds, At
    <3>2. rows' \ rows = txRows
      BY <1>3, <3>1, TransactionIsNew
    <3>3. result' = Cardinality({row.line.entry : row \in rows' \ rows})
      BY <1>3, <3>1, <3>2 DEF InsertsCounted, Written
    <3>. QED
      BY <3>1, <3>3
  <2>3. ASSUME NEW r \in Reports, Call(r) PROVE FALSE
    BY <1>3, <2>3 DEF Call, At
  <2>4. CASE Throw \/ CommitThrows
    BY <1>3, <2>4 DEF Throw, CommitThrows, Terminate
  <2>5. CASE \/ StartTransaction \/ InsertInstance \/ InstanceRefused \/ LastInsertId
             \/ StartEntries \/ SkipEntry \/ InsertRows \/ RowsRefused
             \/ Restart \/ UNCHANGED vars
    BY <1>3, <2>5 DEF StartTransaction, InsertInstance, InstanceRefused, LastInsertId, StartEntries,
       SkipEntry, InsertRows, RowsRefused, NextEntry, InLoop, At, Restart, vars
  <2>. QED
    BY <1>3, <2>1, <2>2, <2>3, <2>4, <2>5 DEF Next, Step
<1>4. IInv /\ InsertsCounted /\ [Next]_vars => [Told]_vars
  BY <1>3
<1>. QED
  BY <1>1, <1>2, <1>4, Invariance, PTL DEF Spec, ResultIsTruthful

-----------------------------------------------------------------------------
(* InsertDatabase implements ReportStore. *)

(* What is stored depends on what is committed only. *)
LEMMA StoredUnchanged ==
  ASSUME UNCHANGED committed
  PROVE  Stored' = Stored
BY DEF committed, Stored, InstanceIDs

(* The entries of r that are there whole when newRows are its rows. *)
Kept(id, r, newRows) == {lines \in Says(r) : Rows(id, lines) \subseteq newRows}

(* At the end of the loop the transaction holds exactly what the kept      *)
(* entries say, which are all of them without refused statements.          *)
LEMMA TransactionSaysReport ==
  ASSUME TypeOK, InTransaction, RowsSoFar, LoopEnds
  PROVE  /\ {row.line : row \in txRows} = UNION Kept(instanceID, report, txRows)
         /\ txRows = {} => Kept(instanceID, report, txRows) = {}
         /\ MayRefuse \/ Kept(instanceID, report, txRows) = Says(report)
<1>. DEFINE kept == Kept(instanceID, report, txRows)
<1>1. /\ pc = "entry" /\ report.parses /\ DOMAIN report.entries = 1 .. entry - 1
  BY LoopDone
<1>2. Says(report) = {Lines(report, j) : j \in 1 .. entry - 1} \ {{}}
  BY <1>1 DEF Says
<1>3. ASSUME NEW row \in txRows PROVE row.line \in UNION kept
  <2>1. PICK j \in 1 .. entry - 1 : row \in Rows(instanceID, Lines(report, j))
    BY <1>1, <1>3 DEF RowsSoFar
  <2>2. row.line \in Lines(report, j)
    BY <2>1, RowFacts
  <2>3. Rows(instanceID, Lines(report, j)) \subseteq txRows
    BY <1>1, <1>3, <2>1 DEF RowsSoFar
  <2>4. Lines(report, j) \in Says(report)
    BY <1>2, <2>2
  <2>. QED
    BY <2>2, <2>3, <2>4 DEF Kept
<1>4. ASSUME NEW lines \in kept, NEW l \in lines PROVE \E row \in txRows : row.line = l
  <2>1. [InstanceID |-> instanceID, line |-> l] \in Rows(instanceID, lines)
    BY DEF Rows
  <2>2. [InstanceID |-> instanceID, line |-> l].line = l
    OBVIOUS
  <2>. QED
    BY <1>4, <2>1, <2>2 DEF Kept
<1>5. txRows = {} => kept = {}
  <2>1. ASSUME txRows = {}, NEW lines \in kept PROVE FALSE
    <3>1. PICK l : l \in lines
      BY <1>2, <2>1 DEF Kept
    <3>. QED
      BY <1>4, <2>1, <3>1
  <2>. QED
    BY <2>1
<1>6. ~MayRefuse => kept = Says(report)
  BY <1>1, <1>2 DEF Kept, RowsSoFar
<1>7. {row.line : row \in txRows} = UNION kept
  BY <1>3, <1>4
<1>. QED
  BY <1>5, <1>6, <1>7

(* A commit stores the kept entries, whole and under a new and larger id. *)
LEMMA CommitStores ==
  ASSUME IInv, LoopEnds, numInserts > 0, CommitTransaction
  PROVE  instanceID \in 1 .. MaxId /\ Store!StoreAs(instanceID)
<1>. USE DEF IInv
<1>. DEFINE new == [id |-> instanceID, report |-> report]
            linesOf(id, set) == {row.line : row \in {x \in set : x.InstanceID = id}}
            kept == Kept(instanceID, report, txRows)
<1>1. /\ pc = "entry" /\ report \in Reports /\ DOMAIN report.entries = 1 .. entry - 1
  BY LoopDone
<1>2. /\ txInstances = {new} /\ instanceID \in 1 .. MaxId
      /\ \A i \in instances : i.id < instanceID
  BY <1>1 DEF InTransaction, Pending
<1>3. instances' = instances \cup {new} /\ rows' = rows \cup txRows
  BY <1>2 DEF CommitTransaction
<1>4. new.id = instanceID /\ \A i \in instances : i.id \in Nat
  BY DatabaseAssumption DEF TypeOK, Instances
<1>5. InstanceIDs' = InstanceIDs \cup {instanceID}
  BY <1>3, <1>4 DEF InstanceIDs
<1>6. \A old \in InstanceIDs : old < instanceID /\ old \in Nat
  BY <1>2, <1>4 DEF InstanceIDs
<1>7. \A row \in txRows : row.InstanceID = instanceID
  BY <1>1, RowFacts DEF RowsSoFar
<1>8. \A row \in rows : row.InstanceID \in InstanceIDs
  BY RowOfInstance DEF InstanceIDs
<1>9. ASSUME NEW id \in InstanceIDs PROVE linesOf(id, rows') = linesOf(id, rows)
  <2>1. {x \in rows' : x.InstanceID = id} = {x \in rows : x.InstanceID = id}
    BY <1>2, <1>3, <1>6, <1>7
  <2>. QED
    BY <2>1
<1>10. linesOf(instanceID, rows') = UNION kept
  <2>1. {x \in rows' : x.InstanceID = instanceID} = txRows
    BY <1>2, <1>3, <1>6, <1>7, <1>8
  <2>. QED
    BY <2>1, TransactionSaysReport
<1>11. Stored' = [i \in InstanceIDs \cup {instanceID} |->
                    IF i = instanceID THEN UNION kept ELSE Stored[i]]
  <2>1. Stored' = [i \in InstanceIDs' |-> linesOf(i, rows')]
    BY DEF Stored
  <2>2. ASSUME NEW i \in InstanceIDs'
        PROVE  linesOf(i, rows') = IF i = instanceID THEN UNION kept ELSE Stored[i]
    <3>1. CASE i = instanceID
      BY <1>10, <3>1
    <3>2. CASE i # instanceID
      BY <1>5, <1>9, <3>2 DEF Stored
    <3>. QED
      BY <3>1, <3>2
  <2>. HIDE DEF linesOf
  <2>. QED
    BY <1>5, <2>1, <2>2
<1>12. kept \in (SUBSET Says(report)) \ {{}} /\ (MayRefuse \/ kept = Says(report))
  <2>1. \E row : row \in txRows
    BY <1>1 DEF RowsSoFar
  <2>2. {row.line : row \in txRows} # {}
    BY <2>1
  <2>. QED
    BY <2>2, TransactionSaysReport DEF Kept
<1>13. report # NoReport /\ DOMAIN Stored = InstanceIDs
  BY <1>1, DatabaseAssumption DEF Stored
<1>. HIDE DEF IInv, kept
<1>. QED
  BY <1>1, <1>2, <1>6, <1>11, <1>12, <1>13 DEF Store!StoreAs

(* Every step of InsertDatabase is a step of the store, or none. *)
LEMMA StepImplements ==
  ASSUME IInv, [Next]_vars
  PROVE  [Store!Next]_(Store!vars)
<1>. USE DEF Store!vars, Store!Next
<1>1. ASSUME NEW r \in Reports, Call(r) PROVE Store!Submit(r)
  BY <1>1, StoredUnchanged DEF Call, At, IInv, TypeOK, Store!Submit
<1>2. ASSUME ParseError \/ NoInstance \/ Rollback PROVE Store!Discard
  <2>1. /\ ~terminated /\ report \in Reports /\ report # NoReport
        /\ report' = NoReport /\ terminated' = terminated /\ UNCHANGED committed
    BY <1>2 DEF ParseError, NoInstance, Rollback, LoopEnds, At, Return, RollbackTransaction, committed, IInv, TypeOK
  <2>2. MayRefuse \/ Says(report) = {}
    <3>1. CASE ParseError
      BY <3>1 DEF ParseError, Says
    <3>2. CASE NoInstance
      BY <3>2, DatabaseAssumption DEF NoInstance, At, IInv, InTransaction, Pending
    <3>3. CASE Rollback
      <4>1. txRows = {} /\ LoopEnds
        BY <3>3 DEF Rollback, LoopEnds, At, IInv, RowsSoFar
      <4>. QED
        BY <4>1, TransactionSaysReport DEF IInv
    <3>. QED
      BY <1>2, <3>1, <3>2, <3>3
  <2>. QED
    BY <2>1, <2>2, StoredUnchanged DEF Store!Discard
<1>3. ASSUME \/ StartTransaction \/ InstanceRefused \/ LastInsertId
             \/ StartEntries \/ SkipEntry \/ RowsRefused
      PROVE  UNCHANGED Store!vars
  BY <1>3, StoredUnchanged
     DEF StartTransaction, InstanceRefused, LastInsertId, StartEntries, SkipEntry, RowsRefused, NextEntry
<1>4. ASSUME InsertInstance \/ InsertRows PROVE UNCHANGED Store!vars
  <2>1. ~autoCommit
    BY <1>4 DEF InsertInstance, InsertRows, InLoop, At, IInv, InTransaction
  <2>. QED
    BY <1>4, <2>1, StoredUnchanged DEF InsertInstance, InsertRows, Execute, NextEntry
<1>5. ASSUME Commit PROVE Store!Store
  <2>1. instanceID \in 1 .. MaxId /\ Store!StoreAs(instanceID)
    BY <1>5, CommitStores DEF Commit
  <2>. QED
    BY <1>5, <2>1 DEF Commit, LoopEnds, At, Return, Store!Store
<1>6. ASSUME Throw PROVE Store!Die
  <2>1. report # NoReport
    BY <1>6 DEF Throw, MustThrow, AtDatabaseCall, IInv, TypeOK
  <2>. QED
    BY <1>6, <2>1, StoredUnchanged DEF Throw, Terminate, Store!Die
<1>7. ASSUME CommitThrows PROVE Store!Die
  <2>1. instanceID \in 1 .. MaxId /\ Store!StoreAs(instanceID)
    BY <1>7, CommitStores DEF CommitThrows
  <2>. QED
    BY <1>7, <2>1 DEF CommitThrows, Terminate, Store!Die, Store!StoreAs
<1>8. ASSUME Restart PROVE Store!Restart
  BY <1>8, StoredUnchanged DEF Restart, Store!Restart
<1>9. ASSUME UNCHANGED vars PROVE UNCHANGED Store!vars
  BY <1>9, StoredUnchanged DEF vars
<1>. QED
  BY <1>1, <1>2, <1>3, <1>4, <1>5, <1>6, <1>7, <1>8, <1>9 DEF Next, Step

(* Reports are stored in one step and under ids that grow, or not at all,  *)
(* whatever throws and whenever the server is started again; and whole, or *)
(* at the least in whole entries where statements may be refused.          *)
THEOREM Refinement == Spec => ImplementsReportStore
<1>1. Init => Store!Init
  <2>1. Init => InstanceIDs = {}
    BY DEF Init, InstanceIDs
  <2>. QED
    BY <2>1 DEF Init, Store!Init, Stored
<1>2. IInv /\ [Next]_vars => [Store!Next]_(Store!vars)
  BY StepImplements
<1>. QED
  BY <1>1, <1>2, Invariance, PTL DEF Spec, ImplementsReportStore, Store!Spec
=============================================================================
