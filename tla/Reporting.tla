------------------------------- MODULE Reporting -------------------------------
(***************************************************************************)
(* The way of a number through the whole system: Client/Client.cpp counts  *)
(* the commands a user ran (module Analytics) and sends the counts, the    *)
(* server stores what the text says, and Query/Query.cpp prints sums of it *)
(* while other reports are on their way.                                   *)
(*                                                                         *)
(* Between sender and reader stands ReportStore, which the server's        *)
(* InsertDatabase implements: a report may be lost, or wait for long, but  *)
(* is not stored in part or twice.  Times are those of one clock.          *)
(*                                                                         *)
(* An operator commented "Slip" is a wrong version of the one below it,    *)
(* kept to show that some property notices the mistake.                    *)
(***************************************************************************)
EXTENDS ReportText, Analytics

CONSTANTS
  Clients,           \* the threads of the client program
  Modules,           \* the modules of SendThreadFunc, in its order
  Counts,            \* the arguments of --commands to consider
  MaxId, MaxTime,    \* bounds on the ids and the clock
  NoReport,
  timestamp, limit   \* the arguments of the query

(* The commands are words, and std::atoi reads the numbers that            *)
(* std::to_string writes, as long as they are those of some --commands.    *)
(* That a name like "Road" is a string is said for the provers, which know *)
(* no element of STRING.                                                   *)
ASSUME ReportingAssumption ==
  /\ Modules \in Seq(DOMAIN moduleNames \cap DOMAIN allCommands)
  /\ \A id \in DOMAIN moduleNames : moduleNames[id] \in STRING
  /\ \A id \in DOMAIN allCommands : allCommands[id] \subseteq STRING \ {""}
  /\ Counts \subseteq Int
  /\ \A most \in Counts : \A n \in 1 .. Len(Modules) * most :
       ToString(n) \in STRING \ {""} /\ Number[ToString(n)] = n
  /\ MaxId \in Nat /\ MaxTime \in Nat
  /\ timestamp \in Int /\ limit \in Nat

VARIABLES
  clock,
  count,          \* --commands
  running,        \* the client's process lives
  thread,         \* the module a thread is at, by its position, then its last steps
  analytics,      \* the Analytics object of each thread
  selected,       \* history: what was selected for a thread
  inFlight,       \* the reports that were sent and not yet taken from the queue
  inbox, stored, dead,   \* ReportStore
  instances,      \* database: the reports of InstanceTbl, by id
  options, at, instanceCount, recordCounts, inUse   \* Query

clientVars == <<count, running, thread, analytics, selected>>
storeVars == <<inbox, stored, dead, instances>>
queryVars == <<options, at, instanceCount, recordCounts, inUse>>
vars == <<clock, clientVars, inFlight, storeVars, queryVars>>

Says(text) == {Lines(text, j) : j \in DOMAIN text.entries} \ {{}}

Store == INSTANCE ReportStore WITH
  Ids <- 1 .. MaxId,
  Reports <- [from : Clients, DateTime : 0 .. MaxTime, text : Texts],
  Content <- [r \in [from : Clients, DateTime : 0 .. MaxTime, text : Texts] |-> Says(r.text)],
  Lossy <- FALSE

Query == INSTANCE Query WITH
  DateTime <- [id \in DOMAIN instances |-> instances[id].DateTime],
  rows <- UNION {{[InstanceID |-> id, line |-> l] : l \in stored[id]} : id \in DOMAIN stored}

Init ==
  /\ clock = 0
  /\ count \in Counts /\ running = TRUE
  /\ thread = [c \in Clients |-> 1]
  /\ analytics = [c \in Clients |-> <<>>]
  /\ selected = [c \in Clients |-> <<>>]
  /\ inFlight = {}
  /\ Store!Init /\ instances = [id \in {} |-> NoReport]
  /\ Query!Init

-----------------------------------------------------------------------------
(* SendThreadFunc *)
AtModule(c) == running /\ thread[c] \in DOMAIN Modules
Goes(c) == thread' = [thread EXCEPT ![c] = @ + 1]
Collected == Len(Modules) + 1
Gathered == Len(Modules) + 2

CollectCommands(c) ==
  /\ AtModule(c) /\ ~SelectionThrows(count)
  /\ \E commands \in GetCommandSelection(Modules[thread[c]], count) :
       /\ analytics' = [analytics EXCEPT ![c] = AddCommands(@, Modules[thread[c]], commands)]
       /\ selected' = [selected EXCEPT ![c] =
            @ \o [i \in DOMAIN commands |-> <<Modules[thread[c]], commands[i]>>]]
  /\ Goes(c)
  /\ UNCHANGED <<clock, count, running, inFlight, storeVars, queryVars>>

(* An exception of a thread ends the program. *)
SelectionFails(c) ==
  /\ AtModule(c) /\ SelectionThrows(count)
  /\ running' = FALSE
  /\ UNCHANGED <<clock, count, thread, analytics, selected, inFlight, storeVars, queryVars>>

Gather(c) ==
  /\ running /\ thread[c] = Collected
  /\ analytics' = [analytics EXCEPT ![c] = GatherUsage(@)]
  /\ Goes(c)
  /\ UNCHANGED <<clock, count, running, selected, inFlight, storeVars, queryVars>>

(* The time is that of the text, not of its arrival. *)
SendAnalytics(c) ==
  /\ running /\ thread[c] = Gathered
  /\ \E text \in ToJson(analytics[c]) :
       inFlight' = inFlight \cup {[from |-> c, DateTime |-> clock, text |-> text]}
  /\ Goes(c)
  /\ UNCHANGED <<clock, count, running, analytics, selected, storeVars, queryVars>>

-----------------------------------------------------------------------------
(* The server *)
TakeReport ==
  \E r \in inFlight :
    /\ Store!Submit(r)
    /\ inFlight' = inFlight \ {r}
    /\ UNCHANGED <<clock, clientVars, instances, queryVars>>

Serve ==
  /\ Store!Store \/ Store!Discard \/ Store!Die \/ Store!Restart
  /\ instances' = [id \in DOMAIN stored' |->
                     IF id \in DOMAIN instances THEN instances[id] ELSE inbox]
  /\ UNCHANGED <<clock, clientVars, inFlight, queryVars>>

Ask == Query!Next /\ UNCHANGED <<clock, clientVars, inFlight, storeVars>>

Tick ==
  /\ clock < MaxTime /\ clock' = clock + 1
  /\ UNCHANGED <<clientVars, inFlight, storeVars, queryVars>>

Next ==
  \/ \E c \in Clients :
       CollectCommands(c) \/ SelectionFails(c) \/ Gather(c) \/ SendAnalytics(c)
  \/ TakeReport \/ Serve \/ Ask \/ Tick

Spec == Init /\ [][Next]_vars

-----------------------------------------------------------------------------
(* How often a user ran a command: what the numbers should say. *)
Ran(c, id, command) == Cardinality({i \in DOMAIN selected[c] : selected[c][i] = <<id, command>>})

Figure(table, command, n) == [table |-> table, Command |-> command, Count |-> n]

(* What InsertDatabase makes of a report's text is what the user did: a    *)
(* line for every command that was run, in the table of its module, with   *)
(* the number of times, and no other line.  moduleNames of Analytics.h and *)
(* tableNames of SqlUtils.cpp must agree for this, and the counting, the   *)
(* writing of the text and the reading of it.                              *)
ReportSaysUsage ==
  \A r \in inFlight :
    LET lines == UNION Says(r.text)
        ran == {x \in (DOMAIN moduleNames) \X UNION Range(allCommands) :
                  Ran(r.from, x[1], x[2]) > 0}
    IN  /\ Cardinality(lines) = Cardinality(ran)
        /\ {Figure(l.table, l.Command, l.Count) : l \in lines} =
             {Figure(FindTableName(moduleNames[x[1]]), x[2], Ran(r.from, x[1], x[2])) : x \in ran}

(* Those of some reports that have records in a table. *)
RecordsOf(ids, table) == {id \in ids : \E l \in stored[id] : l.table = table}

(* The statements of one query see different moments, but InstanceTbl is   *)
(* asked first.  What is printed of it is the number of certain reports,   *)
(* each of which has records of its own in a table that is asked for, and  *)
(* what is printed of a table counts a record at least for each of those   *)
(* reports that has one there.                                             *)
EveryReportCountedHasRows ==
  at \in {"stats", "done"} =>
    \E ids \in SUBSET Query!Since :
      /\ Cardinality(ids) = instanceCount
      /\ \A id \in ids : \E k \in DOMAIN recordCounts :
           id \in RecordsOf(ids, Query!tableNames[k])
      /\ \A k \in DOMAIN recordCounts :
           Cardinality(RecordsOf(ids, Query!tableNames[k])) <= recordCounts[k]

(* The figures printed for a table are those of the users whose reports    *)
(* were stored up to some moment: the commands run most often, each with   *)
(* the number of times it was run, and all of them below the limit.        *)
StatsAreUsage ==
  \A t \in DOMAIN inUse : \E last \in 0 .. MaxId :
    LET users == {instances[id].from : id \in DOMAIN instances \cap 1 .. last}
        ids == {id \in DOMAIN moduleNames : FindTableName(moduleNames[id]) = Query!tableNames[t]}
        ran(command) == SumFunction([u \in users \X ids |-> Ran(u[1], u[2], command)])
        figures == inUse[t]
        shown == {figures[i].command : i \in DOMAIN figures}
    IN  /\ Cardinality(shown) = Len(figures) /\ Len(figures) <= limit
        /\ \A i \in DOMAIN figures :
             /\ figures[i].sum = ran(figures[i].command) /\ figures[i].sum > 0
             /\ \A command \in UNION Range(allCommands) :
                  ran(command) > figures[i].sum =>
                    \E j \in 1 .. i - 1 : figures[j].command = command
        /\ Len(figures) < limit =>
             \A command \in UNION Range(allCommands) : ran(command) > 0 => command \in shown
=============================================================================
