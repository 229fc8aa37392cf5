# Verification of the analytics client/server

TLA+ specifications of the programs in this repository, the TLC runs that
check them on small instances, and proofs checked by TLAPS. The source is the
only reference: it has no tests, `README.md` is a title, and
`schematic.drawio` draws the parts listed below.

## The system

Clients count the commands their user ran and send one JSON report over TCP.
The server queues the report, acknowledges it, and a second thread writes it to
MySQL. Two programs read the database.

| part | source | state | operations | talks to |
|---|---|---|---|---|
| Report queue | `ServerBA/ProducerConsumer` | `m_queue`, `m_done`, mutex, condition variable, one thread | `Produce`, `Consume`, `StopConsuming` | `InsertDatabase`, called with the mutex held |
| Acceptor and connections | `ServerBA/ServerConnection` | per connection `m_recv`, `m_data`, `m_message`; the static `m_counter` | completion handlers `HandleAccept`, `HandleRead`, `HandleWrite`, all on the thread in `io.run` | `Produce`; TCP peers |
| Report insertion | `Utilities/SqlUtils.cpp` | the open MySQL transaction | `InsertDatabase` | MySQL |
| Server program | `ServerBA/ServerBA.cpp` | the MySQL connection | `main` | builds the queue, then the acceptor, and runs `io` |
| Client simulator | `Client/Client.cpp` | detached sender threads | send, blocking wait for the acknowledgement | server |
| Single-shot client | `Client-one/Client-one.cpp` | one non-blocking socket | connect with timeout, send in chunks, half-close, wait 5 s for the acknowledgement | server |
| Analytics collection | `Utilities/Analytics`, `Commands` | `m_commands`, `m_usage` per module | `AddCommands`, `GatherUsage`, `ToJson` | the clients; its text is what `InsertDatabase` takes apart |
| Query tool | `Query/Query.cpp` | none | `--since`: eight counts; `--stats`: the most used commands of each table; fifteen `SELECT`s | MySQL, beside the server |
| Dashboard | `Dashboard/*` | timer, `CDatabaseThreadMgr`, `m_fetchedResults`, the connection | connect, disconnect, a worker thread every 2 s | MySQL, beside the server |
| Vendored code | `Include`, `Libs` | | | left aside |

What is hard here: two threads around one queue whose mutex is held during
database calls; TCP that cuts reports up against a reader that takes a short
read for the end; an acknowledgement sent before anything is stored; a
transaction spread over many statements each of which may throw; exceptions
that nothing catches; a process that ends in the middle and is started again;
figures read by several statements while others write; in the dashboard,
workers that overlap. `PROJECT.json` lists the hazards at their lines, with the
properties that watch them or the reason why none does.

## Modules

```
ProducerConsumer  <--- MCProducerConsumer, ProducerConsumerProofs
      ^
   ServerBA (INSTANCEs both) <--- MCServerBA
      v
ServerConnection  <--- MCServerConnection, ServerConnectionProofs
      ^
  Transport (INSTANCEs it)
      ^
      +--- ClientOne <--- MCClientOne, ClientOneProofs
      +--- Client    <--- MCClient, ClientProofs (INSTANCEs ClientOneProofs, for
                                                  what is about Transport alone)

ReportText
      ^
InsertDatabase (INSTANCEs ReportStore, which it implements)
      ^--- MCInsertDatabase, InsertDatabaseProofs

System (INSTANCEs ServerBA and InsertDatabase)
      ^--- MCSystem, SystemProofs (INSTANCEs ServerConnectionProofs,
                     ProducerConsumerProofs and InsertDatabaseProofs)

Reporting (EXTENDS Analytics and ReportText, INSTANCEs ReportStore and Query)
      ^--- MCReporting, ReportingProofs

Dashboard <--- MCDashboard, DashboardProofs
```

**ProducerConsumer.** One action per step between two synchronisation points.
`pc[t]` says where a thread is: a producer is `idle`, about to `lock`, about to
`push`, or about to `notify` and leave; the consumer is about to `lock`, about
to `test` the predicate of `m_cv.wait`, asleep (`wait`), in the inner loop
(`drain`: `InsertDatabase` is called or the loop ends) or about to `pop`. The
mutex is the variable `m_mtx`, its owner. `accepted` and `handled` are history
variables. `InsertThrows` sets `terminated`: nothing catches an exception
between `InsertDatabase` and the thread's entry, so `std::terminate` is called.
`StopConsuming` writes `m_done` without the mutex; since each read of `m_done`
is a single step, letting it happen between any two steps covers the old and
the new value. `Produce` is called by one thread in the program; the module is
about any number of them.

**ServerConnection.** The completion handlers. They run on one thread, so `io`
(the connection whose handler is inside `Produce`, or 0) excludes all others.
Reports are byte counts, since only their lengths and cuts decide what
`HandleRead` does; `Deliver`, `Shutdown` and `Reset` are the network and the
peer. `conn[k]` goes `none`, `accepting`, `reading`, `producing`, `writing`,
`closed`. `closed` means that no handler is outstanding, which destroys the
`shared_ptr` and with it the socket.

**InsertDatabase.** The function statement by statement over one connection.
The transaction is explicit (`txInstances`, `txRows`, `autoCommit`), so are
`AUTO_INCREMENT` (`nextId`, never rolled back) and `LAST_INSERT_ID()`. A JSON
value of the wrong type throws like a missing key and is modelled as one. A
command that makes the SQL text malformed throws like any failing statement.
`Throw` can happen wherever the connection is called; `CommitThrows` is the
commit that was made and whose answer was lost. `MayRefuse` lets
`executeUpdate` return 0, the failure the code tests for with `if (ok)`; a
one-row or multi-row `INSERT` reports failure by an exception in practice, so
`System` has it off.

**ReportText.** What the text of a report decides, as `InsertDatabase` reads it:
whether it parses, has the header's keys, and its entries with their words. A
word is what stands left and right of its first comma, and `Number` is
`std::atoi`. `Lines` are the rows an entry becomes. What the commands are called
does not matter, so words are taken apart no further.

**ReportStore.** The promise: a report that says something is stored in one step,
under a new and larger id; one that says nothing leaves no trace. If the store
is `Lossy`, entries may be missing from it, each as a whole. The store may die at
any time; the report it was working on is then stored or not.

**ServerBA.** The two server components together. `CallProduce` is one step of
both (`ReadEnd` and `Call`), `ReturnFromProduce` is another (`ProduceReturned`
and `Notify`), and between them only `InProduce` moves the io thread.
`InsertDatabase` stays one step here.

**System.** The server program from the start of `main` to the end of its
process, and the next process. The steps of the two threads are those of
`ServerBA`, guarded by how far `main` has got (`connecting`, `opening`,
`running`, `ending`); `InsertDatabase`'s steps take the place of the single one,
and its return, or its exception, is one step with `ProducerConsumer`'s. `Kill`
ends the process at any point; so do `Abort`, the exceptions of `InsertDatabase`
and `EndMain`: after an exception of `io.run`, `main` returns and the destructor
of `pc` finds its thread joinable. The end of a process drops the open
transaction and `Restart` resets everything but the database. A report
that was cut does not parse (a proper part of a JSON object never does).

**Transport.** TCP between a client program and the server: the handlers of
`ServerConnection`, with `link[c]` saying which connection a client is at the
far end of, `sent[c]` how many bytes its TCP has taken and `ending[c]` whether
it has closed its side. The listening socket completes handshakes before
anybody accepts (`Establish`, `NextLink`). `AckReadable`, `EndReadable` and
`ErrorReadable` say what a client's `recv` can find. `steady[c]` is chosen once
for each client: whether its network delivers together what one send took.
`serverUp` is whether the server's process runs. `ServerEnds` may come at any
moment: an exception that leaves `Consume` (`ProducerConsumer.cpp:37`) or `io.run`
(`ServerBA.cpp:97`), or a kill. The connections stay as they were and nothing more
happens to them (`ServerRuns`), but the system closes their sockets, so a client
that was not acknowledged finds an end of file or an error. There is one server
process; a client that connects to its successor is a client of another
instance, since no connection outlives a process.

**ClientOne.** `SendAnalytics` of `Client-one.cpp` from socket to close:
non-blocking connect, `select`, the send loop in pieces of `BUFFERSIZE`,
`shutdown`, `select` again, one `recv`. `at[c]` is how far it has got and
`outcome[c]` what it told its user. Partial and failing sends end the loop and
are remembered in `txError`, and the acknowledgement is waited for all the same.
`connTimeout` and `ackTimeout` are computed as the code fills its `timeval`s.

**Client.** The threads of `Client.cpp`, which write once (`write_some`) and read
once without a deadline. They share `process`: an exception leaves any of them
and aborts it, `<Esc>` makes `main` return from under them.

**Dashboard.** The thread that owns the windows (`ui`), the timer (`armed`,
`elapsing`, `tick`), the workers (`at`, `pos`, `connection`) and what they share:
the connection, the copy of it in `CDatabaseThreadMgr` (`mgr`), `m_fetchedResults`
(`store`) and the fields. A value in `store` or `fields` is the number of the
session it was fetched in. No lock orders these threads, only time does, so the
module has a step `Pass` for a unit of it. It assumes that a fetch takes at most
`FetchTime`, that the dialog and connecting take a unit at least, that a thread
begun starts within a unit, and that messages sent by a worker are handled
before the next unit passes when there is a message loop.

**Analytics.** An `Analytics` object belongs to one thread, so it is a value (the
sequence `m_data`), and its functions are operators on it. `unordered_map` has no
order, so `ToJson` is the set of all texts the object may become, one for each
order of the words. `GetCommandSelection` is any sequence of a module's commands;
a negative count makes `std::vector` throw (`SelectionThrows`).

**Query.** `main` of the query tool, with any of its two options, one action per
statement. A table's `GROUP BY ... ORDER BY Sum DESC LIMIT n` is one statement
and one step; commands with equal sums come in any order.

**Reporting.** The way of a number through the system: threads of the client
program collect commands, count them and send the text; `ReportStore` stands for
the server, since `InsertDatabase` implements it; the query reads in between. A
report may lie in the queue for any time (`inFlight`), be lost with a process,
or be stored while the query is between two statements. `selected` remembers
what each user really did, which is what the properties compare with.

Operators commented "Slip" are wrong versions of the operator below them (a
forgotten notification, `=` for `+=`). They take no part in any specification;
replacing the operator by its slip makes the property named in `PROJECT.json`
fail, which shows that the property watches that code.

## Runs

| run | question | result |
|---|---|---|
| `pc_queue` | Two producers, three reports, exceptions, `StopConsuming` at any moment: is a report lost, doubled, overtaken; can the consumer sleep beside it; does every `Produce` return? | no report is, it cannot, it does, unless the process dies; stopping takes effect between batches, finally |
| `sc_safety` | Reports in any pieces, peers that stop or reset at any point | bytes conserved, one report per connection, acknowledged only after `Produce` and only once, acceptor always armed |
| `sc_log` | Does "Tx: Ack n" name the acknowledgement? | violated (`ServerConnection.cpp:69` prints the class's counter) |
| `id_store` | All kinds of reports, exceptions everywhere, statements that add no row, restarts, ids running out | implements `ReportStore`: entries are stored whole; rows stay with their report; the result counts what was stored |
| `sb_server` | Both server threads, peers that reset | the composition implements both component specifications, fairness included |
| `sys_restart` | The whole server and its database, two processes one after the other, killed or failing anywhere | the queue takes what `HandleRead` hands over; the database is a store of whole reports, in that order; an acknowledged report is in it at last, unless its process ends before |
| `co_safety` | Two runs of `Client-one`, a server that may end at any moment: is what it tells its user true of the server's queue? | yes, unless the server's process ends between queueing the report and acknowledging it; and a report that fits into one send is queued whole if the network does not cut it |
| `co_returns` | One run, a server that may never accept or end at any moment, a connection that may break | it ends, and so does the server's connection |
| `co_timeout` | "Timeout in milliseconds" (`Client-one.cpp:12`) | violated: `tv_usec` gets milliseconds (`Client-one.cpp:69`), 2.5 s becomes 2.0005 s |
| `cl_threads` | Two threads of `Client` in one process that may end or abort | what is queued is what was written; the answer comes, but for whole numbers of buffers |
| `d_refresh` | Connect, disconnect, refresh; ticks dispatched late | one worker at a time in the store, no connection closed under it, refreshing goes on, the present session's figures are shown at last |
| `rep_usage` | Two users, a server, a query in between: do the figures say what the users did? | each row does; every report counted has records in a table that is counted after it; the sums of a table are those of the reports stored up to some moment |

`ReportFraming` and `NothingReadAfterProduce` state what the code does to reports
that TCP cuts up: a produced report is a non-empty prefix, never a whole number
of buffers long, and the rest is never read. The server acknowledges it like any
other, so `AckedIsWhole` needs `steady` and a report of one send: a longer report
can be cut after its first send by any network, because 1024 is not a multiple
of 100 and a short read ends the report. `QueuedIsWritten` says the same of
`write_some`, which may itself have taken a part only. `ReadReturns` excludes
what was written in a whole number of buffers: the server reads on, the client
waits without a deadline and without closing its side, and neither ever moves.
`Client-one` half-closes first, so there the server finds an end of file
(`ServerLetsGo`).

`NoAckMeansNotQueued` is about "No acknowledgement was sent, safe to close
connection" (`Client-one.cpp`). The message is printed for an end of file, which
a server that goes on sends only after a read that failed or found nothing. But
when its process ends after `Produce` has queued the report
(`ServerConnection.cpp:53`) and before `async_write` has sent the acknowledgement
(line 56), the system sends the same end of file, and the report may be in the
database. The property says that this is the only such case.

`AckedIsStored` speaks of reports that were read whole and say something, and it
is no stronger than the code: the acknowledgement is sent when the report is
queued, and whatever ends the process takes the queue with it. `StoredInOrder`
says that nothing but the end is lost then: the rows of `InstanceTbl` that a
process adds stand, in the order of their ids and one for one (`StandFor`), for
a beginning of what `HandleRead` handed over, without what says nothing; a commit
whose answer was lost may add one more. Where a statement may be refused
(`MayRefuse`), rows may be missing from the sequence, but never change places.

`EveryReportCountedHasRows` is all that `--since` promises: its eight counts
belong to eight moments, and only their order (`InstanceTbl` first, reports
never deleted) makes them account for each other. The number printed first is
that of certain reports; each of them has records of its own in a table, and
every table's count is at least the number of those that have records in it.
`StatsAreUsage` is about each table alone; two tables may show different moments.

What `d_refresh` does not show: `OneWorkerInStore` and `NotClosedWhileFetching`
rest on the assumption that a fetch is shorter than the timer's period, which
nothing in the code ensures. A worker that outlives the sleep of
`CloseConnection` fills fields that were just cleared, with figures of the old
session; `ShowsThisSession` therefore says only what they come to show.

Comments that say more than the code does, found while reading and not made into
runs: "Wait until the queue is not empty" (`ProducerConsumer.cpp:27`), where the
wait after `StopConsuming` is one that no report ends; "Explicitly flush the send
buffer" (`Client-one.cpp:141`), where `shutdown` follows a failed send too; "Total
sent" (`Client.cpp:134`), which counts threads started; and "called once the work
thread is finished" (`Page1.cpp:155`), which is called by the worker itself, once
for each table.

### Bounds

* `MaxReports` (`pc_queue`), `MaxConnections` (`sc_*`, `sb_server`,
  `sys_restart`, `co_*`, `cl_threads`): with three reports the queue holds one
  being handled, one waiting and one being pushed, which is all the code
  distinguishes. The connection created last is never accepted, so three
  connections are two clients.
* `BufSize` is 2 or 3 for 100, and lengths go to two buffers and a rest:
  shorter than a buffer, exactly full, several reads, and a cut at every byte.
  `BUFFERSIZE` is 3 for 1024: not a multiple of `BufSize`, as in the code, so
  that a report of 4 takes two sends of which the first ends in a short read.
  `co_safety` keeps to reports of 3, of which a partial send leaves 1 or 2;
  `co_returns` takes one client to 4.
* `cl_threads` has reports of one size, of which one `write_some` may take 1, 2
  or 3 bytes: a short read, a full buffer, a full buffer and a rest. Its
  network is steady, since both its properties are about such networks.
* `MaxId` is 3 or 4 for 2^32 - 1. It bounds the number of stored reports and is
  itself a limit the code can meet. The reports of `MCInsertDatabase` take
  every path of the function.
* `sys_restart`: one process that may end and one that follows it; a third
  would find what the second found, a database and nothing else. Each has two
  clients, so that a report can be queued while the one before it is in a
  transaction. The reports have two bytes: whole, or cut in two; one has two
  entries and one says nothing. Peers do not give up here, that is
  `sb_server`'s matter. `MaxId` 4 is one more than there are reports that can
  be stored.
* `rep_usage`: two users are the fewest whose reports can come between two
  statements; two modules, one of which shares a command with the other; 2
  commands each, so that one may be run twice, or none, or -1 for the
  exception. One unit of time has a report before and one after the `--since`
  of the query. With `limit` 1 the order of the figures and the cut both
  matter.
* `d_refresh`: two workers suffice to overlap; a third tick is refused while
  both are alive. Three tables are a first, a middle and a last one. Three
  sessions have one before and one after. A unit of time is a third of the
  timer's period.
* Deadlock is not checked: the systems stop by right when the process has died,
  the bound on reports, connections, calls or sessions is reached, or every
  peer is silent.

### Fairness

Threads that can run do (`WF` on each thread's steps). `std::mutex` promises no
more; weak fairness suffices because the consumer finds the mutex free again
and again only while it has nothing to do. Spurious wakeups end at some time.
`io.run` reaches the handler of every completed operation. `InsertDatabase`
ends, with a result or an exception: this is an assumption about MySQL, since the
code sets no time limit for a statement. Nothing is assumed of clients: they
need not send, finish or read anything. `ServerConnection` assumes that `Produce`
returns; `sb_server` shows that the real queue makes it so as long as no
exception ends the process (it has `MayThrow` off for that reason; `pc_queue` and
`sys_restart` have it on). In `sys_restart` the same threads go on; nobody need
start the program again, end it or connect to it.

In the clients' runs a client's own thread runs on; the two `select`s of
`Client-one` end at their timeouts. Its fairness leaves failing calls out
(`Goes`, not `Fails`), or an error of `select` would end the wait that a
timeout has to end. What a client sent, its end of file included, arrives or
the connection breaks, and the server's handlers run. The server need not
accept: nothing in `SendAnalyticsReturns` depends on it, and `ReadReturns` and
`ServerLetsGo` speak of accepted connections. Nor need its process go on; that it
ends (`ServerEnds`) has no fairness either. In the dashboard the workers and
the clock go on, a waiting tick is dispatched and the sleep ends; the user need
not do anything.

## Proofs

`ProducerConsumerProofs` proves, for any set of producers, any reports, any
bound and with or without `StopConsuming` and exceptions, every safety and
action property of `ProducerConsumer` that the runs check, and that nothing is
handled after `StopConsuming` and the end of a batch (`StoppingIsFinal`). The
only assumption is `ThreadAssumption` (the consumer is not a producer, `Nobody`
is no thread). The inductive invariant `IInv` is the conjunction of `TypeOK`,
`LockDiscipline`, `FifoExactlyOnce`, `PopIsSafe` and `NoLostWakeup`. None of
the last three is inductive alone: that nobody pops or pushes between `front()`
and `pop()`, and that nobody pushes between the test of the predicate and the
sleep, follows from `LockDiscipline`, which needs the types. Each conjunct has
a lemma of its own for one step; `Invariance` joins them, and the action
properties follow from `IInv` and one step.

`ServerConnectionProofs` proves, for every buffer size, every set of report
lengths, any number of connections and any cut of the reports by the network,
the safety and action properties of `sc_safety`. The only assumption is
`SizeAssumption` (sizes are positive). `IInv` adds three facts to the checked
invariants. `CreatedInOrder` and `OneInProduce` say which handler may run next:
without them `AcceptorArmed` is not inductive, and a fresh connection is not
known to start without a byte. `FullBuffersOnly` and `HandedOver` relate
`m_recv` to the framing rule: while a connection reads, `m_recv` is a whole
number of buffers and nothing was handed over; after that it is none and equals
what was handed over. The step that needs arithmetic is that `m + b` is a
multiple of `b` when `m` is and that `m + n` with `0 < n < b` is not
(`FullBuffer`, `ShortRead`), which rest on the uniqueness of a remainder.

`InsertDatabaseProofs` proves, for any reports, any `atoi` and any bound of the
ids, with `MayThrow` and `MayRefuse` free, that `InsertDatabase` implements
`ReportStore`, its action property `ResultIsTruthful`, and four of its invariants;
two of them (`TransactionsEnd`, `EntriesStoredWhole`) the runs check only as part
of the refinement. It assumes
`DatabaseAssumption` and `ReportAssumption` (the shape of a parsed report). `IInv`
joins the types, `InTransaction` (what is uncommitted belongs to a call),
`RowsSoFar` (the open transaction holds the lines of the entries before the
present one), `IdsAreOld` (`AUTO_INCREMENT` is beyond every id in use),
`RowsHaveInstances` and `EntriesAreWhole`. In the refinement a commit maps to the
abstract step that stores the report: `RowsSoFar` says that the rows are then
those of whole entries of the report, and of all of them if no statement was
refused; `IdsAreOld` says that the id is new. `ResultIsTruthful`
needs one invariant more, `InsertsCounted`: `numInserts` is the number of
different entries in the open transaction, because a bulk insert adds rows of an
entry that has none there yet; and `TransactionIsNew`: none of its rows is in the
database before.

`SystemProofs` starts with the two threads of a process (`ServerBA`), for all
sizes and any number of connections, with and without exceptions, and takes what
it can from the proofs of the parts. Every step of the whole is a step of
`ServerConnection` or leaves it alone (`ConnectionsStep`), so its theorems hold
in the whole. The same for `ProducerConsumer` needs an invariant of the other
part: what `HandleRead` puts together is a report of the set the queue was
instantiated with, which follows from `BytesConserved` (`ReceivedAreReports`,
used after the step by `QueueStep`). With the inductive invariants of both parts
at hand (`ServerInv`), `HandedOverInOrder` is inductive by itself, peers that
reset included (`HandOver`), which `sys_restart` leaves out;
`EndToEndOrder` joins it with `ExactlyOnceInOrder`, and `NoReportForgotten` takes
`NoLostWakeup` for a program that never calls `StopConsuming`.

Its second half is about `System`: any number of processes one after the other,
killed or failing anywhere, over one database. It proves `StoredInOrder` and that
the whole server implements `ReportStore`, under `SystemAssumption`: the parts'
assumptions, a client for each connection that may be accepted, no report sent
to two processes (or nobody could tell whose it is in the database), and that a
cut report does not parse. The invariant is `ServerInv`, the invariant of
`InsertDatabase`, and four conjuncts that join them. `WorksOnFront` says that the
report being inserted is the one after those handled, which stays true while the
other thread pushes (`FrontStays`). `SomebodySent` says that a row belongs to
this process or an earlier one; without it a restarted process might find rows
of its own reports. `StoredSoFar` is the claim about rows and positions, whose
four cases are lemmas of their own, free of the state: nothing is due at first
(`NothingDue`), later reports change nothing (`SameTexts`), a report may be passed
over (`PassedOver`), a commit adds a row at the end (`OneMoreRow`). That the row
comes at the end is `IdsAreOld` of `InsertDatabase`; that it stands for something
is `RowsSoFar` (`CommitAdds`). `KnownProcess` bounds the rest. The end of a
process is no step of the queue or of `InsertDatabase`, so `ProcessEndsKeeps` and
`RestartKeeps` prove that one keeps and the other establishes the parts'
invariants. TLC found the conjuncts of `IInv` to hold on the instance of
`sys_restart` before they were proved.

`ClientOneProofs` starts with what both clients' proofs rest on, the lemmas
about `Transport` (up to `WholeStep`). It takes the inductive
invariant of `ServerConnection` over (`ServerInvStep`: every step of `Transport`
is one of its steps or nothing to it) and adds three facts about the ends:
`OwnConnection` (no two clients share one), `OwnReport` (a connection has been
promised its client's report) and `OnlySent` (nothing arrives that was not sent).
The hard steps are `AcceptFails`, which renumbers the connections behind it; it
does no harm because those have not been accepted (`AcceptFailsKeeps`); and
`Establish`, whose `NextLink` is a minimum whose freshness has to be derived
(`Least`, `Greatest`, `NextLinkIsNew`). `WholeStep` is the framing argument: what a
steady network delivered at once is read to its end, and the short read that
ends the report has taken all of it. For the clients, `ServerConnectionProofs`
has one fact more, `SilenceMeansReset`: a connection that handed over a report
and was closed without an acknowledgement was reset by its peer.

The rest of `ClientOneProofs` proves `AckMeansQueued`, `NoAckMeansNotQueued` and
`AckedIsWhole`, for any number of clients, any sizes, any piece of a send taken
and any call failing. `NoAckMeansEnded` is needed for the second, since what the
client concluded from an end of file has to stay true: a closed connection stays
closed, and an ended process does nothing more (`EndIsFinal`);
`OneSend` and `OneSendIsWhole` for the third: a report of one send is taken whole
or not at all unless the loop has ended with an error, and over a steady network
the server hands over what was taken. `ClientProofs` reads the lemmas about `Transport` with its
own variables (`SameState`, `SameNetwork`; they do not depend on what Client-one
adds, so that any values will do for that) and proves `QueuedIsWritten` by
`WrittenOnce` (nothing is sent before `write_some`) and `SteadyIsWhole`; it holds for threads that ended
with the process too, since what their TCP took still arrives. Sizes are
positive, as in the runs; `ClientProofs` also has `IsFiniteSet(Clients)`, for the
number of threads.

`DashboardProofs` proves the three invariants of `Dashboard` for any tables,
workers, sessions and times. That types hold and refreshing goes on needs no
assumption about time. That the workers keep apart (`WorkersTakeTurns`,
`ClosedAfterFetches`) is proved under `QuickEnough`: a fetch is shorter than the
timer's period and the connection dialog takes some time. Neither half can be
dropped: with `FetchTime` equal to the period TLC violates both, with a
`DialogTime` of 0 it violates the first. The code ensures neither, which is why
`QuickEnough` is a hypothesis in the statements and no assumption. The invariant
`Apart` relates what is left of a worker's time to what is left of the timer's
(`FetchEndsFirst`): when the tick comes, nobody is busy (`TickFindsNobody`), nor is
anybody when a connection is made (`ConnectFindsNobody`).

`ReportingProofs` proves the three invariants of `Reporting`, from the command a
user runs to the number that is printed, for any clients, modules, commands,
limits and bounds, whatever is committed between two statements of the query.
The assumption, `ReportingAssumption`, says that modules have names and commands,
that commands are non-empty strings, and that `std::atoi` reads what
`std::to_string` wrote, for the numbers up to the most that `--commands` can lead
to. A negative limit, which is no number of rows, is left out. That the names are
strings is said because the provers know no element of `STRING`. Both loops of
the code are folds in the model (`FoldLeft` in `Gather`, `SumFunction` in the
SQL sums), and nothing of the library says what a fold is. The induction is done
in first order: of the subsets for which something fails there is a smallest one
(`Smallest`), so a fold over a finite set exists and is the only one
(`FoldExists`, `SumRec`), a sum may start with any element (`SumRemove`) and does
not change under an injection that misses only zeros (`SumImage`), and `Gather`
counts occurrences (`FoldCounts`).

* `UsageInv` is behind all three. `ClientInv` relates the objects of a thread to
  the history of what was selected: before `Gather` the commands they hold
  (`Held`), after it the numbers (`Counted`); `OneObject`, since `AddCommands`
  looks for the first object of a module; `AsAsked`, since only numbers up to the
  commands asked for can be read back. `StoreInv` says that a report on its way,
  with the server or committed tells what its sender did (`TextTells` is the
  argument about the text, `ServeGrows` that about the server), and `SentOnce`
  that a client's usage is counted once.
* For `--since`, `QueryInv` has the set of ids that was counted and, for each
  table counted later, at least as many records as those ids have there
  (`CountedBefore`). Reports committed in between only add records (`RecordsKept`);
  the ids are all in the database by the end of the query, and each has a record
  in some table (`CountedHasRows`).
* For `--stats`, `StatsInv` has for each printed table the last id that was
  committed then. The sum over the rows of a command is the sum over the users
  (`SumOfRows`, by `SumImage`: a row is a user and a module, and whoever has no row
  ran the command 0 times); later commits have larger ids (`TotalsKept`); an answer
  in the order of its sums, cut at the limit, is a ranking (`Ranked`).

TLC found `ClientInv`, `StoreInv`, `SentOnce`, `QueryInv` and `StatsInv` to hold on
the instance of `rep_usage` before they were proved. `Query` writes the order of
`main` as one sequence of which some steps were not asked for (`FirstOf`), and its
sums with `SumFunction`, for the proofs' sake.

The parts' invariants were checked by TLC before they were proved, and the
proofs found one slip of the models that no run had shown: in the set of reports
that `System` gives to `InsertDatabase`, `UNION` took in the operand of the `\cup`
behind it in one reading of the grammar; the parentheses are there for that.

Not proved:

* Liveness (`ProduceReturns`, `QueueDrains`, `AckedIsStored`,
  `SendAnalyticsReturns`, `ServerLetsGo`, `ReadReturns`, `ShowsThisSession`, the
  fairness half of `sb_server`) is out of the prover's reach.
* What lies below `Reporting`'s operators: that `std::to_string` and `std::atoi`
  undo each other is an assumption.

## Not modelled, and the plan

Left out for good:

* The vendored libraries. They are most of the lines under `src/` (json, date and
  cxxopts alone are over 50000) and none of the system's logic; where the
  programs depend on what a library does, the modules say so and treat it as
  external.
* Argument parsing, `Trim` and `TrimRight`, and console output (but for the number
  in "Tx: Ack"): they keep no state and decide nothing that is told apart here.
* MFC window code: start-up, property sheet and the connection dialog's fields.
* The memory that `InsertDatabase` leaks when it throws.
* What the MySQL connector makes of numbers beyond 32 bits (`getInt` of a sum in
  `Query.cpp:112`), since the connector's source is not here.
* That a report is committed later than the time it carries, so that successive
  `--since` queries need not add up: `Reporting` has the behaviours, but nothing
  in the repository promises the contrary.

Possible next:

1. Dashboard: the window closed while a worker runs, a connection MySQL drops.
2. A query and a dashboard beside `System` itself in place of `ReportStore`.
