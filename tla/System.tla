-------------------------------- MODULE System --------------------------------
(***************************************************************************)
(* The whole server program over its database: ServerBA/ServerBA.cpp from  *)
(* the start of main to the end of the process, with InsertDatabase in the *)
(* place where module ServerBA has a single step, and the process started  *)
(* again after its end.  What is in memory and on the wire goes with the   *)
(* process, MySQL keeps what was committed.                                *)
(*                                                                         *)
(* A queued report is a connection and how many of its bytes were read.    *)
(* Read whole it says what its client sent; a part of a JSON object does   *)
(* not parse.                                                              *)
(*                                                                         *)
(* An operator commented "Slip" is a wrong version of the one below it,    *)
(* kept to show that some property notices the mistake.                    *)
(***************************************************************************)
EXTENDS Naturals, SequencesExt

CONSTANTS
  BufSize, Lengths, MaxConnections, Segmented, MayThrow,   \* of ServerBA
  Number, MaxId, MayRefuse, NoReport,                      \* of InsertDatabase
  Sends,      \* Sends[n][k]: what the k-th client of the n-th process sends
  Garbled     \* a report that does not parse

VARIABLES
  m_counter, conn, m_recv, io, produced, acked, log,      \* ServerConnection
  length, pending, arrived, peer,                         \* its environment
  m_queue, m_done, m_mtx, pc, arg, accepted, handled,     \* ProducerConsumer
  terminated,                                             \* the process is gone
  at,                                                     \* InsertDatabase's pc
  report, instanceID, numInserts, entry, result,
  autoCommit, lastInsertId, txInstances, txRows,          \* its connection
  nextId, instances, rows,                                \* the database
  main,                                                   \* how far main has got
  process                                                 \* which process this is

BA == INSTANCE ServerBA

ID == INSTANCE InsertDatabase WITH
  pc <- at,
  Reports <- (UNION {Range(Sends[n]) : n \in DOMAIN Sends}) \cup {Garbled}

(* The bound on the processes is the length of Sends.  There is a client   *)
(* for every connection that may be accepted, and the reports of different *)
(* processes can be told apart.                                            *)
ASSUME SystemAssumption ==
  /\ BA!ServerAssumption /\ ID!DatabaseAssumption /\ ID!ReportAssumption
  /\ 1 \in DOMAIN Sends
  /\ \A n \in DOMAIN Sends : 1 .. MaxConnections - 1 \subseteq DOMAIN Sends[n]
  /\ \A n, m \in DOMAIN Sends : \A k \in DOMAIN Sends[n], l \in DOMAIN Sends[m] :
       Sends[n][k] = Sends[m][l] => n = m
  /\ ~Garbled.parses

handlerVars == <<m_counter, conn, m_recv, io, produced, acked, log>>
networkVars == <<length, pending, arrived, peer>>
queueVars == <<m_queue, m_done, m_mtx, pc, arg, accepted, handled>>
serverVars == <<handlerVars, networkVars, queueVars, terminated>>
mainVars == <<main, process>>
insertVars == <<at, report, instanceID, numInserts, entry, result, autoCommit,
                lastInsertId, txInstances, txRows, nextId, instances, rows>>
vars == <<serverVars, insertVars, mainVars>>

Init ==
  /\ BA!Init /\ ID!Init
  /\ main = "connecting" /\ process = 1

Text(r) == IF r.bytes = length[r.conn] THEN Sends[process][r.conn] ELSE Garbled

-----------------------------------------------------------------------------
(* The thread of main.  It is the io thread of ServerBA while it is in     *)
(* io.run; the consumer thread exists as soon as pc is constructed.        *)
At(points) == main \in points /\ ~terminated

Goto(point) == main' = point /\ UNCHANGED <<process, serverVars, insertVars>>

Connect == At({"connecting"}) /\ Goto("opening")

Listen == At({"opening"}) /\ Goto("running")

(* The acceptor cannot be opened, or an exception leaves io.run. *)
CaughtException ==
  /\ At({"opening", "running"}) /\ io = 0
  /\ Goto("ending")

(* MySQL drops the transaction of a connection whose process is gone. *)
ProcessEnds ==
  /\ ID!Terminate /\ ID!EmptyTransaction
  /\ UNCHANGED <<instances, rows, mainVars, handlerVars, networkVars, queueVars>>

(* "Aborting": there is no database and no second thread yet. *)
Abort == At({"connecting"}) /\ ProcessEnds

(* After "Ending." the destructor of pc finds m_thread joinable, and that  *)
(* is std::terminate whatever the consumer is doing.                       *)
EndMain == At({"ending"}) /\ ProcessEnds

(* A crash, a power failure, an operator. *)
Kill == ProcessEnds

-----------------------------------------------------------------------------
(* What module ServerBA says the two threads do. *)
InIoRun(action) == At({"running"}) /\ action /\ UNCHANGED <<insertVars, mainVars>>

Handler(k) == InIoRun(BA!Handler(k))
InProduce == InIoRun(BA!InProduce)
Accept == InIoRun(BA!Accept)

(* That peers may also give up is the matter of module ServerBA. *)
Environment ==
  \E k \in BA!SC!Connections :
    InIoRun(BA!SC!Deliver(k)) /\ UNCHANGED <<queueVars, terminated>>

ConsumerExists == At({"opening", "running", "ending"})

Consume ==
  /\ ConsumerExists
  /\ BA!PC!LockConsumer \/ BA!PC!PredicateHolds \/ BA!PC!Wait \/ BA!PC!Pop \/ BA!PC!EndBatch
  /\ UNCHANGED <<handlerVars, networkVars, insertVars, mainVars>>

Spurious == ConsumerExists /\ BA!Spurious /\ UNCHANGED <<insertVars, mainVars>>

(* The inner loop of Consume, at a front that was not inserted yet. *)
AtFront == pc[BA!Consumer] = "drain" /\ m_queue # <<>> /\ ConsumerExists

(* Slip: back() for front(). *)
InsertCalled_Back ==
  /\ AtFront /\ ID!Call(Text(Last(m_queue)))
  /\ UNCHANGED <<serverVars, mainVars>>

InsertCalled ==
  /\ AtFront /\ ID!Call(Text(Head(m_queue)))
  /\ UNCHANGED <<serverVars, mainVars>>

InsertGoesOn ==
  /\ AtFront
  /\ \/ ID!StartTransaction \/ ID!InsertInstance \/ ID!InstanceRefused \/ ID!LastInsertId
     \/ ID!StartEntries \/ ID!SkipEntry \/ ID!InsertRows \/ ID!RowsRefused
  /\ UNCHANGED <<serverVars, mainVars>>

InsertReturns ==
  /\ AtFront
  /\ ID!ParseError \/ ID!NoInstance \/ ID!Commit \/ ID!Rollback
  /\ BA!PC!InsertReturns
  /\ UNCHANGED <<handlerVars, networkVars, mainVars>>

InsertThrows ==
  /\ AtFront
  /\ ID!Throw \/ ID!CommitThrows
  /\ BA!PC!InsertThrows
  /\ UNCHANGED <<handlerVars, networkVars, mainVars>>

ConsumerThread ==
  Consume \/ InsertCalled \/ InsertGoesOn \/ InsertReturns \/ InsertThrows

-----------------------------------------------------------------------------
Nothing == [k \in BA!SC!Connections |-> 0]

(* Somebody starts the program again. *)
Restart ==
  /\ process + 1 \in DOMAIN Sends
  /\ ID!Restart
  /\ process' = process + 1 /\ main' = "connecting"
  /\ m_counter' = 1 /\ io' = 0
  /\ conn' = [k \in BA!SC!Connections |-> IF k = 1 THEN "accepting" ELSE "none"]
  /\ produced' = <<>> /\ acked' = {} /\ log' = {}
  /\ m_recv' = Nothing /\ length' = Nothing /\ pending' = Nothing /\ arrived' = Nothing
  /\ peer' = [k \in BA!SC!Connections |-> "open"]
  /\ m_queue' = <<>> /\ accepted' = <<>> /\ handled' = <<>>
  /\ m_done' = FALSE /\ m_mtx' = "nobody"
  /\ pc' = [t \in BA!PC!Threads |-> IF t = BA!Consumer THEN "lock" ELSE "idle"]
  /\ UNCHANGED arg

Next ==
  \/ Connect \/ Listen \/ CaughtException \/ Abort \/ EndMain \/ Kill \/ Restart
  \/ \E k \in BA!SC!Connections : Handler(k)
  \/ InProduce \/ Accept \/ Environment
  \/ ConsumerThread \/ Spurious

Spec == Init /\ [][Next]_vars

(* As in ServerBA; InsertDatabase ends because the database answers every  *)
(* call.  Nobody need start the program again, or end it.                  *)
FairSpec ==
  /\ Spec
  /\ \A k \in BA!SC!Connections : WF_vars(Handler(k))
  /\ WF_vars(InProduce) /\ WF_vars(ConsumerThread)
  /\ <>[][~Spurious]_vars

-----------------------------------------------------------------------------
(* What HandleRead handed over, and what of it this process has stored. *)
HandedOver == [p \in DOMAIN produced |-> Text(produced[p])]

Stored == {i \in instances : i.report \in Range(Sends[process])}

(* The positions in texts, up to the n-th, of what has something to say. *)
Due(texts, n) == {p \in 1 .. n : ID!Says(texts[p]) # {}}

(* The rows of InstanceTbl stand, in the order of their ids, for what is   *)
(* due; some of it is missing only where a statement may be refused.       *)
StandFor(stored, texts, n) ==
  \E place \in Injection(stored, Due(texts, n)) :
    /\ \A i \in stored : i.report = texts[place[i]]
    /\ \A i, j \in stored : i.id < j.id => place[i] < place[j]
    /\ MayRefuse \/ Range(place) = Due(texts, n)

(* What HandleRead hands over, the queue takes, in each process and up to  *)
(* its end (ServerBA).                                                     *)
HandedOverInOrder == BA!HandedOverInOrder

(* From HandleRead to the ids of InstanceTbl: what a process stores is, in *)
(* this order and once each, what InsertDatabase was through with, and     *)
(* that is a beginning of what HandleRead put together, without what was   *)
(* cut short.  A commit whose answer was lost may add one at the very end. *)
StoredInOrder ==
  /\ IsPrefix(handled, produced)
  /\ \/ StandFor(Stored, HandedOver, Len(handled))
     \/ /\ terminated /\ Len(handled) < Len(produced)
        /\ StandFor(Stored, HandedOver, Len(handled) + 1)

(* The promise behind an acknowledgement, end to end: a report that was    *)
(* read whole is in the database at last, unless the process ends first.   *)
AckedIsStored ==
  \A n \in DOMAIN Sends : \A k \in DOMAIN Sends[n] :
    (/\ process = n /\ k \in acked
     /\ [conn |-> k, bytes |-> length[k]] \in Range(produced)
     /\ ID!Says(Sends[n][k]) # {})
      ~> (terminated \/ \E i \in instances : i.report = Sends[n][k])

(* However a process ends, and whichever process it is, the database is a  *)
(* store of whole reports: none is lost, changed or added again later.     *)
ImplementsReportStore == ID!ImplementsReportStore
=============================================================================
