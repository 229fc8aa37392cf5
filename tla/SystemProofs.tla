----------------------------- MODULE SystemProofs -----------------------------
(***************************************************************************)
(* The parts of the server keep their promises when they are put together, *)
(* whatever the sizes of buffer and reports and the number of connections, *)
(* and whether or not InsertDatabase throws: first the two threads of one  *)
(* process (ServerBA), then the processes one after the other over their   *)
(* database (System).                                                      *)
(***************************************************************************)
EXTENDS System, Integers, TLAPS

(* The theorems about the parts, read with the variables of the whole. *)
SCT == INSTANCE ServerConnectionProofs

PCT == INSTANCE ProducerConsumerProofs WITH
  Producers <- {BA!IoThread}, Consumer <- BA!Consumer, Nobody <- "nobody",
  Reports <- [conn : BA!SC!Connections, bytes : BA!ReportSizes],
  MaxReports <- MaxConnections, MayStop <- FALSE

IDT == INSTANCE InsertDatabaseProofs WITH
  pc <- at,
  Reports <- (UNION {Range(Sends[n]) : n \in DOMAIN Sends}) \cup {Garbled}

-----------------------------------------------------------------------------
(* The initial state and every step of the whole are one of io.run's part. *)
LEMMA ConnectionsInit == BA!Init => BA!SC!Init
BY DEF BA!Init

(* What is not a step of the handlers or of the network leaves both alone. *)
LEMMA ConnectionsStep == [BA!Next]_BA!vars => [BA!SC!Next]_BA!SC!vars
<1>. SUFFICES ASSUME [BA!Next]_BA!vars PROVE [BA!SC!Next]_BA!SC!vars
  OBVIOUS
<1>. USE DEF BA!handlerVars, BA!networkVars, BA!SC!vars, BA!SC!server, BA!SC!network
<1>1. CASE UNCHANGED BA!vars
  BY <1>1 DEF BA!vars
<1>2. CASE BA!InProduce \/ BA!Consume \/ BA!Spurious
  BY <1>2 DEF BA!InProduce, BA!Consume, BA!Spurious
<1>3. CASE BA!Environment
  BY <1>3 DEF BA!Environment, BA!SC!Next
<1>4. CASE BA!Accept
  BY <1>4 DEF BA!Accept, BA!SC!Next
<1>5. ASSUME NEW k \in BA!SC!Connections, BA!Handler(k) PROVE BA!SC!IoStep
  BY <1>5 DEF BA!Handler, BA!CallProduce, BA!ReturnFromProduce, BA!SC!IoStep
<1>6. QED
  BY <1>1, <1>2, <1>3, <1>4, <1>5 DEF BA!Next, BA!SC!Next

(* HandleRead and its companions behave in the server as module            *)
(* ServerConnection says, although Produce may make them wait.             *)
THEOREM ConnectionsRefined == BA!Spec => BA!SC!Spec
BY ConnectionsInit, ConnectionsStep, PTL DEF BA!Spec, BA!SC!Spec

(* The module of the theorems describes the same steps. *)
LEMMA SameConnections == BA!SC!Init => SCT!Init
BY DEF BA!SC!Init, SCT!Init, BA!SC!Connections, SCT!Connections

(* The same of its next-state relation, action by action. *)
LEMMA SameSteps == [BA!SC!Next]_BA!SC!vars => [SCT!Next]_SCT!vars
BY DEF BA!SC!Next, SCT!Next, BA!SC!Connections, SCT!Connections, BA!SC!IoStep,
  SCT!IoStep, BA!SC!Environment, SCT!Environment, BA!SC!Accepted, SCT!Accepted,
  BA!SC!AcceptFailed, SCT!AcceptFailed, BA!SC!HandleAccept, SCT!HandleAccept,
  BA!SC!ReadMore, SCT!ReadMore, BA!SC!ReadEnd, SCT!ReadEnd, BA!SC!ReadError,
  SCT!ReadError, BA!SC!ProduceReturned, SCT!ProduceReturned, BA!SC!HandleWrite,
  SCT!HandleWrite, BA!SC!HandleRead, SCT!HandleRead, BA!SC!BytesTransferred,
  SCT!BytesTransferred, BA!SC!Deliver, SCT!Deliver, BA!SC!Shutdown, SCT!Shutdown,
  BA!SC!Reset, SCT!Reset, BA!SC!vars, SCT!vars, BA!SC!server, SCT!server, BA!SC!network,
  SCT!network

-----------------------------------------------------------------------------
(* What HandleRead puts together is among the reports the queue is for. *)
ReceivedAreReports == \A k \in BA!SC!Connections : m_recv[k] \in BA!ReportSizes

(* It holds because no connection reads more than its peer sends. *)
LEMMA Received == SCT!IInv => ReceivedAreReports
<1>. SUFFICES ASSUME SCT!IInv, NEW k \in BA!SC!Connections PROVE m_recv[k] \in BA!ReportSizes
  BY DEF ReceivedAreReports
<1>1. k \in SCT!Connections
  BY DEF BA!SC!Connections, SCT!Connections
<1>2. /\ m_recv[k] \in Nat /\ arrived[k] \in Nat /\ pending[k] \in Nat
      /\ length[k] \in Lengths \cup {0}
  BY <1>1 DEF SCT!IInv, SCT!TypeOK
<1>3. m_recv[k] + arrived[k] + pending[k] = length[k]
  BY <1>1 DEF SCT!IInv, SCT!BytesConserved
<1>4. m_recv[k] \in 0 .. length[k]
  BY <1>2, <1>3, SystemAssumption DEF BA!ServerAssumption
<1>5. QED
  BY <1>2, <1>4 DEF BA!ReportSizes

(* Every step of the whole is one of the queue, or none of its business. *)
LEMMA QueueStep == ReceivedAreReports' /\ [BA!Next]_BA!vars => [BA!PC!Next]_BA!PC!vars
<1>. SUFFICES ASSUME ReceivedAreReports', [BA!Next]_BA!vars PROVE [BA!PC!Next]_BA!PC!vars
  OBVIOUS
<1>. USE DEF BA!queueVars, BA!PC!vars
<1>1. CASE UNCHANGED BA!vars
  BY <1>1 DEF BA!vars
<1>2. CASE BA!Accept \/ BA!Environment
  BY <1>2 DEF BA!Accept, BA!Environment
<1>3. CASE BA!InProduce
  BY <1>3 DEF BA!InProduce, BA!PC!Next, BA!PC!ProducerStep
<1>4. CASE BA!Consume \/ BA!Spurious
  BY <1>4 DEF BA!Consume, BA!Spurious, BA!PC!Next
<1>5. ASSUME NEW k \in BA!SC!Connections, BA!Handler(k) PROVE BA!PC!Next \/ UNCHANGED BA!queueVars
  <2>1. CASE BA!CallProduce(k)
    <3>1. [conn |-> k, bytes |-> m_recv'[k]] \in [conn : BA!SC!Connections, bytes : BA!ReportSizes]
      BY DEF ReceivedAreReports
    <3>2. QED
      BY <2>1, <3>1 DEF BA!CallProduce, BA!PC!Next
  <2>2. CASE BA!ReturnFromProduce(k)
    BY <2>2 DEF BA!ReturnFromProduce, BA!PC!Next, BA!PC!ProducerStep
  <2>3. QED
    BY <1>5, <2>1, <2>2 DEF BA!Handler
<1>6. QED
  BY <1>1, <1>2, <1>3, <1>4, <1>5 DEF BA!Next

(* The module of the queue's theorems describes the same initial state. *)
LEMMA SameQueue == BA!PC!Init => PCT!Init
BY DEF BA!PC!Init, PCT!Init, BA!PC!Threads, PCT!Threads

(* And the same steps. *)
LEMMA SameQueueSteps == [BA!PC!Next]_BA!PC!vars => [PCT!Next]_PCT!vars
BY DEF BA!PC!Next, PCT!Next, BA!PC!Threads, PCT!Threads, BA!PC!Goto, PCT!Goto,
  BA!PC!Lock, PCT!Lock, BA!PC!Call, PCT!Call, BA!PC!LockProducer, PCT!LockProducer,
  BA!PC!Push, PCT!Push, BA!PC!Notify, PCT!Notify, BA!PC!LockConsumer,
  PCT!LockConsumer, BA!PC!Predicate, PCT!Predicate, BA!PC!PredicateHolds,
  PCT!PredicateHolds, BA!PC!Wait, PCT!Wait, BA!PC!SpuriousWakeup,
  PCT!SpuriousWakeup, BA!PC!InsertReturns, PCT!InsertReturns, BA!PC!InsertThrows,
  PCT!InsertThrows, BA!PC!Pop, PCT!Pop, BA!PC!EndBatch, PCT!EndBatch,
  BA!PC!StopConsuming, PCT!StopConsuming, BA!PC!ProducerStep, PCT!ProducerStep,
  BA!PC!ConsumerStep, PCT!ConsumerStep, BA!PC!vars, PCT!vars

-----------------------------------------------------------------------------
(* What HandleRead hands over is what the queue takes, in this order: one  *)
(* report is on its way at a time, the caller's, until it is pushed.       *)
LEMMA HandoverStep ==
  PCT!IInv /\ BA!HandedOverInOrder /\ [BA!Next]_BA!vars => BA!HandedOverInOrder'
<1>. SUFFICES ASSUME PCT!IInv, BA!HandedOverInOrder, [BA!Next]_BA!vars PROVE BA!HandedOverInOrder'
  OBVIOUS
<1>. USE DEF BA!HandedOverInOrder, BA!queueVars, BA!handlerVars, BA!networkVars, BA!SC!server
<1>1. /\ BA!IoThread \in DOMAIN pc /\ BA!IoThread \in DOMAIN arg /\ BA!IoThread # BA!Consumer
  BY DEF PCT!IInv, PCT!TypeOK, PCT!Threads, BA!IoThread, BA!Consumer
<1>2. CASE UNCHANGED BA!vars
  BY <1>2 DEF BA!vars
<1>3. CASE BA!InProduce
  <2>1. CASE BA!PC!LockProducer(BA!IoThread)
    BY <1>1, <1>3, <2>1 DEF BA!InProduce, BA!PC!LockProducer, BA!PC!Lock, BA!PC!Goto
  <2>2. CASE BA!PC!Push(BA!IoThread)
    BY <1>1, <1>3, <2>2 DEF BA!InProduce, BA!PC!Push, BA!PC!Goto
  <2>3. QED
    BY <1>3, <2>1, <2>2 DEF BA!InProduce
<1>4. CASE BA!Consume \/ BA!Spurious
  BY <1>1, <1>4 DEF BA!Consume, BA!Spurious, BA!PC!ConsumerStep, BA!PC!LockConsumer, BA!PC!Lock, BA!PC!Goto,
     BA!PC!PredicateHolds, BA!PC!Wait, BA!PC!InsertReturns, BA!PC!InsertThrows, BA!PC!Pop, BA!PC!EndBatch,
     BA!PC!SpuriousWakeup
<1>5. CASE BA!Environment
  BY <1>5 DEF BA!Environment, BA!SC!Environment, BA!SC!Deliver, BA!SC!Shutdown, BA!SC!Reset
<1>6. CASE BA!Accept
  BY <1>6 DEF BA!Accept, BA!SC!Accepted, BA!SC!AcceptFailed, BA!SC!HandleAccept
<1>7. ASSUME NEW k \in BA!SC!Connections, BA!Handler(k) PROVE BA!HandedOverInOrder'
  <2>1. CASE BA!CallProduce(k)
    BY <1>1, <2>1 DEF BA!CallProduce, BA!SC!ReadEnd, BA!PC!Call, BA!PC!Goto
  <2>2. CASE BA!ReturnFromProduce(k)
    BY <1>1, <2>2 DEF BA!ReturnFromProduce, BA!SC!ProduceReturned, BA!PC!Notify
  <2>3. CASE (BA!SC!ReadMore(k) \/ BA!SC!ReadError(k) \/ BA!SC!HandleWrite(k)) /\ UNCHANGED BA!queueVars
    BY <2>3 DEF BA!SC!ReadMore, BA!SC!ReadError, BA!SC!HandleWrite
  <2>4. QED
    BY <1>7, <2>1, <2>2, <2>3 DEF BA!Handler
<1>8. QED
  BY <1>2, <1>3, <1>4, <1>5, <1>6, <1>7 DEF BA!Next

-----------------------------------------------------------------------------
(* What the two threads keep, in one process as in the next. *)
ServerInv == SCT!IInv /\ PCT!IInv /\ BA!HandedOverInOrder

(* A process starts with it ... *)
LEMMA ServerStarts == BA!SC!Init /\ BA!PC!Init => ServerInv
<1>1. SCT!SizeAssumption /\ PCT!ThreadAssumption
  BY SystemAssumption
  DEF BA!ServerAssumption, SCT!SizeAssumption, PCT!ThreadAssumption, BA!IoThread, BA!Consumer
<1>2. BA!SC!Init => SCT!IInv
  BY <1>1, SCT!InitIInv, SameConnections
<1>3. BA!PC!Init => PCT!IInv
  BY <1>1, PCT!InitIInv, SameQueue
<1>4. BA!SC!Init /\ BA!PC!Init => BA!HandedOverInOrder
  BY DEF BA!HandedOverInOrder, BA!SC!Init, BA!PC!Init, BA!PC!Threads, BA!IoThread, BA!Consumer
<1>. QED
  BY <1>2, <1>3, <1>4 DEF ServerInv

(* ... and every later one too. *)
LEMMA ServerStartsAgain == (BA!SC!Init /\ BA!PC!Init => ServerInv)'
BY ServerStarts, PTL

(* The two threads keep it. *)
LEMMA ServerStep == ServerInv /\ [BA!Next]_BA!vars => ServerInv'
<1>1. SCT!SizeAssumption /\ PCT!ThreadAssumption
  BY SystemAssumption
  DEF BA!ServerAssumption, SCT!SizeAssumption, PCT!ThreadAssumption, BA!IoThread, BA!Consumer
<1>2. SCT!IInv /\ [BA!Next]_BA!vars => SCT!IInv'
  BY <1>1, ConnectionsStep, SameSteps, SCT!InvarianceStep
<1>3. (SCT!IInv => ReceivedAreReports)'
  BY Received, PTL
<1>4. PCT!IInv /\ ReceivedAreReports' /\ [BA!Next]_BA!vars => PCT!IInv'
  BY <1>1, QueueStep, SameQueueSteps, PCT!InvarianceStep
<1>. QED
  BY <1>2, <1>3, <1>4, HandoverStep DEF ServerInv

(* So it holds in every state of one process. *)
LEMMA ServerKeeps == BA!Spec => []ServerInv
<1>1. BA!Init => ServerInv
  BY ServerStarts DEF BA!Init
<1>. QED
  BY <1>1, ServerStep, PTL DEF BA!Spec

(* The end of a process takes nothing of it back. *)
LEMMA ServerEnds ==
  ASSUME ServerInv, UNCHANGED <<handlerVars, networkVars, queueVars>>, terminated' \in BOOLEAN
  PROVE  ServerInv'
<1>. USE DEF handlerVars, networkVars, queueVars
<1>1. SCT!IInv'
  <2>1. SCT!SizeAssumption
    BY SystemAssumption DEF BA!ServerAssumption, SCT!SizeAssumption
  <2>2. UNCHANGED SCT!vars
    BY DEF SCT!vars, SCT!server, SCT!network
  <2>. QED
    BY <2>1, <2>2, SCT!InvarianceStep DEF ServerInv
<1>2. PCT!IInv'
  BY DEF ServerInv, PCT!IInv, PCT!TypeOK, PCT!LockDiscipline, PCT!InCriticalSection, PCT!PopIsSafe,
     PCT!FifoExactlyOnce, PCT!Unhandled, PCT!NoLostWakeup
<1>3. BA!HandedOverInOrder'
  BY DEF ServerInv, BA!HandedOverInOrder
<1>. QED
  BY <1>1, <1>2, <1>3 DEF ServerInv

-----------------------------------------------------------------------------
(* What follows for the two threads of a process. *)

(* The queue behaves in the server as module ProducerConsumer says, with   *)
(* the one thread of io.run for its producer.                              *)
THEOREM QueueRefined == BA!Spec => BA!PC!Spec
<1>1. BA!Init => BA!PC!Init
  BY DEF BA!Init
<1>2. ServerInv => ReceivedAreReports
  BY Received DEF ServerInv
<1>. QED
  BY <1>1, <1>2, QueueStep, ServerKeeps, PTL DEF BA!Spec, BA!PC!Spec

(* No report gets lost, doubled or overtaken on its way from HandleRead    *)
(* into the queue, cut reports and exceptions included.                    *)
THEOREM HandOver == BA!Spec => []BA!HandedOverInOrder
<1>1. ServerInv => BA!HandedOverInOrder
  BY DEF ServerInv
<1>. QED
  BY <1>1, ServerKeeps, PTL

(* What the database is given follows what was handed over: it is all of   *)
(* it in the same order, but for what is still in the queue and for the    *)
(* report that Produce has not pushed yet.                                 *)
THEOREM EndToEndOrder ==
  BA!Spec => [](pc[BA!IoThread] \notin {"lock", "push"} => produced = handled \o BA!PC!Unhandled)
<1>1. ServerInv =>
        (pc[BA!IoThread] \notin {"lock", "push"} => produced = handled \o BA!PC!Unhandled)
  BY DEF ServerInv, PCT!IInv, PCT!FifoExactlyOnce, PCT!Unhandled, BA!PC!Unhandled, BA!HandedOverInOrder
<1>2. QED
  BY <1>1, ServerKeeps, PTL

(* The consumer of the server does not sleep beside a report, unless the   *)
(* notification is on its way.                                             *)
THEOREM NoReportForgotten ==
  BA!Spec => [](pc[BA!Consumer] = "wait" => m_queue = <<>> \/ pc[BA!IoThread] = "notify")
<1>1. ServerInv /\ ~m_done => (pc[BA!Consumer] = "wait" => m_queue = <<>> \/ pc[BA!IoThread] = "notify")
  BY DEF ServerInv, PCT!IInv, PCT!NoLostWakeup
<1>2. BA!Init => ~m_done
  BY DEF BA!Init, BA!PC!Init
<1>3. ~m_done /\ [BA!PC!Next]_BA!PC!vars => ~m_done'
  BY DEF BA!PC!Next, BA!PC!vars, BA!PC!StopConsuming, BA!PC!ProducerStep, BA!PC!Call, BA!PC!Goto, BA!PC!LockProducer,
     BA!PC!Lock, BA!PC!Push, BA!PC!Notify, BA!PC!ConsumerStep, BA!PC!LockConsumer, BA!PC!PredicateHolds, BA!PC!Wait,
     BA!PC!InsertReturns, BA!PC!InsertThrows, BA!PC!Pop, BA!PC!EndBatch, BA!PC!SpuriousWakeup
<1>4. QED
  BY <1>1, <1>2, <1>3, ServerKeeps, QueueRefined, PTL DEF BA!PC!Spec, BA!Spec

-----------------------------------------------------------------------------
(* The reports of one process. *)

(* Only accepted connections hand something over, and they stay as they    *)
(* are, what their client sends included.                                  *)
LEMMA Senders ==
  ASSUME ServerInv
  PROVE  /\ produced \in Seq([conn : BA!SC!Connections, bytes : Nat])
         /\ \A p \in DOMAIN produced :
              produced[p].conn \in 1 .. MaxConnections - 1 /\ produced[p].conn # m_counter
<1>. DEFINE R == [conn : BA!SC!Connections, bytes : Nat]
<1>0. SCT!TypeOK /\ SCT!HandedOver /\ SCT!AcceptorArmed /\ SCT!CreatedInOrder
  BY DEF ServerInv, SCT!IInv
<1>1. produced \in Seq(R)
  BY <1>0 DEF SCT!TypeOK, BA!SC!Connections, SCT!Connections
<1>. HIDE DEF R
<1>2. ASSUME NEW p \in DOMAIN produced
      PROVE  produced[p].conn \in 1 .. MaxConnections - 1 /\ produced[p].conn # m_counter
  <2>. DEFINE k == produced[p].conn
  <2>0. produced[p] \in R
    BY <1>1
  <2>1. k \in SCT!Connections /\ m_counter \in SCT!Connections
    BY <1>0, <2>0 DEF R, SCT!TypeOK, BA!SC!Connections, SCT!Connections
  <2>2. conn[k] \in {"producing", "writing", "closed"}
    BY <1>0 DEF SCT!HandedOver
  <2>3. k # m_counter /\ ~(k > m_counter)
    BY <1>0, <2>1, <2>2 DEF SCT!AcceptorArmed, SCT!CreatedInOrder
  <2>. QED
    BY <2>1, <2>3, SystemAssumption DEF BA!ServerAssumption, SCT!Connections
<1>. QED
  BY <1>1, <1>2 DEF R

(* What was handled is the beginning of what was handed over, and the next *)
(* of it is the front that the inner loop of Consume has come to.          *)
LEMMA HandledFirst ==
  ASSUME ServerInv
  PROVE  /\ Len(handled) \in Nat /\ Len(handled) <= Len(produced)
         /\ \A p \in 1 .. Len(handled) : handled[p] = produced[p]
         /\ IsPrefix(handled, produced)
         /\ pc[BA!Consumer] = "drain" /\ m_queue # <<>> =>
              Len(handled) + 1 <= Len(produced) /\ produced[Len(handled) + 1] = Head(m_queue)
<1>. DEFINE R == [conn : BA!SC!Connections, bytes : BA!ReportSizes]
<1>1. /\ handled \in Seq(R) /\ m_queue \in Seq(R) /\ accepted \in Seq(R)
      /\ arg[BA!IoThread] \in R
  BY DEF ServerInv, PCT!IInv, PCT!TypeOK
<1>. HIDE DEF R
<1>2. accepted = handled \o PCT!Unhandled
  BY DEF ServerInv, PCT!IInv, PCT!FifoExactlyOnce
<1>3. PCT!Unhandled \in Seq(R)
  BY <1>1 DEF PCT!Unhandled, ServerInv, PCT!IInv, PCT!PopIsSafe
<1>4. produced \in Seq(R) /\ (produced = accepted \/ produced = Append(accepted, arg[BA!IoThread]))
  BY <1>1 DEF ServerInv, BA!HandedOverInOrder
<1>5. /\ Len(handled) \in Nat /\ Len(produced) \in Nat
      /\ Len(accepted) = Len(handled) + Len(PCT!Unhandled) /\ Len(accepted) <= Len(produced)
      /\ \A p \in 1 .. Len(accepted) : produced[p] = accepted[p]
  <2>1. Len(accepted) = Len(handled) + Len(PCT!Unhandled)
    BY <1>1, <1>2, <1>3
  <2>2. ASSUME produced = Append(accepted, arg[BA!IoThread])
        PROVE  /\ Len(accepted) <= Len(produced)
               /\ \A p \in 1 .. Len(accepted) : produced[p] = accepted[p]
    BY <1>1, <2>2
  <2>. QED
    BY <1>1, <1>4, <2>1, <2>2
<1>6. \A p \in 1 .. Len(handled) : handled[p] = produced[p]
  BY <1>1, <1>2, <1>3, <1>5
<1>7. IsPrefix(handled, produced)
  BY <1>1, <1>3, <1>4, <1>5, <1>6 DEF IsPrefix
<1>8. ASSUME pc[BA!Consumer] = "drain", m_queue # <<>>
      PROVE  Len(handled) + 1 <= Len(produced) /\ produced[Len(handled) + 1] = Head(m_queue)
  <2>1. PCT!Unhandled = m_queue
    BY <1>8 DEF PCT!Unhandled
  <2>2. Len(m_queue) \in Nat \ {0} /\ Head(m_queue) = m_queue[1]
    BY <1>1, <1>8
  <2>3. accepted[Len(handled) + 1] = m_queue[1]
    BY <1>1, <1>2, <2>1, <2>2
  <2>. QED
    BY <1>3, <1>5, <2>1, <2>2, <2>3
<1>. QED
  BY <1>3, <1>5, <1>6, <1>7, <1>8

(* Within a process what was handed over stays, and what it means.         *)
LEMMA ReportsStay ==
  ASSUME ServerInv, [BA!Next]_BA!vars, process' = process
  PROVE  \A p \in DOMAIN produced :
           p \in DOMAIN produced' /\ produced'[p] = produced[p] /\ HandedOver'[p] = HandedOver[p]
<1>1. [SCT!Next]_SCT!vars
  BY ConnectionsStep, SameSteps
<1>2. produced' = produced \/ \E r : produced' = Append(produced, r)
  BY <1>1 DEF SCT!Next, SCT!vars, SCT!server, SCT!IoStep, SCT!ReadMore, SCT!ReadEnd, SCT!ReadError,
     SCT!ProduceReturned, SCT!HandleWrite, SCT!Accepted, SCT!AcceptFailed, SCT!HandleAccept,
     SCT!Environment, SCT!Deliver, SCT!Shutdown, SCT!Reset
<1>3. length' = length \/ \E n : length' = [length EXCEPT ![m_counter] = n]
  BY <1>1 DEF SCT!Next, SCT!vars, SCT!network, SCT!IoStep, SCT!HandleRead, SCT!ReadMore, SCT!ReadEnd,
     SCT!ReadError, SCT!ProduceReturned, SCT!HandleWrite, SCT!Accepted, SCT!AcceptFailed,
     SCT!HandleAccept, SCT!Environment, SCT!Deliver, SCT!Shutdown, SCT!Reset, SCT!server
<1>4. ASSUME NEW p \in DOMAIN produced
      PROVE  p \in DOMAIN produced' /\ produced'[p] = produced[p]
  <2>1. produced \in Seq([conn : BA!SC!Connections, bytes : Nat])
    BY Senders
  <2>. QED
    BY <1>2, <2>1
<1>5. ASSUME NEW p \in DOMAIN produced
      PROVE  HandedOver'[p] = HandedOver[p]
  <2>. DEFINE k == produced[p].conn
  <2>1. k # m_counter /\ k \in SCT!Connections
    BY Senders, SystemAssumption DEF BA!ServerAssumption, SCT!Connections
  <2>2. length'[k] = length[k]
    BY <1>3, <2>1 DEF ServerInv, SCT!IInv, SCT!TypeOK
  <2>3. Text(produced[p])' = Text(produced[p])
    BY <1>4, <2>2 DEF Text
  <2>. QED
    BY <1>4, <2>3 DEF HandedOver
<1>. QED
  BY <1>4, <1>5

-----------------------------------------------------------------------------
(* Rows and what they stand for. *)

(* Where nothing is stored yet nothing is due. *)
LEMMA NothingDue == ASSUME NEW texts PROVE StandFor({}, texts, 0)
<1>. DEFINE none == [i \in {} |-> 0]
<1>1. Due(texts, 0) = {}
  BY DEF Due
<1>2. none \in Injection({}, {}) /\ Range(none) = {}
  BY DEF Injection, IsInjective, Range
<1>. HIDE DEF none
<1>. QED
  BY <1>1, <1>2 DEF StandFor

(* What is handed over later changes nothing. *)
LEMMA SameTexts ==
  ASSUME NEW stored, NEW n \in Nat, NEW texts, NEW more,
         \A p \in 1 .. n : more[p] = texts[p],
         StandFor(stored, texts, n)
  PROVE  StandFor(stored, more, n)
<1>1. Due(more, n) = Due(texts, n)
  BY DEF Due
<1>2. PICK place \in Injection(stored, Due(texts, n)) :
        /\ \A i \in stored : i.report = texts[place[i]]
        /\ \A i, j \in stored : i.id < j.id => place[i] < place[j]
        /\ MayRefuse \/ Range(place) = Due(texts, n)
  BY DEF StandFor
<1>3. \A i \in stored : place[i] \in 1 .. n
  BY <1>2 DEF Injection, Due
<1>4. \A i \in stored : i.report = more[place[i]]
  BY <1>2, <1>3
<1>. QED
  BY <1>1, <1>2, <1>4 DEF StandFor

(* A report that says nothing, or was refused, may be passed over. *)
LEMMA PassedOver ==
  ASSUME NEW stored, NEW n \in Nat, NEW texts,
         MayRefuse \/ ID!Says(texts[n + 1]) = {},
         StandFor(stored, texts, n)
  PROVE  StandFor(stored, texts, n + 1)
<1>1. PICK place \in Injection(stored, Due(texts, n)) :
        /\ \A i \in stored : i.report = texts[place[i]]
        /\ \A i, j \in stored : i.id < j.id => place[i] < place[j]
        /\ MayRefuse \/ Range(place) = Due(texts, n)
  BY DEF StandFor
<1>2. /\ Due(texts, n) \subseteq Due(texts, n + 1)
      /\ MayRefuse \/ Due(texts, n + 1) = Due(texts, n)
  BY DEF Due
<1>3. place \in Injection(stored, Due(texts, n + 1))
  BY <1>2 DEF Injection
<1>. QED
  BY <1>1, <1>2, <1>3 DEF StandFor

(* A row with a new and larger id stands for the next report. *)
LEMMA OneMoreRow ==
  ASSUME NEW stored, NEW n \in Nat, NEW texts, NEW new,
         \A i \in stored : i.id \in Nat /\ i.id < new.id,
         new.id \in Nat, new.report = texts[n + 1],
         ID!Says(texts[n + 1]) # {},
         StandFor(stored, texts, n)
  PROVE  StandFor(stored \cup {new}, texts, n + 1)
<1>1. PICK place \in Injection(stored, Due(texts, n)) :
        /\ \A i \in stored : i.report = texts[place[i]]
        /\ \A i, j \in stored : i.id < j.id => place[i] < place[j]
        /\ MayRefuse \/ Range(place) = Due(texts, n)
  BY DEF StandFor
<1>2. /\ DOMAIN place = stored
      /\ \A i \in stored : place[i] \in Due(texts, n)
      /\ \A i, j \in stored : place[i] = place[j] => i = j
  BY <1>1 DEF Injection, IsInjective
<1>3. /\ Due(texts, n + 1) = Due(texts, n) \cup {n + 1}
      /\ \A p \in Due(texts, n) : p \in 1 .. n
  BY DEF Due
<1>4. new \notin stored
  OBVIOUS
<1>. DEFINE next == [i \in stored \cup {new} |-> IF i = new THEN n + 1 ELSE place[i]]
<1>5. next[new] = n + 1 /\ \A i \in stored : next[i] = place[i]
  BY <1>4
<1>6. DOMAIN next = stored \cup {new} /\ next \in [stored \cup {new} -> Due(texts, n + 1)]
  BY <1>2, <1>3
<1>. HIDE DEF next
<1>7. IsInjective(next)
  BY <1>2, <1>3, <1>5, <1>6 DEF IsInjective
<1>8. \A i \in stored \cup {new} : i.report = texts[next[i]]
  BY <1>1, <1>5
<1>9. \A i, j \in stored \cup {new} : i.id < j.id => next[i] < next[j]
  BY <1>1, <1>2, <1>3, <1>5
<1>10. Range(place) = Due(texts, n) => Range(next) = Due(texts, n + 1)
  BY <1>2, <1>3, <1>5, <1>6 DEF Range
<1>11. next \in Injection(stored \cup {new}, Due(texts, n + 1))
  BY <1>6, <1>7 DEF Injection
<1>. QED
  BY <1>1, <1>8, <1>9, <1>10, <1>11 DEF StandFor

-----------------------------------------------------------------------------
(* InsertDatabase in the system. *)

(* What InsertDatabase assumes the system provides. *)
LEMMA InsertAssumptions == IDT!DatabaseAssumption /\ IDT!ReportAssumption
BY SystemAssumption
DEF ID!DatabaseAssumption, IDT!DatabaseAssumption, ID!ReportAssumption, IDT!ReportAssumption,
    ID!Texts, IDT!Texts, ID!Entries, IDT!Entries, ID!Words, IDT!Words

(* The module of the theorems describes the same state ... *)
LEMMA SameInsertInit == ID!Init => IDT!Init
BY DEF ID!Init, IDT!Init

(* ... the same rows of a report's entries ... *)
LEMMA SameLines == ASSUME NEW r, NEW j PROVE ID!Lines(r, j) = IDT!Lines(r, j)
BY DEF ID!Lines, IDT!Lines, ID!Usable, IDT!Usable, ID!Second, IDT!Second,
   ID!FindTableName, IDT!FindTableName, ID!tableNames, IDT!tableNames

(* ... the same reports that have something to say ... *)
LEMMA SameSays == ASSUME NEW r PROVE ID!Says(r) = IDT!Says(r)
BY SameLines DEF ID!Says, IDT!Says

(* ... and the same steps. *)
LEMMA SameInsertSteps == [ID!Next]_ID!vars => [IDT!Next]_IDT!vars
BY SameLines DEF ID!Next, IDT!Next, ID!vars, IDT!vars, ID!locals, IDT!locals, ID!committed, IDT!committed,
   ID!transaction, IDT!transaction, ID!At, IDT!At, ID!Return, IDT!Return, ID!Call, IDT!Call,
   ID!Step, IDT!Step, ID!ParseError, IDT!ParseError, ID!StartTransaction, IDT!StartTransaction,
   ID!InsertInstance, IDT!InsertInstance, ID!InstanceRefused, IDT!InstanceRefused,
   ID!LastInsertId, IDT!LastInsertId, ID!NoInstance, IDT!NoInstance, ID!StartEntries, IDT!StartEntries,
   ID!SkipEntry, IDT!SkipEntry, ID!InsertRows, IDT!InsertRows, ID!RowsRefused, IDT!RowsRefused,
   ID!Commit, IDT!Commit, ID!Rollback, IDT!Rollback, ID!Throw, IDT!Throw,
   ID!CommitThrows, IDT!CommitThrows, ID!Restart, IDT!Restart, ID!Execute, IDT!Execute,
   ID!EmptyTransaction, IDT!EmptyTransaction, ID!CommitTransaction, IDT!CommitTransaction,
   ID!RollbackTransaction, IDT!RollbackTransaction, ID!InLoop, IDT!InLoop, ID!HasKeys, IDT!HasKeys,
   ID!Bulk, IDT!Bulk, ID!NextEntry, IDT!NextEntry, ID!LoopEnds, IDT!LoopEnds, ID!Rows, IDT!Rows,
   ID!AtDatabaseCall, IDT!AtDatabaseCall, ID!MustThrow, IDT!MustThrow, ID!Terminate, IDT!Terminate

(* What a commit adds: one row, with a larger id than all others, for a    *)
(* report that says something.                                             *)
LEMMA CommitAdds ==
  ASSUME IDT!IInv, ID!LoopEnds, numInserts > 0, ID!CommitTransaction
  PROVE  /\ instances' = instances \cup {[id |-> instanceID, report |-> report]}
         /\ instanceID \in Nat /\ \A i \in instances : i.id \in Nat /\ i.id < instanceID
         /\ report.parses /\ ID!Says(report) # {}
<1>. USE InsertAssumptions
<1>1. IDT!LoopEnds
  BY DEF ID!LoopEnds, IDT!LoopEnds, ID!At, IDT!At
<1>2. /\ IDT!TypeOK /\ IDT!InTransaction /\ IDT!RowsSoFar
      /\ at = "entry"
  BY <1>1 DEF IDT!IInv, IDT!LoopEnds, IDT!At
<1>3. IDT!Pending(instanceID) /\ report.parses
  BY <1>2 DEF IDT!InTransaction
<1>4. instances' = instances \cup {[id |-> instanceID, report |-> report]}
  BY <1>3 DEF IDT!Pending, ID!CommitTransaction
<1>5. instanceID \in Nat /\ \A i \in instances : i.id \in Nat /\ i.id < instanceID
  BY <1>2, <1>3 DEF IDT!Pending, IDT!TypeOK, IDT!Instances, IDT!DatabaseAssumption
<1>6. txRows # {}
  BY <1>2 DEF IDT!RowsSoFar
<1>7. {row.line : row \in txRows} = UNION IDT!Kept(instanceID, report, txRows)
  BY <1>1, <1>2, IDT!TransactionSaysReport
<1>8. IDT!Kept(instanceID, report, txRows) # {}
  BY <1>6, <1>7
<1>9. ID!Says(report) # {}
  BY <1>8, SameSays DEF IDT!Kept
<1>. QED
  BY <1>3, <1>4, <1>5, <1>9

(* The other returns add nothing, and unless statements may be refused the *)
(* report had nothing to be stored.                                        *)
LEMMA NothingAdded ==
  ASSUME IDT!IInv, ID!ParseError \/ ID!NoInstance \/ ID!Rollback
  PROVE  instances' = instances /\ (MayRefuse \/ ID!Says(report) = {})
<1>. USE InsertAssumptions
<1>1. instances' = instances
  BY DEF ID!ParseError, ID!NoInstance, ID!Rollback, ID!RollbackTransaction, ID!committed
<1>2. CASE ID!ParseError
  BY <1>1, <1>2 DEF ID!ParseError, ID!Says
<1>3. CASE ID!NoInstance
  BY <1>1, <1>3 DEF ID!NoInstance, ID!At, IDT!IInv, IDT!InTransaction, IDT!Pending
<1>4. CASE ID!Rollback
  <2>1. IDT!LoopEnds /\ at = "entry" /\ numInserts = 0
    BY <1>4 DEF ID!Rollback, ID!LoopEnds, IDT!LoopEnds, ID!At, IDT!At
  <2>2. /\ txRows = {} => IDT!Kept(instanceID, report, txRows) = {}
        /\ MayRefuse \/ IDT!Kept(instanceID, report, txRows) = IDT!Says(report)
    BY <2>1, IDT!TransactionSaysReport DEF IDT!IInv
  <2>3. txRows = {}
    BY <2>1 DEF IDT!IInv, IDT!RowsSoFar
  <2>. QED
    BY <1>1, <2>2, <2>3, SameSays
<1>. QED
  BY <1>2, <1>3, <1>4

(* Only a commit adds to the database. *)
LEMMA OnlyCommitsAdd ==
  ASSUME IDT!IInv,
         \/ ID!StartTransaction \/ ID!InsertInstance \/ ID!InstanceRefused \/ ID!LastInsertId
         \/ ID!StartEntries \/ ID!SkipEntry \/ ID!InsertRows \/ ID!RowsRefused
  PROVE  instances' = instances /\ at # "idle" /\ at' # "idle" /\ report' = report
<1>. USE DEF ID!At, ID!InLoop, ID!committed, ID!NextEntry
<1>1. CASE ID!InsertInstance \/ ID!InsertRows
  <2>1. ~autoCommit
    BY <1>1 DEF ID!InsertInstance, ID!InsertRows, IDT!IInv, IDT!InTransaction
  <2>. QED
    BY <1>1, <2>1 DEF ID!InsertInstance, ID!InsertRows, ID!Execute
<1>2. CASE ~(ID!InsertInstance \/ ID!InsertRows)
  BY <1>2 DEF ID!StartTransaction, ID!InstanceRefused, ID!LastInsertId, ID!StartEntries,
     ID!SkipEntry, ID!RowsRefused
<1>. QED
  BY <1>1, <1>2

(* The end of a process leaves what is committed as it is. *)
LEMMA DatabaseSurvives ==
  ASSUME IDT!IInv, ID!Terminate, ID!EmptyTransaction, UNCHANGED <<instances, rows>>
  PROVE  IDT!IInv'
<1>. USE DEF ID!Terminate, ID!EmptyTransaction, ID!locals
<1>1. IDT!TypeOK'
  BY DEF IDT!IInv, IDT!TypeOK, IDT!Points, IDT!Instances
<1>2. IDT!InTransaction' /\ IDT!RowsSoFar'
  BY DEF IDT!InTransaction, IDT!RowsSoFar
<1>3. IDT!IdsAreOld' /\ IDT!RowsHaveInstances' /\ IDT!EntriesAreWhole'
  BY DEF IDT!IInv, IDT!IdsAreOld, IDT!RowsHaveInstances, IDT!EntriesAreWhole
<1>. QED
  BY <1>1, <1>2, <1>3 DEF IDT!IInv

-----------------------------------------------------------------------------
(* The processes, one after the other.                                     *)

(* The process is one of those that clients are listed for. *)
KnownProcess == process \in Nat \ {0} /\ process \in DOMAIN Sends

(* InsertDatabase works on the report that Consume has come to. *)
WorksOnFront ==
  at # "idle" =>
    /\ pc[BA!Consumer] = "drain" /\ m_queue # <<>>
    /\ report = HandedOver[Len(handled) + 1]

(* What is in the database some client sent, to this process or before. *)
SomebodySent ==
  \A i \in instances : \E n \in 1 .. process :
    n \in DOMAIN Sends /\ i.report \in Range(Sends[n])

StoredSoFar ==
  \/ StandFor(Stored, HandedOver, Len(handled))
  \/ /\ terminated /\ Len(handled) < Len(produced)
     /\ StandFor(Stored, HandedOver, Len(handled) + 1)

IInv ==
  /\ ServerInv /\ IDT!IInv
  /\ KnownProcess /\ WorksOnFront /\ SomebodySent /\ StoredSoFar

(* Steps that are no business of InsertDatabase. *)
Elsewhere ==
  \/ Connect \/ Listen \/ CaughtException
  \/ \E k \in BA!SC!Connections : Handler(k)
  \/ InProduce \/ Accept \/ Environment \/ Consume \/ Spurious

(* They are steps of the two threads, ... *)
LEMMA ElsewhereStep ==
  ASSUME Elsewhere
  PROVE  /\ [BA!Next]_BA!vars
         /\ UNCHANGED <<insertVars, terminated, process, handled>> /\ ~terminated
<1>. USE DEF serverVars, handlerVars, networkVars, queueVars, BA!vars, BA!handlerVars, BA!networkVars,
        BA!queueVars, At, Goto, InIoRun, mainVars
<1>1. CASE Connect \/ Listen \/ CaughtException
  BY <1>1 DEF Connect, Listen, CaughtException
<1>2. ASSUME NEW k \in BA!SC!Connections, Handler(k)
      PROVE  BA!Next /\ UNCHANGED <<insertVars, terminated, process, handled>> /\ ~terminated
  <2>1. UNCHANGED <<terminated, handled>>
    BY <1>2 DEF Handler, BA!Handler, BA!CallProduce, BA!ReturnFromProduce, BA!PC!Call, BA!PC!Notify
  <2>. QED
    BY <1>2, <2>1 DEF Handler, BA!Next
<1>3. CASE InProduce
  <2>1. UNCHANGED <<terminated, handled>>
    BY <1>3 DEF InProduce, BA!InProduce, BA!PC!LockProducer, BA!PC!Lock, BA!PC!Push
  <2>. QED
    BY <1>3, <2>1 DEF InProduce, BA!Next
<1>4. CASE Accept
  BY <1>4 DEF Accept, BA!Accept, BA!Next
<1>5. CASE Environment
  BY <1>5 DEF Environment, BA!Environment, BA!SC!Environment, BA!Next
<1>6. CASE Consume
  <2>1. UNCHANGED <<terminated, handled>>
    BY <1>6 DEF Consume, BA!PC!LockConsumer, BA!PC!Lock, BA!PC!PredicateHolds, BA!PC!Wait, BA!PC!Pop,
       BA!PC!EndBatch
  <2>. QED
    BY <1>6, <2>1 DEF Consume, ConsumerExists, BA!Consume, BA!PC!ConsumerStep, BA!Next
<1>7. CASE Spurious
  <2>1. UNCHANGED <<terminated, handled>>
    BY <1>7 DEF Spurious, BA!Spurious, BA!PC!SpuriousWakeup
  <2>. QED
    BY <1>7, <2>1 DEF Spurious, ConsumerExists, BA!Next
<1>. QED
  BY <1>1, <1>2, <1>3, <1>4, <1>5, <1>6, <1>7 DEF Elsewhere

(* ... and leave the front of the queue where the consumer has found it. *)
LEMMA FrontStays ==
  ASSUME ServerInv, Elsewhere, pc[BA!Consumer] = "drain", m_queue # <<>>
  PROVE  pc'[BA!Consumer] = "drain" /\ m_queue' # <<>>
<1>. USE DEF serverVars, queueVars, BA!queueVars, InIoRun, Goto, BA!PC!Goto, BA!IoThread, BA!Consumer
<1>1. /\ BA!Consumer \in DOMAIN pc /\ BA!IoThread \in DOMAIN pc
      /\ \E R : m_queue \in Seq(R)
  BY DEF ServerInv, PCT!IInv, PCT!TypeOK, PCT!Threads
<1>2. CASE Connect \/ Listen \/ CaughtException \/ Accept \/ Environment
  BY <1>2 DEF Connect, Listen, CaughtException, Accept, BA!Accept, Environment
<1>3. ASSUME NEW k \in BA!SC!Connections, Handler(k) PROVE pc'[BA!Consumer] = "drain" /\ m_queue' = m_queue
  BY <1>1, <1>3 DEF Handler, BA!Handler, BA!CallProduce, BA!ReturnFromProduce, BA!PC!Call, BA!PC!Notify
<1>4. CASE InProduce
  BY <1>1, <1>4 DEF InProduce, BA!InProduce, BA!PC!LockProducer, BA!PC!Lock, BA!PC!Push
<1>5. CASE Consume \/ Spurious
  BY <1>1, <1>5 DEF Consume, BA!PC!LockConsumer, BA!PC!Lock, BA!PC!PredicateHolds, BA!PC!Wait, BA!PC!Pop,
     BA!PC!EndBatch, Spurious, BA!Spurious, BA!PC!SpuriousWakeup
<1>. QED
  BY <1>2, <1>3, <1>4, <1>5 DEF Elsewhere

(* What is handed over is what a client of this process sends, or garbled. *)
LEMMA SentOrGarbled ==
  ASSUME ServerInv, KnownProcess, NEW p \in DOMAIN produced
  PROVE  HandedOver[p] = Garbled \/ HandedOver[p] \in Range(Sends[process])
<1>1. produced[p].conn \in DOMAIN Sends[process]
  BY Senders, SystemAssumption DEF KnownProcess
<1>. QED
  BY <1>1 DEF HandedOver, Text, Range

(* What the inner loop of Consume has before it. *)
LEMMA AtFrontFacts ==
  ASSUME IInv, AtFront
  PROVE  /\ Len(handled) \in Nat /\ Len(handled) + 1 \in DOMAIN produced
         /\ produced[Len(handled) + 1] = Head(m_queue)
         /\ HandedOver[Len(handled) + 1] = Text(Head(m_queue))
<1>1. /\ Len(handled) \in Nat /\ Len(handled) + 1 <= Len(produced)
      /\ produced[Len(handled) + 1] = Head(m_queue)
  BY HandledFirst DEF IInv, AtFront
<1>2. \E R : produced \in Seq(R)
  BY Senders DEF IInv
<1>3. Len(handled) + 1 \in DOMAIN produced
  BY <1>1, <1>2
<1>. QED
  BY <1>1, <1>3 DEF HandedOver

(* While nothing is added and nothing handled, what is stored stands for   *)
(* the same reports.                                                       *)
LEMMA StoredStays ==
  ASSUME IInv, ~terminated, [BA!Next]_BA!vars,
         UNCHANGED <<process, instances, handled>>
  PROVE  SomebodySent' /\ StoredSoFar'
<1>1. SomebodySent'
  BY DEF IInv, SomebodySent
<1>2. StandFor(Stored, HandedOver, Len(handled)) /\ Stored' = Stored
  BY DEF IInv, StoredSoFar, Stored
<1>3. Len(handled) \in Nat /\ \A p \in 1 .. Len(handled) : p \in DOMAIN produced
  <2>1. \E R : produced \in Seq(R)
    BY Senders DEF IInv
  <2>. QED
    BY <2>1, HandledFirst DEF IInv
<1>4. \A p \in 1 .. Len(handled) : HandedOver'[p] = HandedOver[p]
  BY <1>3, ReportsStay DEF IInv
<1>5. StandFor(Stored, HandedOver', Len(handled))
  BY <1>2, <1>3, <1>4, SameTexts
<1>6. StandFor(Stored, HandedOver, Len(handled))'
  BY <1>2, <1>5
<1>. QED
  BY <1>1, <1>6 DEF StoredSoFar

(* Steps elsewhere keep the invariant. *)
LEMMA ElsewhereKeeps == ASSUME IInv, Elsewhere PROVE IInv'
<1>1. /\ [BA!Next]_BA!vars /\ ~terminated
      /\ UNCHANGED <<insertVars, terminated, process, handled>>
  BY ElsewhereStep
<1>2. ServerInv'
  BY <1>1, ServerStep DEF IInv
<1>3. IDT!IInv'
  <2>1. UNCHANGED IDT!vars
    BY <1>1 DEF insertVars, IDT!vars, IDT!locals, IDT!transaction, IDT!committed
  <2>. QED
    BY <2>1, InsertAssumptions, IDT!InvarianceStep DEF IInv
<1>4. KnownProcess'
  BY <1>1 DEF IInv, KnownProcess
<1>5. WorksOnFront'
  <2>1. SUFFICES ASSUME at # "idle" PROVE WorksOnFront'
    BY <1>1 DEF WorksOnFront, insertVars
  <2>2. pc[BA!Consumer] = "drain" /\ m_queue # <<>> /\ report = HandedOver[Len(handled) + 1]
    BY <2>1 DEF IInv, WorksOnFront
  <2>3. pc'[BA!Consumer] = "drain" /\ m_queue' # <<>>
    BY <2>2, FrontStays DEF IInv
  <2>4. Len(handled) + 1 \in DOMAIN produced
    <3>1. \E R : produced \in Seq(R)
      BY Senders DEF IInv
    <3>. QED
      BY <2>2, <3>1, HandledFirst DEF IInv
  <2>5. HandedOver'[Len(handled) + 1] = HandedOver[Len(handled) + 1]
    BY <1>1, <2>4, ReportsStay DEF IInv
  <2>. QED
    BY <1>1, <2>2, <2>3, <2>5 DEF WorksOnFront, insertVars
<1>6. SomebodySent' /\ StoredSoFar'
  BY <1>1, StoredStays DEF insertVars
<1>. QED
  BY <1>2, <1>3, <1>4, <1>5, <1>6 DEF IInv

(* Consume calls InsertDatabase with a report that it is for. *)
LEMMA CalledWithReport ==
  ASSUME IInv, InsertCalled
  PROVE  \E r \in (UNION {Range(Sends[n]) : n \in DOMAIN Sends}) \cup {Garbled} : ID!Call(r)
<1>1. /\ Len(handled) + 1 \in DOMAIN produced
      /\ HandedOver[Len(handled) + 1] = Text(Head(m_queue))
  BY AtFrontFacts DEF InsertCalled
<1>2. Text(Head(m_queue)) \in (UNION {Range(Sends[n]) : n \in DOMAIN Sends}) \cup {Garbled}
  BY <1>1, SentOrGarbled DEF IInv, KnownProcess
<1>. QED
  BY <1>2 DEF InsertCalled, ID!Call

(* Consume calls InsertDatabase. *)
LEMMA InsertCalledKeeps == ASSUME IInv, InsertCalled PROVE IInv'
<1>. USE DEF InsertCalled, serverVars, handlerVars, networkVars, queueVars, mainVars
<1>. DEFINE text == Text(Head(m_queue))
<1>1. /\ Len(handled) + 1 \in DOMAIN produced
      /\ HandedOver[Len(handled) + 1] = text
  BY AtFrontFacts
<1>2. /\ UNCHANGED BA!vars /\ ~terminated
      /\ UNCHANGED <<process, instances, handled, HandedOver>>
  BY DEF BA!vars, BA!handlerVars, BA!networkVars, BA!queueVars, ID!Call, ID!At, ID!committed,
     HandedOver, Text
<1>3. ServerInv'
  BY <1>2, ServerStep DEF IInv
<1>4. IDT!IInv'
  <2>1. \E r \in (UNION {Range(Sends[n]) : n \in DOMAIN Sends}) \cup {Garbled} : ID!Call(r)
    BY CalledWithReport
  <2>2. ID!Next
    BY <2>1 DEF ID!Next
  <2>. QED
    BY <2>2, SameInsertSteps, InsertAssumptions, IDT!InvarianceStep DEF IInv
<1>5. KnownProcess' /\ WorksOnFront'
  BY <1>1, <1>2 DEF IInv, KnownProcess, WorksOnFront, AtFront, ID!Call
<1>. QED
  BY <1>2, <1>3, <1>4, <1>5, StoredStays DEF IInv

(* Its statements up to its end change nothing in the database. *)
LEMMA InsertGoesOnKeeps == ASSUME IInv, InsertGoesOn PROVE IInv'
<1>. USE DEF InsertGoesOn, serverVars, handlerVars, networkVars, queueVars, mainVars
<1>1. instances' = instances /\ at # "idle" /\ at' # "idle" /\ report' = report
  BY OnlyCommitsAdd DEF IInv
<1>2. /\ UNCHANGED BA!vars /\ ~terminated
      /\ UNCHANGED <<process, handled, HandedOver>>
  BY DEF BA!vars, BA!handlerVars, BA!networkVars, BA!queueVars, AtFront, ConsumerExists, At,
     HandedOver, Text
<1>3. ServerInv'
  BY <1>2, ServerStep DEF IInv
<1>4. IDT!IInv'
  <2>1. ID!Next
    BY DEF ID!Next, ID!Step
  <2>. QED
    BY <2>1, SameInsertSteps, InsertAssumptions, IDT!InvarianceStep DEF IInv
<1>5. KnownProcess' /\ WorksOnFront'
  BY <1>1, <1>2 DEF IInv, KnownProcess, WorksOnFront
<1>. QED
  BY <1>1, <1>2, <1>3, <1>4, <1>5, StoredStays DEF IInv

(* A commit adds the row of the report that Consume is at, and none else.  *)
LEMMA CommitStands ==
  ASSUME IInv, AtFront, ID!LoopEnds, numInserts > 0, ID!CommitTransaction,
         UNCHANGED <<process, HandedOver>>
  PROVE  SomebodySent' /\ StandFor(Stored', HandedOver', Len(handled) + 1)
<1>. DEFINE new == [id |-> instanceID, report |-> report]
            n == Len(handled)
<1>1. /\ instances' = instances \cup {new}
      /\ instanceID \in Nat /\ \A i \in instances : i.id \in Nat /\ i.id < instanceID
      /\ report.parses /\ ID!Says(report) # {}
  BY CommitAdds DEF IInv
<1>2. /\ n \in Nat /\ n + 1 \in DOMAIN produced
      /\ report = HandedOver[n + 1]
  BY AtFrontFacts DEF IInv, WorksOnFront, ID!LoopEnds, ID!At
<1>3. report \in Range(Sends[process])
  BY <1>1, <1>2, SentOrGarbled, SystemAssumption DEF IInv
<1>4. new.id = instanceID /\ new.report = report
  OBVIOUS
<1>. HIDE DEF new
<1>5. Stored' = Stored \cup {new} /\ Stored \subseteq instances
  BY <1>1, <1>3, <1>4 DEF Stored
<1>6. StandFor(Stored, HandedOver, n)
  BY DEF IInv, StoredSoFar, ID!LoopEnds, ID!At
<1>7. StandFor(Stored \cup {new}, HandedOver, n + 1)
  BY <1>1, <1>2, <1>4, <1>5, <1>6, OneMoreRow
<1>8. SomebodySent'
  <2>1. process \in 1 .. process /\ process \in DOMAIN Sends
    BY DEF IInv, KnownProcess
  <2>. QED
    BY <1>1, <1>3, <1>4, <2>1 DEF IInv, SomebodySent
<1>. QED
  BY <1>5, <1>7, <1>8

(* InsertDatabase returns: what it was through with is one report more.    *)
LEMMA InsertReturnsKeeps == ASSUME IInv, InsertReturns PROVE IInv'
<1>. USE DEF InsertReturns, handlerVars, networkVars, mainVars
<1>. DEFINE n == Len(handled)
<1>1. /\ BA!Next /\ ~terminated
      /\ UNCHANGED <<process, produced, length, HandedOver>>
  BY DEF BA!Next, BA!Consume, BA!PC!ConsumerStep, BA!handlerVars, BA!networkVars, AtFront, ConsumerExists,
     At, HandedOver, Text
<1>2. ServerInv'
  BY <1>1, ServerStep DEF IInv
<1>3. ID!Next /\ at' = "idle" /\ ~terminated'
  BY <1>1 DEF ID!Next, ID!Step, ID!ParseError, ID!NoInstance, ID!Commit, ID!Rollback, ID!Return
<1>4. IDT!IInv'
  BY <1>3, SameInsertSteps, InsertAssumptions, IDT!InvarianceStep DEF IInv
<1>5. KnownProcess' /\ WorksOnFront'
  BY <1>1, <1>3 DEF IInv, KnownProcess, WorksOnFront
<1>6. n \in Nat /\ Len(handled') = n + 1
  <2>1. handled' = Append(handled, Head(m_queue))
    BY DEF BA!PC!InsertReturns
  <2>2. \E R : handled \in Seq(R)
    BY DEF IInv, ServerInv, PCT!IInv, PCT!TypeOK
  <2>. QED
    BY <2>1, <2>2
<1>7. SomebodySent' /\ StandFor(Stored', HandedOver', n + 1)
  <2>1. CASE ID!Commit
    BY <1>1, <2>1, CommitStands DEF ID!Commit
  <2>2. CASE ID!ParseError \/ ID!NoInstance \/ ID!Rollback
    <3>1. /\ instances' = instances /\ at # "idle"
          /\ MayRefuse \/ ID!Says(report) = {}
      BY <2>2, NothingAdded DEF IInv, ID!ParseError, ID!NoInstance, ID!Rollback, ID!LoopEnds, ID!At
    <3>2. MayRefuse \/ ID!Says(HandedOver[n + 1]) = {}
      BY <3>1 DEF IInv, WorksOnFront
    <3>3. StandFor(Stored, HandedOver, n) /\ Stored' = Stored
      BY <1>1, <3>1 DEF IInv, StoredSoFar, Stored
    <3>4. StandFor(Stored, HandedOver, n + 1)
      BY <1>6, <3>2, <3>3, PassedOver
    <3>. QED
      BY <1>1, <3>1, <3>3, <3>4 DEF IInv, SomebodySent
  <2>. QED
    BY <2>1, <2>2
<1>8. StoredSoFar'
  BY <1>6, <1>7 DEF StoredSoFar
<1>. QED
  BY <1>2, <1>4, <1>5, <1>7, <1>8 DEF IInv

(* An exception ends the process with the report stored or not stored. *)
LEMMA InsertThrowsKeeps == ASSUME IInv, InsertThrows PROVE IInv'
<1>. USE DEF InsertThrows, handlerVars, networkVars, mainVars
<1>. DEFINE n == Len(handled)
<1>1. /\ BA!Next /\ ~terminated /\ terminated'
      /\ UNCHANGED <<process, produced, handled, length, HandedOver>>
  BY DEF BA!Next, BA!Consume, BA!PC!ConsumerStep, BA!PC!InsertThrows, BA!handlerVars, BA!networkVars,
     AtFront, ConsumerExists, At, HandedOver, Text
<1>2. ServerInv'
  BY <1>1, ServerStep DEF IInv
<1>3. ID!Next /\ at' = "idle"
  BY DEF ID!Next, ID!Step, ID!Throw, ID!CommitThrows, ID!Terminate
<1>4. IDT!IInv'
  BY <1>3, SameInsertSteps, InsertAssumptions, IDT!InvarianceStep DEF IInv
<1>5. KnownProcess' /\ WorksOnFront'
  BY <1>1, <1>3 DEF IInv, KnownProcess, WorksOnFront
<1>6. CASE ID!Throw
  <2>1. instances' = instances
    BY <1>6 DEF ID!Throw, ID!committed
  <2>2. SomebodySent' /\ StoredSoFar'
    BY <1>1, <2>1, StoredStays
  <2>. QED
    BY <1>2, <1>4, <1>5, <2>2 DEF IInv
<1>7. CASE ID!CommitThrows
  <2>1. SomebodySent' /\ StandFor(Stored', HandedOver', n + 1)
    BY <1>1, <1>7, CommitStands DEF ID!CommitThrows
  <2>2. n < Len(produced)
    BY HandledFirst DEF IInv, AtFront
  <2>3. StoredSoFar'
    BY <1>1, <2>1, <2>2 DEF StoredSoFar
  <2>. QED
    BY <1>2, <1>4, <1>5, <2>1, <2>3 DEF IInv
<1>. QED
  BY <1>6, <1>7

(* The end of a process, wherever its threads are, leaves the database as  *)
(* it is.                                                                  *)
LEMMA ProcessEndsKeeps == ASSUME IInv, ProcessEnds PROVE IInv'
<1>. USE DEF ProcessEnds, mainVars
<1>1. ~terminated /\ terminated' = TRUE /\ at' = "idle"
  BY DEF ID!Terminate
<1>2. UNCHANGED <<process, instances, handled, HandedOver>>
  BY DEF handlerVars, networkVars, queueVars, HandedOver, Text
<1>3. ServerInv'
  BY <1>1, ServerEnds DEF IInv
<1>4. IDT!IInv'
  BY DatabaseSurvives DEF IInv
<1>5. KnownProcess' /\ WorksOnFront'
  BY <1>1, <1>2 DEF IInv, KnownProcess, WorksOnFront
<1>6. SomebodySent' /\ StoredSoFar'
  <2>1. StandFor(Stored, HandedOver, Len(handled)) /\ Stored' = Stored
    BY <1>1, <1>2 DEF IInv, StoredSoFar, Stored
  <2>. QED
    BY <1>2, <2>1 DEF IInv, SomebodySent, StoredSoFar
<1>. QED
  BY <1>3, <1>4, <1>5, <1>6 DEF IInv

(* The next process starts with nothing in memory, and nothing in the      *)
(* database is from its clients.                                           *)
LEMMA RestartKeeps == ASSUME IInv, Restart PROVE IInv'
<1>. USE DEF Restart
<1>1. BA!SC!Init'
  BY DEF BA!SC!Init, Nothing
<1>2. BA!PC!Init'
  <2>1. arg \in [{BA!IoThread} -> [conn : BA!SC!Connections, bytes : BA!ReportSizes]]
    BY DEF IInv, ServerInv, PCT!IInv, PCT!TypeOK
  <2>2. terminated' = FALSE
    BY DEF ID!Restart
  <2>. QED
    BY <2>1, <2>2 DEF BA!PC!Init
<1>3. ServerInv'
  BY <1>1, <1>2, ServerStartsAgain
<1>4. IDT!IInv'
  <2>1. ID!Next
    BY DEF ID!Next
  <2>. QED
    BY <2>1, SameInsertSteps, InsertAssumptions, IDT!InvarianceStep DEF IInv
<1>5. KnownProcess' /\ WorksOnFront' /\ instances' = instances
  <2>1. at = "idle"
    BY DEF ID!Restart, IInv, IDT!IInv, IDT!InTransaction
  <2>. QED
    BY <2>1 DEF ID!Restart, ID!committed, IInv, KnownProcess, WorksOnFront
<1>6. SomebodySent'
  BY <1>5 DEF IInv, KnownProcess, SomebodySent
<1>7. Stored' = {}
  <2>1. SUFFICES ASSUME NEW i \in instances, i.report \in Range(Sends[process + 1]) PROVE FALSE
    BY <1>5 DEF Stored
  <2>2. PICK m \in 1 .. process : m \in DOMAIN Sends /\ i.report \in Range(Sends[m])
    BY DEF IInv, SomebodySent
  <2>3. m = process + 1
    BY <2>1, <2>2, SystemAssumption DEF Range
  <2>. QED
    BY <2>3 DEF IInv, KnownProcess
<1>8. StoredSoFar'
  <2>1. Len(handled') = 0
    OBVIOUS
  <2>. QED
    BY <1>7, <2>1, NothingDue DEF StoredSoFar
<1>. QED
  BY <1>3, <1>4, <1>5, <1>6, <1>8 DEF IInv

(* The first process starts with an empty database. *)
LEMMA InitIInv == Init => IInv
<1>. SUFFICES ASSUME Init PROVE IInv
  OBVIOUS
<1>. USE DEF Init
<1>1. ServerInv
  BY ServerStarts DEF BA!Init
<1>2. IDT!IInv
  BY SameInsertInit, InsertAssumptions, IDT!InitIInv
<1>3. KnownProcess /\ WorksOnFront /\ SomebodySent
  BY SystemAssumption DEF KnownProcess, WorksOnFront, SomebodySent, ID!Init
<1>4. StoredSoFar
  <2>1. Stored = {} /\ Len(handled) = 0
    BY DEF Stored, ID!Init, BA!Init, BA!PC!Init
  <2>. QED
    BY <2>1, NothingDue DEF StoredSoFar
<1>. QED
  BY <1>1, <1>2, <1>3, <1>4 DEF IInv

(* Every step keeps the invariant. *)
LEMMA InvarianceStep == IInv /\ [Next]_vars => IInv'
<1>. SUFFICES ASSUME IInv, [Next]_vars PROVE IInv'
  OBVIOUS
<1>1. CASE Elsewhere
  BY <1>1, ElsewhereKeeps
<1>2. CASE InsertCalled
  BY <1>2, InsertCalledKeeps
<1>3. CASE InsertGoesOn
  BY <1>3, InsertGoesOnKeeps
<1>4. CASE InsertReturns
  BY <1>4, InsertReturnsKeeps
<1>5. CASE InsertThrows
  BY <1>5, InsertThrowsKeeps
<1>6. CASE Abort \/ EndMain \/ Kill
  BY <1>6, ProcessEndsKeeps DEF Abort, EndMain, Kill
<1>7. CASE Restart
  BY <1>7, RestartKeeps
<1>8. CASE UNCHANGED vars
  <2>1. UNCHANGED <<HandedOver, Stored, BA!vars, IDT!vars>>
    BY <1>8 DEF vars, serverVars, handlerVars, networkVars, queueVars, insertVars, mainVars, HandedOver,
       Text, Stored, BA!vars, BA!handlerVars, BA!networkVars, BA!queueVars, IDT!vars, IDT!locals,
       IDT!transaction, IDT!committed
  <2>2. ServerInv' /\ IDT!IInv'
    BY <2>1, ServerStep, InsertAssumptions, IDT!InvarianceStep DEF IInv
  <2>. QED
    BY <1>8, <2>1, <2>2 DEF vars, serverVars, queueVars, handlerVars, insertVars, mainVars, IInv,
       KnownProcess, WorksOnFront, SomebodySent, StoredSoFar
<1>. QED
  BY <1>1, <1>2, <1>3, <1>4, <1>5, <1>6, <1>7, <1>8 DEF Next, ConsumerThread, Elsewhere

(* In every process what is known of the parts goes on to hold. *)
THEOREM Invariance == Spec => []IInv
BY InitIInv, InvarianceStep, PTL DEF Spec

(* What HandleRead hands over the queue takes, in order and once each, in  *)
(* every process and up to its end.                                        *)
THEOREM HandOverInEveryProcess == Spec => []HandedOverInOrder
<1>1. IInv => HandedOverInOrder
  BY DEF IInv, ServerInv, HandedOverInOrder
<1>. QED
  BY <1>1, Invariance, PTL

(* What a process stores is, in the order of the ids and once each, what   *)
(* its clients' whole reports say and InsertDatabase was through with,     *)
(* wherever the process ends and whatever was stored before it.            *)
THEOREM StoringInOrder == Spec => []StoredInOrder
<1>1. IInv => StoredInOrder
  BY HandledFirst DEF IInv, StoredSoFar, StoredInOrder
<1>. QED
  BY <1>1, Invariance, PTL

-----------------------------------------------------------------------------
(* The system implements the store. *)

(* The module of the theorems describes the same store. *)
LEMMA SameStore == [IDT!Store!Next]_IDT!Store!vars => [ID!Store!Next]_ID!Store!vars
BY DEF IDT!Store!Next, ID!Store!Next, IDT!Store!vars, ID!Store!vars, IDT!Store!Submit, ID!Store!Submit,
   IDT!Store!Store, ID!Store!Store, IDT!Store!Discard, ID!Store!Discard, IDT!Store!Die, ID!Store!Die,
   IDT!Store!Restart, ID!Store!Restart, IDT!Store!StoreAs, ID!Store!StoreAs,
   ID!Stored, IDT!Stored, ID!InstanceIDs, IDT!InstanceIDs, ID!Says, IDT!Says, ID!Lines, IDT!Lines,
   ID!Usable, IDT!Usable, ID!Second, IDT!Second, ID!FindTableName, IDT!FindTableName,
   ID!tableNames, IDT!tableNames

(* A step of InsertDatabase in the system is one of the store. *)
LEMMA InsertStores == IInv /\ [ID!Next]_ID!vars => [ID!Store!Next]_ID!Store!vars
BY SameInsertSteps, SameStore, InsertAssumptions, IDT!StepImplements DEF IInv

(* The end of a process is the store's end: nothing is stored by it.       *)
LEMMA ProcessEndsDies == ASSUME IInv, ProcessEnds PROVE ID!Store!Die
<1>1. ID!Stored' = ID!Stored
  BY DEF ProcessEnds, ID!Stored, ID!InstanceIDs
<1>. QED
  BY <1>1 DEF ProcessEnds, ID!Terminate, ID!Store!Die

(* Every step of the system is a step of the store, or none. *)
LEMMA StepImplements == IInv /\ [Next]_vars => [ID!Store!Next]_ID!Store!vars
<1>. SUFFICES ASSUME IInv, [Next]_vars PROVE [ID!Store!Next]_ID!Store!vars
  OBVIOUS
<1>1. CASE Elsewhere \/ UNCHANGED vars
  <2>1. UNCHANGED <<report, terminated, instances, rows>>
    BY <1>1, ElsewhereStep DEF vars, serverVars, insertVars
  <2>2. ID!Stored' = ID!Stored
    BY <2>1 DEF ID!Stored, ID!InstanceIDs
  <2>. QED
    BY <2>1, <2>2 DEF ID!Store!vars
<1>2. CASE InsertCalled
  <2>1. \E r \in (UNION {Range(Sends[n]) : n \in DOMAIN Sends}) \cup {Garbled} : ID!Call(r)
    BY <1>2, CalledWithReport
  <2>. QED
    BY <2>1, InsertStores DEF ID!Next
<1>3. CASE InsertGoesOn \/ InsertReturns \/ InsertThrows
  <2>1. ID!Next
    BY <1>3 DEF InsertGoesOn, InsertReturns, InsertThrows, ID!Next, ID!Step
  <2>. QED
    BY <2>1, InsertStores
<1>4. CASE Abort \/ EndMain \/ Kill
  BY <1>4, ProcessEndsDies DEF Abort, EndMain, Kill, ID!Store!Next
<1>5. CASE Restart
  BY <1>5, InsertStores DEF Restart, ID!Next
<1>. QED
  BY <1>1, <1>2, <1>3, <1>4, <1>5 DEF Next, ConsumerThread, Elsewhere

(* However the processes end, and however many there are, their database   *)
(* is a store of whole reports under ids that grow.                        *)
THEOREM Refinement == Spec => ImplementsReportStore
<1>1. Init => ID!Store!Init
  <2>1. Init => ID!InstanceIDs = {}
    BY DEF Init, ID!Init, ID!InstanceIDs
  <2>. QED
    BY <2>1 DEF Init, ID!Init, ID!Store!Init, ID!Stored
<1>. QED
  BY <1>1, StepImplements, Invariance, PTL DEF Spec, ImplementsReportStore, ID!ImplementsReportStore, ID!Store!Spec
=============================================================================
