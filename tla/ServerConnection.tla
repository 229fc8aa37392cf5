--------------------------- MODULE ServerConnection ---------------------------
(***************************************************************************)
(* ServerBA/ServerConnection.{h,cpp}: the acceptor and the connections,    *)
(* whose completion handlers all run on the one thread inside io.run.      *)
(* Connection k is the k-th one created and its m_message is "Ack k".      *)
(*                                                                         *)
(* A report is a number of bytes here: what matters is how TCP cuts it up. *)
(* A connection carries one report, and m_recv is as many of its leading   *)
(* bytes as have been read.  The peer and the network are the environment. *)
(*                                                                         *)
(* An operator commented "Slip" is a wrong version of the one below it,    *)
(* kept to show that some property notices the mistake.                    *)
(***************************************************************************)
EXTENDS Naturals, Sequences

CONSTANTS
  BufSize,          \* BUF_SIZE, the size of m_data
  Lengths,          \* the sizes a report may have
  MaxConnections,   \* bound on the connections created
  Segmented         \* whether the network may deliver a report in pieces

ASSUME SizeAssumption ==
  /\ BufSize \in Nat \ {0}
  /\ Lengths \subseteq Nat \ {0}
  /\ MaxConnections \in Nat \ {0}
  /\ Segmented \in BOOLEAN

Connections == 1 .. MaxConnections

VARIABLES
  m_counter,  \* how many connections have been created
  conn,       \* how far each connection has got
  m_recv,     \* how many bytes each connection has put together
  io,         \* the connection whose handler is inside m_pc.Produce, or 0
  produced,   \* history: what was handed to m_pc.Produce, in order
  acked,      \* history: the connections whose m_message was written
  log,        \* history: <<connection, number printed after "Tx: Ack ">>
  length,     \* environment: the size of the report each peer sends
  pending,    \* environment: the bytes of it that have not arrived
  arrived,    \* environment: the bytes that arrived and were not read
  peer        \* environment: "open", "shut" (sent a FIN) or "reset"

server == <<m_counter, conn, m_recv, io, produced, acked, log>>
network == <<length, pending, arrived, peer>>
vars == <<server, network>>

Init ==
  /\ m_counter = 1
  /\ conn = [k \in Connections |-> IF k = 1 THEN "accepting" ELSE "none"]
  /\ m_recv = [k \in Connections |-> 0]
  /\ io = 0
  /\ produced = <<>> /\ acked = {} /\ log = {}
  /\ length = [k \in Connections |-> 0]
  /\ pending = [k \in Connections |-> 0]
  /\ arrived = [k \in Connections |-> 0]
  /\ peer = [k \in Connections |-> "open"]

-----------------------------------------------------------------------------
(* The peer and the network *)

Deliver(k) ==
  /\ peer[k] = "open"
  /\ \E n \in 1 .. pending[k] :
       /\ Segmented \/ n = pending[k]
       /\ pending' = [pending EXCEPT ![k] = @ - n]
       /\ arrived' = [arrived EXCEPT ![k] = @ + n]
  /\ UNCHANGED <<length, peer, server>>

(* The peer sends no more, whether or not it has sent everything. *)
Shutdown(k) ==
  /\ length[k] > 0 /\ peer[k] = "open"
  /\ peer' = [peer EXCEPT ![k] = "shut"]
  /\ UNCHANGED <<length, pending, arrived, server>>

Reset(k) ==
  /\ length[k] > 0 /\ peer[k] # "reset"
  /\ peer' = [peer EXCEPT ![k] = "reset"]
  /\ UNCHANGED <<length, pending, arrived, server>>

-----------------------------------------------------------------------------
(* Slip: only a good accept is followed by the next one. *)
HandleAccept_OnlyGood(next) ==
  /\ io = 0
  /\ m_counter < MaxConnections
  /\ IF next = "reading"
       THEN /\ m_counter' = m_counter + 1
            /\ conn' = [conn EXCEPT ![m_counter] = next, ![m_counter + 1] = "accepting"]
       ELSE /\ conn' = [conn EXCEPT ![m_counter] = next]
            /\ UNCHANGED m_counter
  /\ UNCHANGED <<m_recv, io, produced, acked, log, arrived, peer>>

(* HandleAccept for the outstanding accept: a good connection starts to    *)
(* read, a failed one is dropped, and either way StartAccept creates the   *)
(* next connection.  The last connection within the bound is not accepted. *)
HandleAccept(next) ==
  /\ io = 0
  /\ m_counter < MaxConnections
  /\ m_counter' = m_counter + 1
  /\ conn' = [conn EXCEPT ![m_counter] = next, ![m_counter + 1] = "accepting"]
  /\ UNCHANGED <<m_recv, io, produced, acked, log, arrived, peer>>

Accepted ==
  /\ HandleAccept("reading")
  /\ \E n \in Lengths :
       /\ length' = [length EXCEPT ![m_counter] = n]
       /\ pending' = [pending EXCEPT ![m_counter] = n]

AcceptFailed == HandleAccept("closed") /\ UNCHANGED <<length, pending>>

(* HandleRead without an error: async_read_some completes with what has    *)
(* arrived, BUF_SIZE bytes at most.                                        *)
BytesTransferred(k) == IF arrived[k] < BufSize THEN arrived[k] ELSE BufSize

(* Slip: "m_recv =" for "m_recv +=". *)
HandleRead_Assigns(k) ==
  /\ io = 0
  /\ conn[k] = "reading"
  /\ arrived[k] > 0
  /\ arrived' = [arrived EXCEPT ![k] = @ - BytesTransferred(k)]
  /\ m_recv' = [m_recv EXCEPT ![k] = BytesTransferred(k)]
  /\ UNCHANGED <<m_counter, acked, log, length, pending, peer>>

HandleRead(k) ==
  /\ io = 0
  /\ conn[k] = "reading"
  /\ arrived[k] > 0
  /\ arrived' = [arrived EXCEPT ![k] = @ - BytesTransferred(k)]
  /\ m_recv' = [m_recv EXCEPT ![k] = @ + BytesTransferred(k)]
  /\ UNCHANGED <<m_counter, acked, log, length, pending, peer>>

(* A full buffer: read on. *)
ReadMore(k) ==
  /\ BytesTransferred(k) = BufSize
  /\ HandleRead(k)
  /\ UNCHANGED <<conn, io, produced>>

(* Slip: the size of the read is not looked at. *)
ReadEnd_AnySize(k) ==
  /\ HandleRead(k)
  /\ conn' = [conn EXCEPT ![k] = "producing"]
  /\ io' = k
  /\ produced' = Append(produced, [conn |-> k, bytes |-> m_recv'[k]])

(* Slip: only an end of file would be the end of the report. *)
ReadEnd_ReadsOn(k) ==
  /\ BytesTransferred(k) # BufSize
  /\ HandleRead(k)
  /\ UNCHANGED <<conn, io, produced>>

(* A short read is taken for the end of the report, and Produce is called. *)
ReadEnd(k) ==
  /\ BytesTransferred(k) # BufSize
  /\ HandleRead(k)
  /\ conn' = [conn EXCEPT ![k] = "producing"]
  /\ io' = k
  /\ produced' = Append(produced, [conn |-> k, bytes |-> m_recv'[k]])

(* Slip: an error falls through to the acknowledgement. *)
ReadError_Acks(k) ==
  /\ io = 0
  /\ conn[k] = "reading"
  /\ peer[k] = "reset" \/ (peer[k] = "shut" /\ arrived[k] = 0)
  /\ conn' = [conn EXCEPT ![k] = "writing"]
  /\ UNCHANGED <<m_counter, m_recv, io, produced, acked, log, network>>

(* HandleRead with an error, an end of file included: nothing is armed     *)
(* again and the connection goes away with its last handler.               *)
ReadError(k) ==
  /\ io = 0
  /\ conn[k] = "reading"
  /\ peer[k] = "reset" \/ (peer[k] = "shut" /\ arrived[k] = 0)
  /\ conn' = [conn EXCEPT ![k] = "closed"]
  /\ UNCHANGED <<m_counter, m_recv, io, produced, acked, log, network>>

(* m_pc.Produce returns and the rest of HandleRead starts the async_write. *)
ProduceReturned(k) ==
  /\ io = k
  /\ io' = 0
  /\ conn' = [conn EXCEPT ![k] = "writing"]
  /\ UNCHANGED <<m_counter, m_recv, produced, acked, log, network>>

(* Slip: the connection is put back to reading for a second report. *)
HandleWrite_ReadsOn(k) ==
  /\ io = 0
  /\ conn[k] = "writing"
  /\ conn' = [conn EXCEPT ![k] = "reading"]
  /\ acked' = acked \cup {k} /\ log' = log \cup {<<k, m_counter>>}
  /\ UNCHANGED <<m_counter, m_recv, io, produced, network>>

(* Slip: the acknowledgement is counted under the acceptor's next number. *)
HandleWrite_NextNumber(k) ==
  /\ io = 0
  /\ conn[k] = "writing"
  /\ conn' = [conn EXCEPT ![k] = "closed"]
  /\ acked' = acked \cup {m_counter + 1} /\ log' = log
  /\ UNCHANGED <<m_counter, m_recv, io, produced, network>>

(* HandleWrite looks at no error, and prints the class's counter. *)
HandleWrite(k) ==
  /\ io = 0
  /\ conn[k] = "writing"
  /\ conn' = [conn EXCEPT ![k] = "closed"]
  /\ \/ acked' = acked \cup {k}
     \/ peer[k] = "reset" /\ acked' = acked
  /\ log' = log \cup {<<k, m_counter>>}
  /\ UNCHANGED <<m_counter, m_recv, io, produced, network>>

IoStep ==
  \E k \in Connections :
    ReadMore(k) \/ ReadEnd(k) \/ ReadError(k) \/ ProduceReturned(k) \/ HandleWrite(k)

Environment == \E k \in Connections : Deliver(k) \/ Shutdown(k) \/ Reset(k)

Next == IoStep \/ Accepted \/ AcceptFailed \/ Environment

Spec == Init /\ [][Next]_vars

(* io.run invokes the handler of every operation that has completed, and   *)
(* Produce returns (ProducerConsumer!ProduceReturns).  Peers promise nothing. *)
FairSpec ==
  /\ Spec
  /\ \A k \in Connections :
       WF_vars(ReadMore(k) \/ ReadEnd(k) \/ ReadError(k) \/ ProduceReturned(k) \/ HandleWrite(k))

-----------------------------------------------------------------------------
States == {"none", "accepting", "reading", "producing", "writing", "closed"}
Produced == {produced[i].conn : i \in DOMAIN produced}

(* The values each variable ranges over. *)
TypeOK ==
  /\ m_counter \in Connections
  /\ conn \in [Connections -> States]
  /\ m_recv \in [Connections -> Nat]
  /\ io \in Connections \cup {0}
  /\ produced \in Seq([conn : Connections, bytes : Nat])
  /\ acked \subseteq Connections
  /\ log \subseteq Connections \X Connections
  /\ length \in [Connections -> Lengths \cup {0}]
  /\ pending \in [Connections -> Nat]
  /\ arrived \in [Connections -> Nat]
  /\ peer \in [Connections -> {"open", "shut", "reset"}]

(* There is always exactly one accept outstanding, for the connection      *)
(* created last, whatever became of the accepts before it: the server      *)
(* never stops listening.                                                  *)
AcceptorArmed == \A k \in Connections : conn[k] = "accepting" <=> k = m_counter

(* No byte of a report is skipped or read twice, however it is cut up. *)
BytesConserved ==
  \A k \in Connections : m_recv[k] + arrived[k] + pending[k] = length[k]

(* A connection hands over at most one report.  It is never empty, is a    *)
(* prefix of what the peer meant to send, and is never a whole number of   *)
(* buffers long: a report of k * BUF_SIZE bytes is not produced whole.     *)
ReportFraming ==
  /\ \A i, j \in DOMAIN produced : produced[i].conn = produced[j].conn => i = j
  /\ \A i \in DOMAIN produced :
       /\ produced[i].bytes \in 1 .. length[produced[i].conn]
       /\ produced[i].bytes % BufSize # 0

(* A peer is acknowledged, or about to be, only for a report that is in    *)
(* the queue, and only once: its connection is gone with the               *)
(* acknowledgement, and nothing more is read or written over it.           *)
AckedIsProduced ==
  \A k \in Connections :
    /\ conn[k] \in {"producing", "writing"} \/ k \in acked => k \in Produced
    /\ k \in acked => conn[k] = "closed"

(* What arrives after the read that ended the report is not read: a        *)
(* connection that called Produce stays at what it handed over.            *)
NothingReadAfterProduce ==
  [][ \A i \in DOMAIN produced :
        LET k == produced[i].conn
        IN  m_recv'[k] = produced[i].bytes /\ conn'[k] # "reading" ]_vars

(* The log line "Tx: Ack n" names the acknowledgement that was sent. *)
LogNamesTheAck == \A entry \in log : entry[2] = entry[1]
=============================================================================
