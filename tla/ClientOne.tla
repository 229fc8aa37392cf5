------------------------------- MODULE ClientOne -------------------------------
(***************************************************************************)
(* Client-one/Client-one.cpp: SendAnalytics sends one report over a        *)
(* non-blocking socket, half-closes the connection and waits a limited     *)
(* time for the acknowledgement.  Each client is one run of the program.   *)
(* The server and TCP are those of module Transport.                       *)
(*                                                                         *)
(* An operator commented "Slip" is a wrong version of the one below it,    *)
(* kept to show that some property notices the mistake.                    *)
(***************************************************************************)
EXTENDS Transport

CONSTANTS
  BUFFERSIZE,     \* the most one send is asked to take
  EST_TIMEOUT,    \* milliseconds to wait for the connection
  ACK_TIMEOUT     \* milliseconds to wait for the acknowledgement

ASSUME ClientOneAssumption ==
  BUFFERSIZE \in Nat \ {0} /\ EST_TIMEOUT \in Nat /\ ACK_TIMEOUT \in Nat

VARIABLES
  at,         \* how far each client has got
  txError,    \* whether txError is not empty
  outcome,    \* what each client said last
  waited      \* the microseconds each client's last select waited in vain

locals == <<at, txError, outcome, waited>>
vars == <<transportVars, locals>>

Init ==
  /\ TransportInit
  /\ at = [c \in Clients |-> "socket"]
  /\ txError = [c \in Clients |-> FALSE]
  /\ outcome = [c \in Clients |-> "none"]
  /\ waited = [c \in Clients |-> 0]

-----------------------------------------------------------------------------
microseconds(tv_sec, tv_usec) == tv_sec * 1000000 + tv_usec

connTimeout == microseconds(EST_TIMEOUT \div 1000, EST_TIMEOUT % 1000)
ackTimeout == microseconds(ACK_TIMEOUT \div 1000, (ACK_TIMEOUT % 1000) * 1000)

Goto(c, from, to) == at[c] = from /\ at' = [at EXCEPT ![c] = to]

(* Slip: the socket is left open. *)
Return_KeepsSocket(c, from, how) ==
  /\ Goto(c, from, "returned")
  /\ outcome' = [outcome EXCEPT ![c] = how]
  /\ UNCHANGED <<ServerSide, link, sent, ending, txError>>

(* Every return closes the socket first. *)
Return(c, from, how) ==
  /\ Goto(c, from, "returned")
  /\ outcome' = [outcome EXCEPT ![c] = how]
  /\ ending' = [ending EXCEPT ![c] = TRUE]
  /\ UNCHANGED <<ServerSide, link, sent, txError>>

(* WSAStartup, socket, ioctlsocket and connect, each of which may fail. *)
Connect(c) ==
  /\ Goto(c, "socket", "connecting")
  /\ UNCHANGED <<transportVars, txError, outcome, waited>>

StartFails(c) == Return(c, "socket", "failed") /\ UNCHANGED waited

(* The handshake ends on the network's side, while select waits. *)
Handshake(c) == at[c] = "connecting" /\ Establish(c) /\ UNCHANGED locals

Connected(c) ==
  /\ HasLink(c)
  /\ Goto(c, "connecting", "sending")
  /\ UNCHANGED <<transportVars, txError, outcome, waited>>

(* select gives up, even beside a handshake that ends just then; a refused *)
(* connection looks the same, since exceptfds is not asked for.            *)
ConnectTimesOut(c) ==
  /\ Return(c, "connecting", "not connected")
  /\ waited' = [waited EXCEPT ![c] = connTimeout]

SelectFails(c) ==
  /\ Return(c, "connecting", "failed") \/ Return(c, "waiting", "failed")
  /\ UNCHANGED waited

-----------------------------------------------------------------------------
(* The loop over the message *)
bytesToSend(c) == IF size[c] - sent[c] > BUFFERSIZE THEN BUFFERSIZE ELSE size[c] - sent[c]

Sending(c) == at[c] = "sending" /\ sent[c] < size[c]

SendChunk(c) ==
  /\ Sending(c)
  /\ sent' = [sent EXCEPT ![c] = @ + bytesToSend(c)]
  /\ UNCHANGED <<ServerSide, link, ending, locals>>

(* Slip: a mismatch of the sizes does not end the loop. *)
SendPart_GoesOn(c) ==
  /\ Sending(c)
  /\ \E n \in 1 .. bytesToSend(c) - 1 : sent' = [sent EXCEPT ![c] = @ + n]
  /\ UNCHANGED <<ServerSide, link, ending, locals>>

(* The socket's buffer has room for a part only. *)
SendPart(c) ==
  /\ Sending(c)
  /\ \E n \in 1 .. bytesToSend(c) - 1 : sent' = [sent EXCEPT ![c] = @ + n]
  /\ Goto(c, "sending", "sent")
  /\ txError' = [txError EXCEPT ![c] = TRUE]
  /\ UNCHANGED <<ServerSide, link, ending, outcome, waited>>

(* Slip: "offset += bytesSent" is reached with SOCKET_ERROR, which is -1. *)
SendFails_GoesOn(c) ==
  /\ Sending(c)
  /\ sent' = [sent EXCEPT ![c] = @ - 1]
  /\ UNCHANGED <<ServerSide, link, ending, locals>>

(* The connection broke, or the socket would block. *)
SendFails(c) ==
  /\ Sending(c)
  /\ Goto(c, "sending", "sent")
  /\ txError' = [txError EXCEPT ![c] = TRUE]
  /\ UNCHANGED <<transportVars, outcome, waited>>

SentAll(c) ==
  /\ sent[c] = size[c]
  /\ Goto(c, "sending", "sent")
  /\ UNCHANGED <<transportVars, txError, outcome, waited>>

(* shutdown(SD_SEND), after a failed send as well. *)
Shutdown(c) ==
  /\ Goto(c, "sent", "waiting")
  /\ ending' = [ending EXCEPT ![c] = TRUE]
  /\ UNCHANGED <<ServerSide, link, sent, txError, outcome, waited>>

ShutdownFails(c) == Return(c, "sent", "failed") /\ UNCHANGED waited

-----------------------------------------------------------------------------
(* The acknowledgement: bytesRead is positive, zero, or an error. *)
RecvAck(c) == AckReadable(c) /\ Return(c, "waiting", "ack") /\ UNCHANGED waited

RecvEnd(c) == EndReadable(c) /\ Return(c, "waiting", "no ack") /\ UNCHANGED waited

(* Slip: "bytesRead <= 0" is one case. *)
RecvFails_AsEnd(c) == ErrorReadable(c) /\ Return(c, "waiting", "no ack") /\ UNCHANGED waited

RecvFails(c) == ErrorReadable(c) /\ Return(c, "waiting", "error") /\ UNCHANGED waited

(* Slip: the socket was put back to blocking and recv called at once. *)
AckTimesOut_Never(c) == at[c] = "none" /\ UNCHANGED vars

AckTimesOut(c) ==
  /\ Return(c, "waiting", "timeout")
  /\ waited' = [waited EXCEPT ![c] = ackTimeout]

Goes(c) ==
  \/ Connect(c) \/ Connected(c) \/ ConnectTimesOut(c)
  \/ SendChunk(c) \/ SentAll(c) \/ Shutdown(c)
  \/ RecvAck(c) \/ RecvEnd(c) \/ RecvFails(c) \/ AckTimesOut(c)

Fails(c) ==
  StartFails(c) \/ SendPart(c) \/ SendFails(c) \/ ShutdownFails(c) \/ SelectFails(c)

SendAnalytics(c) == Goes(c) \/ Fails(c)

Next ==
  \/ \E c \in Clients : SendAnalytics(c) \/ Handshake(c)
  \/ Network /\ UNCHANGED locals

Spec == Init /\ [][Next]_vars

(* A client runs; what it cannot wait out, its selects time out.  It must  *)
(* not count on a call that fails to get it out of a wait.                 *)
ClientsRun == Spec /\ \A c \in Clients : WF_vars(Goes(c))

(* And what was sent arrives, or the connection breaks, io.run gets to its *)
(* handlers, and Produce returns (ProducerConsumer!ProduceReturns).        *)
FairSpec ==
  /\ ClientsRun
  /\ \A c \in Clients : WF_vars((Arrive(c) \/ FinArrives(c)) /\ UNCHANGED locals)
  /\ \A k \in SC!Connections : WF_vars(Handler(k) /\ UNCHANGED locals)

-----------------------------------------------------------------------------
Points == {"socket", "connecting", "sending", "sent", "waiting", "returned"}
Outcomes == {"none", "failed", "not connected", "ack", "no ack", "error", "timeout"}

(* The values of the clients' variables; a client offers no byte twice and *)
(* none beyond its message, and no two share a connection.                 *)
TypeOK ==
  /\ at \in [Clients -> Points] /\ outcome \in [Clients -> Outcomes]
  /\ txError \in [Clients -> BOOLEAN] /\ waited \in [Clients -> Nat]
  /\ link \in [Clients -> 0 .. MaxConnections]
  /\ \A c \in Clients : sent[c] \in 0 .. size[c]
  /\ \A c, d \in Clients : c # d /\ HasLink(c) => link[c] # link[d]

(* "Rx: Ack": whoever prints it has a report in the server's queue. *)
AckMeansQueued == \A c \in Clients : outcome[c] = "ack" => link[c] \in SC!Produced

(* "No acknowledgement was sent, safe to close connection": whoever prints *)
(* it has nothing in the server's queue, and never will have.  Only if the *)
(* server's process ended after the report was queued and before it was    *)
(* acknowledged is the message printed for a report that may be stored.    *)
NoAckMeansNotQueued ==
  \A c \in Clients :
    outcome[c] = "no ack" /\ link[c] \in SC!Produced
      => ~serverUp /\ conn[link[c]] \in {"producing", "writing"}

(* "Tx: OK" and "Rx: Ack" for a report that fits into one send, over a     *)
(* network that does not cut it up: the whole report is in the queue.      *)
AckedIsWhole ==
  \A c \in Clients :
    steady[c] /\ outcome[c] = "ack" /\ ~txError[c] /\ size[c] <= BUFFERSIZE
      => \E i \in DOMAIN produced : produced[i] = [conn |-> link[c], bytes |-> size[c]]

(* Whatever the server and the network do, the program comes to its end:   *)
(* no client hangs in a full batch or on a report the server waits on.     *)
SendAnalyticsReturns == \A c \in Clients : <>(at[c] = "returned")

(* And it leaves nothing behind: the server's connection ends too, read to *)
(* its end or not, and is not kept waiting for bytes that never come; if   *)
(* the server does not end before it.                                      *)
ServerLetsGo ==
  \A c \in Clients :
    at[c] = "returned" /\ Accepted(c)
      ~> (HasLink(c) /\ conn[link[c]] = "closed") \/ ~serverUp

(* "Timeout in milliseconds": a wait that is given up lasted that long. *)
TimeoutsInMilliseconds ==
  \A c \in Clients :
    /\ outcome[c] = "not connected" => waited[c] >= EST_TIMEOUT * 1000
    /\ outcome[c] = "timeout" => waited[c] >= ACK_TIMEOUT * 1000
=============================================================================
