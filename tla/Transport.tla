------------------------------- MODULE Transport -------------------------------
(***************************************************************************)
(* TCP between the client programs and the server: which client is at the  *)
(* far end of which connection of module ServerConnection, and how far the *)
(* bytes it sent have got.  The clients' own modules EXTEND this one.      *)
(*                                                                         *)
(* All of it stands for the operating systems' TCP, as the programs use    *)
(* it; the server's handlers are those of ServerConnection.                *)
(***************************************************************************)
EXTENDS Naturals, FiniteSetsExt

CONSTANTS
  BufSize, Lengths, MaxConnections,   \* as in ServerConnection
  Clients,                            \* the clients, one report each
  Steadiness                          \* the values of steady to consider

ASSUME TransportAssumption ==
  /\ BufSize \in Nat \ {0}
  /\ Lengths \subseteq Nat \ {0}
  /\ MaxConnections \in Nat \ {0}
  /\ Steadiness \subseteq BOOLEAN

VARIABLES
  m_counter, conn, m_recv, io, produced, acked, log,   \* ServerConnection
  length, pending, arrived, peer,                      \* its environment
  size,     \* the size of each client's report
  steady,   \* whether its network keeps together what one send took
  link,     \* the number of each client's connection, 0 before there is one
  sent,     \* how many bytes each client's TCP has taken
  ending,   \* whether each client has shut or closed its side
  serverUp  \* whether the server's process runs

SC == INSTANCE ServerConnection WITH Segmented <- TRUE

handlerVars == <<m_counter, conn, m_recv, io, produced, acked, log>>
networkVars == <<length, pending, arrived, peer>>
clientEnds == <<size, steady, link, sent, ending>>
transportVars == <<handlerVars, networkVars, clientEnds, serverUp>>

(* What every step of a client program leaves alone. *)
ServerSide == <<handlerVars, networkVars, size, steady, serverUp>>

TransportInit ==
  /\ SC!Init
  /\ size \in [Clients -> Lengths] /\ steady \in [Clients -> Steadiness]
  /\ link = [c \in Clients |-> 0]
  /\ sent = [c \in Clients |-> 0]
  /\ ending = [c \in Clients |-> FALSE]
  /\ serverUp = TRUE

(* The server's handlers, and the network's dealings with them, need its   *)
(* process; what arrives for a process that is gone changes nothing.       *)
ServerRuns == serverUp /\ UNCHANGED serverUp

-----------------------------------------------------------------------------
(* The listening socket completes a handshake before anybody accepts, and  *)
(* connections are accepted in that order.                                 *)
NextLink == Max({m_counter - 1} \cup {link[c] : c \in Clients}) + 1

Establish(c) ==
  /\ serverUp
  /\ link[c] = 0 /\ NextLink < MaxConnections
  /\ link' = [link EXCEPT ![c] = NextLink]
  /\ UNCHANGED <<ServerSide, sent, ending>>

Accept(c) ==
  /\ ServerRuns
  /\ link[c] = m_counter
  /\ SC!Accepted /\ length'[m_counter] = size[c]
  /\ UNCHANGED clientEnds

(* A failed accept takes its connection with it, or leaves it to the next  *)
(* accept, as far as the bound on connections allows.                      *)
AcceptFails ==
  /\ ServerRuns
  /\ SC!AcceptFailed
  /\ \/ UNCHANGED link
     \/ /\ \A c \in Clients : link[c] < MaxConnections
        /\ link' = [c \in Clients |-> IF link[c] < m_counter THEN link[c] ELSE link[c] + 1]
  /\ UNCHANGED <<size, steady, sent, ending>>

Handler(k) ==
  /\ ServerRuns
  /\ \/ SC!ReadMore(k) \/ SC!ReadEnd(k) \/ SC!ReadError(k)
     \/ SC!ProduceReturned(k) \/ SC!HandleWrite(k)
  /\ UNCHANGED clientEnds

Accepted(c) == link[c] # 0 /\ length[link[c]] > 0

Delivered(c) == length[link[c]] - pending[link[c]]

(* Bytes arrive in order, whether or not the server still reads them. *)
Arrive(c) ==
  /\ ServerRuns /\ Accepted(c)
  /\ SC!Deliver(link[c]) /\ UNCHANGED clientEnds
  /\ Delivered(c)' <= sent[c] /\ (steady[c] => Delivered(c)' = sent[c])

FinArrives(c) ==
  /\ ServerRuns /\ Accepted(c) /\ ending[c] /\ Delivered(c) = sent[c]
  /\ SC!Shutdown(link[c])
  /\ UNCHANGED clientEnds

Breaks(c) == ServerRuns /\ Accepted(c) /\ SC!Reset(link[c]) /\ UNCHANGED clientEnds

(* The server's process ends at any moment: an exception leaves the        *)
(* consumer's thread or io.run, or somebody kills it.  Every connection    *)
(* stays as far as it had got, and the system closes its socket.           *)
ServerEnds ==
  /\ serverUp /\ serverUp' = FALSE
  /\ UNCHANGED <<handlerVars, networkVars, clientEnds>>

Network ==
  \/ AcceptFails \/ \E k \in SC!Connections : Handler(k)
  \/ \E c \in Clients : Accept(c) \/ Arrive(c) \/ FinArrives(c) \/ Breaks(c)
  \/ ServerEnds

-----------------------------------------------------------------------------
(* What a client can find at its end of the connection: the server's       *)
(* acknowledgement, from the moment async_write has begun; the end of      *)
(* file, when the server let go of the socket without one, or its process  *)
(* ended before that; an error, when the connection broke, the server let  *)
(* go of it with bytes unread, or the process ended with it open.          *)
HasLink(c) == link[c] # 0

AckReadable(c) == HasLink(c) /\ (conn[link[c]] = "writing" \/ link[c] \in acked)

EndReadable(c) ==
  /\ HasLink(c) /\ (conn[link[c]] = "closed" \/ ~serverUp)
  /\ link[c] \notin acked /\ peer[link[c]] # "reset"

ErrorReadable(c) ==
  /\ HasLink(c)
  /\ \/ peer[link[c]] = "reset"
     \/ conn[link[c]] = "closed" /\ m_recv[link[c]] < sent[c]
     \/ conn[link[c]] # "closed" /\ ~serverUp
=============================================================================
