----------------------------- MODULE ClientOneProofs -----------------------------
(***************************************************************************)
(* What Client-one tells its user is true of the server's queue, for any   *)
(* number of clients and any sizes, whatever the network and the server's  *)
(* operating system do.                                                    *)
(*                                                                         *)
(* First, what module Transport promises to both client programs, for any  *)
(* number of connections and any cut of the reports by the network: each   *)
(* connection carries the bytes of one client, in order, and what the      *)
(* server read to the end of is all that a client sent, if its network     *)
(* keeps together what one send took.  Nothing of that is about Client-one *)
(* itself, and ClientProofs takes it from here.                            *)
(***************************************************************************)
EXTENDS ClientOne, Sequences, Integers, WellFoundedInduction, TLAPS

(* The theorems about the server's side, read with these variables. *)
SCT == INSTANCE ServerConnectionProofs WITH Segmented <- TRUE

EndsTypeOK ==
  /\ size \in [Clients -> Lengths] /\ steady \in [Clients -> BOOLEAN]
  /\ link \in [Clients -> 0 .. MaxConnections]
  /\ sent \in [Clients -> Nat]

(* No two clients are at the far end of one connection. *)
OwnConnection == \A c, d \in Clients : c # d /\ HasLink(c) => link[c] # link[d]

(* What the server will be sent on it is the client's report ... *)
OwnReport == \A c \in Clients : Accepted(c) => length[link[c]] = size[c]

(* ... and what it was sent the client has sent. *)
OnlySent == \A c \in Clients : Accepted(c) => Delivered(c) <= sent[c]

TransportInv ==
  /\ SCT!IInv
  /\ EndsTypeOK /\ OwnConnection /\ OwnReport /\ OnlySent

(* What arrived of what a client sent at once is nothing or all of it, and *)
(* what the server made of that is a report of all of it.                  *)
Whole(c) ==
  /\ Accepted(c) => Delivered(c) \in {0, sent[c]}
  /\ HasLink(c) /\ link[c] \in SC!Produced => m_recv[link[c]] = sent[c]

(* What a step of a client program does: its TCP ends a handshake or takes *)
(* some bytes, or nothing of the sort.                                     *)
ClientStep ==
  /\ UNCHANGED ServerSide
  /\ \/ \E c \in Clients : Establish(c)
     \/ UNCHANGED link /\ sent' \in [Clients -> Nat] /\ \A c \in Clients : sent[c] <= sent'[c]

-----------------------------------------------------------------------------
(* Among natural numbers there is a least one ... *)
LEMMA Least ==
  ASSUME NEW T, T \subseteq Nat, T # {}
  PROVE  \E x \in T : \A y \in T : x <= y
<1>1. PICK x \in T : \A y \in T : <<y, x>> \notin OpToRel(<, Nat)
  BY NatLessThanWellFounded, WFMin
<1>2. ASSUME NEW y \in T PROVE x <= y
  <2>1. x \in Nat /\ y \in Nat
    OBVIOUS
  <2>2. <<y, x>> \in Nat \X Nat
    BY <2>1
  <2>3. ~ (y < x)
    BY <1>1, <2>2 DEF OpToRel
  <2>. QED
    BY <2>1, <2>3
<1>. QED
  BY <1>2

(* ... and, if they are bounded, a greatest: the least of their bounds. *)
LEMMA Greatest ==
  ASSUME NEW S, S \subseteq Nat, S # {}, NEW m \in Nat, \A s \in S : s <= m
  PROVE  Max(S) \in S /\ \A s \in S : s <= Max(S)
<1>. DEFINE U == {n \in Nat : \A s \in S : s <= n}
<1>1. PICK x \in U : \A y \in U : x <= y
  BY Least
<1>2. PICK t \in S : t \in Nat
  OBVIOUS
<1>3. x \in S
  <2>. SUFFICES ASSUME x \notin S PROVE FALSE
    OBVIOUS
  <2>1. x > 0 /\ \A s \in S : s < x
    BY <1>2
  <2>2. x - 1 \in U
    BY <2>1
  <2>. QED
    BY <1>1, <2>2
<1>4. \E a \in S : \A s \in S : a >= s
  BY <1>3
<1>. QED
  BY <1>4 DEF Max

(* A new connection is nobody's yet, and has not been accepted. *)
LEMMA NextLinkIsNew ==
  ASSUME EndsTypeOK, m_counter \in 1 .. MaxConnections
  PROVE  /\ NextLink \in Nat /\ NextLink >= m_counter
         /\ \A c \in Clients : link[c] < NextLink
<1>. DEFINE S == {m_counter - 1} \cup {link[c] : c \in Clients}
<1>1. S \subseteq Nat /\ S # {} /\ \A s \in S : s <= MaxConnections
  BY TransportAssumption DEF EndsTypeOK
<1>2. Max(S) \in S /\ \A s \in S : s <= Max(S)
  BY <1>1, Greatest, TransportAssumption
<1>3. NextLink = Max(S) + 1
  BY DEF NextLink
<1>4. m_counter - 1 \in S /\ \A c \in Clients : link[c] \in S
  OBVIOUS
<1>. HIDE DEF S
<1>5. Max(S) \in Nat
  BY <1>1, <1>2
<1>. QED
  BY <1>1, <1>2, <1>3, <1>4, <1>5 DEF EndsTypeOK

-----------------------------------------------------------------------------
(* The constants are as the theorems about the server's side want them. *)
LEMMA Sizes == SCT!SizeAssumption
BY TransportAssumption DEF SCT!SizeAssumption

(* The two copies of the server's side are one. *)
LEMMA SameSide == SC!Connections = SCT!Connections /\ SC!Produced = SCT!Produced
BY DEF SC!Connections, SCT!Connections, SC!Produced, SCT!Produced

(* The same of the initial state. *)
LEMMA SameInit == SC!Init => SCT!Init
BY DEF SC!Init, SCT!Init, SC!Connections, SCT!Connections

(* Every step is one of the server's handlers, of their environment, or    *)
(* nothing to them.                                                        *)
LEMMA ServerStep ==
  ASSUME EndsTypeOK, Network \/ ClientStep
  PROVE  [SCT!Next]_SCT!vars
<1>1. ASSUME ClientStep PROVE UNCHANGED SCT!vars
  BY <1>1 DEF ClientStep, ServerSide, handlerVars, networkVars, SCT!vars, SCT!server, SCT!network
<1>2. ASSUME NEW k \in SC!Connections, Handler(k) PROVE SCT!IoStep
  BY <1>2, SameSide DEF Handler, SCT!IoStep, SC!ReadMore, SCT!ReadMore, SC!ReadEnd,
    SCT!ReadEnd, SC!ReadError, SCT!ReadError, SC!ProduceReturned, SCT!ProduceReturned,
    SC!HandleWrite, SCT!HandleWrite, SC!HandleRead, SCT!HandleRead,
    SC!BytesTransferred, SCT!BytesTransferred, SC!network, SCT!network
<1>3. ASSUME AcceptFails PROVE SCT!AcceptFailed
  BY <1>3 DEF AcceptFails, SC!AcceptFailed, SCT!AcceptFailed, SC!HandleAccept, SCT!HandleAccept
<1>4. ASSUME NEW c \in Clients, Accept(c) PROVE SCT!Accepted
  BY <1>4 DEF Accept, SC!Accepted, SCT!Accepted, SC!HandleAccept, SCT!HandleAccept
<1>5. ASSUME NEW c \in Clients, Arrive(c) \/ FinArrives(c) \/ Breaks(c) PROVE SCT!Environment
  <2>1. link[c] \in SCT!Connections
    BY <1>5, TransportAssumption
      DEF Arrive, FinArrives, Breaks, Accepted, EndsTypeOK, SCT!Connections
  <2>2. SCT!Deliver(link[c]) \/ SCT!Shutdown(link[c]) \/ SCT!Reset(link[c])
    BY <1>5 DEF Arrive, FinArrives, Breaks, SC!Deliver, SCT!Deliver, SC!Shutdown,
      SCT!Shutdown, SC!Reset, SCT!Reset, SC!server, SCT!server
  <2>. QED
    BY <2>1, <2>2 DEF SCT!Environment
<1>6. ASSUME ServerEnds PROVE UNCHANGED SCT!vars
  BY <1>6 DEF ServerEnds, handlerVars, networkVars, SCT!vars, SCT!server, SCT!network
<1>7. CASE Network
  BY <1>2, <1>3, <1>4, <1>5, <1>6, <1>7 DEF Network, SCT!Next
<1>. QED
  BY <1>1, <1>7

(* So what is known of the connections stays known. *)
LEMMA ServerInvStep ==
  ASSUME SCT!IInv, EndsTypeOK, Network \/ ClientStep
  PROVE  SCT!IInv'
BY Sizes, ServerStep, SCT!InvarianceStep

(* A connection's numbers, and how far it has got. *)
LEMMA ConnectionFacts ==
  ASSUME SCT!IInv, NEW k \in 1 .. MaxConnections
  PROVE  /\ m_counter \in 1 .. MaxConnections
         /\ length[k] \in Nat /\ pending[k] \in Nat /\ arrived[k] \in Nat /\ m_recv[k] \in Nat
         /\ m_recv[k] + arrived[k] + pending[k] = length[k]
         /\ k >= m_counter => conn[k] \in {"none", "accepting"}
         /\ conn[k] \in {"none", "accepting"} => length[k] = 0
         /\ conn[k] \in {"none", "accepting", "reading"} => k \notin SC!Produced
<1>. k \in SCT!Connections
  BY DEF SCT!Connections
<1>1. m_counter \in 1 .. MaxConnections /\ k \in Nat
  BY DEF SCT!IInv, SCT!TypeOK, SCT!Connections
<1>2. length[k] \in Lengths \cup {0}
  BY DEF SCT!IInv, SCT!TypeOK
<1>3. length[k] \in Nat
  <2>1. \A n \in Lengths \cup {0} : n \in Nat
    BY TransportAssumption
  <2>. QED
    BY <1>2, <2>1
<1>4. pending[k] \in Nat /\ arrived[k] \in Nat /\ m_recv[k] \in Nat
  BY DEF SCT!IInv, SCT!TypeOK
<1>5. m_recv[k] + arrived[k] + pending[k] = length[k]
  BY DEF SCT!IInv, SCT!BytesConserved
<1>6. k >= m_counter => conn[k] \in {"none", "accepting"}
  BY <1>1 DEF SCT!IInv, SCT!CreatedInOrder, SCT!AcceptorArmed
<1>7. conn[k] \in {"none", "accepting"} => length[k] = 0
  BY DEF SCT!IInv, SCT!CreatedInOrder
<1>8. conn[k] \in {"none", "accepting", "reading"} => k \notin SC!Produced
  BY SameSide DEF SCT!IInv, SCT!FullBuffersOnly
<1>. QED
  BY <1>1, <1>3, <1>4, <1>5, <1>6, <1>7, <1>8

(* The number a client's connection has. *)
LEMMA LinkFacts ==
  ASSUME TransportInv, NEW c \in Clients
  PROVE  /\ HasLink(c) => link[c] \in SCT!Connections
         /\ HasLink(c) /\ conn[link[c]] = "closed" => link[c] < m_counter
         /\ link[c] \in SC!Produced => HasLink(c)
<1>1. m_counter \in Nat /\ link[c] \in 0 .. MaxConnections /\ SCT!TypeOK
  <2>1. SCT!TypeOK /\ link \in [Clients -> 0 .. MaxConnections]
    BY DEF TransportInv, SCT!IInv, EndsTypeOK
  <2>2. m_counter \in 1 .. MaxConnections
    BY <2>1 DEF SCT!TypeOK, SCT!Connections
  <2>. QED
    BY <2>1, <2>2, TransportAssumption
<1>2. ASSUME HasLink(c) PROVE link[c] \in 1 .. MaxConnections
  BY <1>1, <1>2, TransportAssumption DEF HasLink
<1>3. ASSUME HasLink(c), conn[link[c]] = "closed" PROVE link[c] < m_counter
  <2>1. ~(link[c] >= m_counter)
    BY <1>2, <1>3, ConnectionFacts DEF TransportInv
  <2>. QED
    BY <1>1, <2>1, TransportAssumption
<1>4. ASSUME link[c] \in SC!Produced PROVE HasLink(c)
  <2>1. link[c] \in SCT!Connections
    BY <1>1, <1>4, Sizes, SameSide, SCT!Handover
  <2>. QED
    BY <2>1, TransportAssumption DEF SCT!Connections, HasLink
<1>. QED
  BY <1>2, <1>3, <1>4 DEF SCT!Connections

-----------------------------------------------------------------------------
(* TransportInit meets all of it. *)
LEMMA InitTransportInv == TransportInit => TransportInv
<1>. SUFFICES ASSUME TransportInit PROVE TransportInv
  OBVIOUS
<1>1. SCT!IInv
  BY Sizes, SameInit, SCT!InitIInv DEF TransportInit
<1>2. EndsTypeOK
  BY TransportAssumption DEF TransportInit, EndsTypeOK
<1>3. \A c \in Clients : link[c] = 0
  BY DEF TransportInit
<1>. QED
  BY <1>1, <1>2, <1>3 DEF TransportInv, OwnConnection, OwnReport, OnlySent, HasLink, Accepted

(* A failed accept renumbers connections that have not carried a byte. *)
LEMMA AcceptFailsKeeps ==
  ASSUME TransportInv, AcceptFails
  PROVE  /\ EndsTypeOK' /\ OwnConnection'
         /\ \A c \in Clients :
              /\ HasLink(c)' <=> HasLink(c)
              /\ link[c] < m_counter => link'[c] = link[c]
              /\ HasLink(c) /\ ~(link[c] < m_counter) => link'[c] >= m_counter /\ ~Accepted(c)'
<1>. USE DEF TransportInv
<1>1. /\ m_counter \in 1 .. MaxConnections /\ UNCHANGED <<length, size, steady, sent>>
  BY ConnectionFacts, TransportAssumption
    DEF AcceptFails, SC!AcceptFailed, SC!HandleAccept, SCT!IInv, SCT!TypeOK, SCT!Connections
<1>2. \/ UNCHANGED link
      \/ /\ \A c \in Clients : link[c] < MaxConnections
         /\ link' = [c \in Clients |-> IF link[c] < m_counter THEN link[c] ELSE link[c] + 1]
  BY DEF AcceptFails
<1>3. \A c \in Clients : link[c] \in 0 .. MaxConnections
  BY DEF EndsTypeOK
<1>4. link' \in [Clients -> 0 .. MaxConnections]
  BY <1>1, <1>2, <1>3, TransportAssumption DEF EndsTypeOK
<1>5. ASSUME NEW c \in Clients
      PROVE  /\ HasLink(c)' <=> HasLink(c)
             /\ link[c] < m_counter => link'[c] = link[c]
             /\ ~(link[c] < m_counter) => link'[c] >= m_counter
  BY <1>1, <1>2, <1>3 DEF HasLink
<1>6. OwnConnection'
  BY <1>1, <1>2, <1>3 DEF OwnConnection, HasLink
<1>7. ASSUME NEW c \in Clients, HasLink(c), ~(link[c] < m_counter) PROVE ~Accepted(c)'
  <2>1. link'[c] \in 1 .. MaxConnections /\ link'[c] >= m_counter
    BY <1>1, <1>4, <1>5, <1>7
  <2>2. length[link'[c]] = 0
    BY <2>1, ConnectionFacts
  <2>. QED
    BY <1>1, <2>2 DEF Accepted
<1>. QED
  BY <1>1, <1>4, <1>5, <1>6, <1>7 DEF EndsTypeOK

(* What each step of the network does to the bytes of a client's report. *)
LEMMA NetworkKeeps ==
  ASSUME TransportInv, Network, NEW c \in Clients
  PROVE  /\ UNCHANGED <<size, steady, sent>>
         /\ HasLink(c)' <=> HasLink(c)
         /\ link[c] < m_counter => link'[c] = link[c]
         /\ HasLink(c) /\ ~(link[c] < m_counter) => link'[c] >= m_counter
         /\ Accepted(c) => Accepted(c)' /\ length'[link'[c]] = length[link[c]]
         /\ Accepted(c)' /\ ~Accepted(c) => length'[link'[c]] = size[c] /\ Delivered(c)' = 0
         /\ Accepted(c) => \/ Delivered(c)' = Delivered(c)
                           \/ /\ Delivered(c)' <= sent[c]
                              /\ steady[c] => Delivered(c)' = sent[c]
<1>. USE DEF TransportInv
<1>1. /\ m_counter \in 1 .. MaxConnections
      /\ \A d \in Clients : link[d] \in 0 .. MaxConnections
      /\ length \in [SCT!Connections -> Lengths \cup {0}] /\ pending \in [SCT!Connections -> Nat]
      /\ SCT!Connections = 1 .. MaxConnections
  BY DEF SCT!IInv, SCT!TypeOK, SCT!Connections, EndsTypeOK
<1>2. Accepted(c) => link[c] < m_counter
  <2>. SUFFICES ASSUME Accepted(c) PROVE link[c] < m_counter
    OBVIOUS
  <2>1. link[c] \in 1 .. MaxConnections /\ length[link[c]] > 0
    BY <1>1 DEF Accepted
  <2>. QED
    BY <1>1, <2>1, ConnectionFacts
<1>3. CASE AcceptFails
  <2>1. UNCHANGED <<size, steady, sent, length, pending>>
    BY <1>3 DEF AcceptFails, SC!AcceptFailed
  <2>2. /\ HasLink(c)' <=> HasLink(c)
        /\ link[c] < m_counter => link'[c] = link[c]
        /\ HasLink(c) /\ ~(link[c] < m_counter) => link'[c] >= m_counter /\ ~Accepted(c)'
    BY <1>3, AcceptFailsKeeps
  <2>. QED
    BY <1>2, <2>1, <2>2 DEF HasLink, Accepted, Delivered
<1>4. ASSUME UNCHANGED <<clientEnds, length, pending>>
      PROVE  UNCHANGED <<size, steady, sent, link>>
             /\ (HasLink(c)' <=> HasLink(c)) /\ (Accepted(c)' <=> Accepted(c))
             /\ length'[link'[c]] = length[link[c]] /\ Delivered(c)' = Delivered(c)
  BY <1>4 DEF clientEnds, HasLink, Accepted, Delivered
<1>5. ASSUME NEW k \in SC!Connections, Handler(k) PROVE UNCHANGED <<clientEnds, length, pending>>
  BY <1>5 DEF Handler, SC!ReadMore, SC!ReadEnd, SC!ReadError, SC!ProduceReturned,
    SC!HandleWrite, SC!HandleRead, SC!network
<1>6. ASSUME NEW d \in Clients, FinArrives(d) \/ Breaks(d)
      PROVE  UNCHANGED <<clientEnds, length, pending>>
  BY <1>6 DEF FinArrives, Breaks, SC!Shutdown, SC!Reset
<1>7. ASSUME UNCHANGED clientEnds
      PROVE  UNCHANGED <<size, steady, sent, link>> /\ (HasLink(c)' <=> HasLink(c))
  BY <1>7 DEF clientEnds, HasLink
<1>8. ASSUME NEW d \in Clients, Accept(d)
      PROVE  /\ UNCHANGED clientEnds
             /\ c # d => (Accepted(c)' <=> Accepted(c))
                  /\ length'[link'[c]] = length[link[c]] /\ Delivered(c)' = Delivered(c)
             /\ c = d => ~Accepted(c) /\ length'[link'[c]] = size[c] /\ Delivered(c)' = 0
  <2>1. PICK n \in Lengths : /\ length' = [length EXCEPT ![m_counter] = n]
                             /\ pending' = [pending EXCEPT ![m_counter] = n]
    BY <1>8 DEF Accept, SC!Accepted
  <2>2. /\ link[d] = m_counter /\ length'[m_counter] = size[d] /\ UNCHANGED clientEnds
    BY <1>8 DEF Accept
  <2>3. n \in Nat
    BY TransportAssumption
  <2>4. CASE c = d
    <3>1. length'[m_counter] = n /\ pending'[m_counter] = n
      BY <1>1, <2>1
    <3>. QED
      BY <1>1, <1>2, <1>7, <2>2, <2>3, <2>4, <3>1 DEF Delivered
  <2>5. CASE c # d
    <3>1. HasLink(c) => link[c] # m_counter
      BY <1>1, <2>2, <2>5 DEF OwnConnection, HasLink
    <3>2. HasLink(c) => length'[link[c]] = length[link[c]] /\ pending'[link[c]] = pending[link[c]]
      BY <1>1, <2>1, <3>1 DEF HasLink
    <3>3. ~HasLink(c) => length'[link[c]] = length[link[c]] /\ pending'[link[c]] = pending[link[c]]
      BY <1>1, <2>1 DEF HasLink
    <3>. QED
      BY <1>7, <2>2, <2>5, <3>2, <3>3 DEF Accepted, Delivered
  <2>. QED
    BY <2>2, <2>4, <2>5
<1>9. ASSUME NEW d \in Clients, Arrive(d)
      PROVE  /\ UNCHANGED clientEnds /\ UNCHANGED length
             /\ c # d => Delivered(c)' = Delivered(c)
             /\ c = d => Delivered(c)' <= sent[c] /\ (steady[c] => Delivered(c)' = sent[c])
  <2>1. PICK n \in 1 .. pending[link[d]] :
          pending' = [pending EXCEPT ![link[d]] = pending[link[d]] - n]
    BY <1>9 DEF Arrive, SC!Deliver
  <2>2. /\ UNCHANGED clientEnds /\ UNCHANGED length /\ HasLink(d)
        /\ Delivered(d)' <= sent[d] /\ (steady[d] => Delivered(d)' = sent[d])
    BY <1>9 DEF Arrive, Accepted, HasLink, SC!Deliver
  <2>3. c # d => link[c] # link[d]
    BY <2>2 DEF OwnConnection
  <2>4. c # d => pending'[link[c]] = pending[link[c]]
    BY <1>1, <2>1, <2>3
  <2>. QED
    BY <1>7, <2>2, <2>4 DEF Delivered
<1>10. CASE \E k \in SC!Connections : Handler(k)
  BY <1>1, <1>4, <1>5, <1>10
<1>11. CASE \E d \in Clients : FinArrives(d) \/ Breaks(d)
  BY <1>1, <1>4, <1>6, <1>11
<1>12. CASE \E d \in Clients : Accept(d)
  BY <1>1, <1>7, <1>8, <1>12
<1>13. CASE \E d \in Clients : Arrive(d)
  <2>1. PICK d \in Clients : Arrive(d)
    BY <1>13
  <2>2. UNCHANGED <<size, steady, sent, link, length>> /\ (HasLink(c)' <=> HasLink(c))
    BY <1>7, <1>9, <2>1
  <2>3. Accepted(c)' <=> Accepted(c)
    BY <2>2 DEF Accepted
  <2>4. \/ Delivered(c)' = Delivered(c)
        \/ Delivered(c)' <= sent[c] /\ (steady[c] => Delivered(c)' = sent[c])
    BY <1>9, <2>1
  <2>. QED
    BY <1>1, <2>2, <2>3, <2>4
<1>14. CASE ServerEnds
  BY <1>1, <1>4, <1>14 DEF ServerEnds, networkVars
<1>. QED
  BY <1>3, <1>10, <1>11, <1>12, <1>13, <1>14 DEF Network

(* A handshake gives a client a connection of its own. *)
LEMMA EstablishKeeps ==
  ASSUME TransportInv, NEW d \in Clients, Establish(d)
  PROVE  /\ EndsTypeOK' /\ OwnConnection' /\ sent' = sent
         /\ NextLink \in 1 .. MaxConnections /\ NextLink >= m_counter
         /\ link[d] = 0 /\ link'[d] = NextLink
         /\ \A e \in Clients : e # d => link'[e] = link[e]
<1>. USE DEF TransportInv
<1>1. m_counter \in 1 .. MaxConnections
  BY DEF SCT!IInv, SCT!TypeOK, SCT!Connections
<1>2. /\ NextLink \in Nat /\ NextLink >= m_counter
      /\ \A e \in Clients : link[e] < NextLink
  BY <1>1, NextLinkIsNew
<1>3. /\ link[d] = 0 /\ NextLink < MaxConnections /\ UNCHANGED <<size, steady, sent>>
      /\ link' = [link EXCEPT ![d] = NextLink]
  BY DEF Establish, ServerSide
<1>. HIDE DEF NextLink
<1>4. NextLink \in 1 .. MaxConnections
  BY <1>1, <1>2, <1>3, TransportAssumption
<1>5. link'[d] = NextLink /\ \A e \in Clients : e # d => link'[e] = link[e]
  BY <1>3 DEF EndsTypeOK
<1>6. EndsTypeOK'
  BY <1>3, <1>4 DEF EndsTypeOK
<1>7. OwnConnection'
  BY <1>2, <1>5 DEF OwnConnection, HasLink, EndsTypeOK
<1>. QED
  BY <1>2, <1>3, <1>4, <1>5, <1>6, <1>7

(* The clients' ends keep to their types, and apart. *)
LEMMA EndsStep ==
  ASSUME TransportInv, Network \/ ClientStep
  PROVE  EndsTypeOK' /\ OwnConnection'
<1>. USE DEF TransportInv
<1>1. ASSUME UNCHANGED <<size, steady, link>>, sent' \in [Clients -> Nat]
      PROVE  EndsTypeOK' /\ OwnConnection'
  BY <1>1 DEF EndsTypeOK, OwnConnection, HasLink
<1>2. ASSUME UNCHANGED clientEnds PROVE EndsTypeOK' /\ OwnConnection'
  BY <1>1, <1>2 DEF clientEnds, EndsTypeOK
<1>3. CASE Network
  <2>1. CASE AcceptFails
    BY <2>1, AcceptFailsKeeps
  <2>2. CASE ~AcceptFails
    BY <1>2, <1>3, <2>2 DEF Network, Handler, Accept, Arrive, FinArrives, Breaks, ServerEnds
  <2>. QED
    BY <2>1, <2>2
<1>4. CASE ClientStep
  BY <1>1, <1>4, EstablishKeeps DEF ClientStep, ServerSide
<1>. QED
  BY <1>3, <1>4

(* What each step of a client program does to them. *)
LEMMA ClientKeeps ==
  ASSUME TransportInv, ClientStep, NEW c \in Clients
  PROVE  /\ UNCHANGED <<size, steady>>
         /\ sent[c] <= sent'[c]
         /\ HasLink(c) => link'[c] = link[c]
         /\ ~HasLink(c) /\ HasLink(c)' => link'[c] >= m_counter
         /\ Accepted(c)' => Accepted(c)
         /\ Accepted(c) => length'[link'[c]] = length[link[c]] /\ Delivered(c)' = Delivered(c)
<1>. USE DEF TransportInv
<1>1. UNCHANGED <<m_counter, length, pending, size, steady>>
  BY DEF ClientStep, ServerSide, handlerVars, networkVars
<1>2. sent[c] \in Nat
  BY DEF EndsTypeOK
<1>3. CASE UNCHANGED link /\ \A d \in Clients : sent[d] <= sent'[d]
  BY <1>1, <1>3 DEF HasLink, Accepted, Delivered
<1>4. ASSUME NEW d \in Clients, Establish(d)
      PROVE  /\ sent' = sent
             /\ c # d => link'[c] = link[c]
             /\ c = d => ~HasLink(c) /\ ~Accepted(c)' /\ link'[c] >= m_counter
  <2>1. /\ NextLink \in 1 .. MaxConnections /\ NextLink >= m_counter
        /\ link[d] = 0 /\ sent' = sent
        /\ link'[d] = NextLink /\ \A e \in Clients : e # d => link'[e] = link[e]
    BY <1>4, EstablishKeeps
  <2>2. length[NextLink] = 0
    BY <2>1, ConnectionFacts
  <2>. QED
    BY <1>1, <2>1, <2>2 DEF HasLink, Accepted
<1>5. ASSUME NEW d \in Clients, Establish(d), c # d
      PROVE  link'[c] = link[c] /\ (Accepted(c)' <=> Accepted(c)) /\ Delivered(c)' = Delivered(c)
  BY <1>1, <1>4, <1>5 DEF Accepted, Delivered
<1>6. CASE \E d \in Clients : Establish(d)
  BY <1>1, <1>2, <1>4, <1>5, <1>6 DEF HasLink, Accepted
<1>. QED
  BY <1>3, <1>6 DEF ClientStep

(* Either way a client keeps a connection that was accepted. *)
LEMMA LinkKeeps ==
  ASSUME TransportInv, Network \/ ClientStep, NEW c \in Clients
  PROVE  /\ UNCHANGED <<size, steady>>
         /\ HasLink(c) /\ link[c] < m_counter => link'[c] = link[c]
         /\ HasLink(c)' /\ ~(HasLink(c) /\ link[c] < m_counter) => link'[c] >= m_counter
<1>1. m_counter \in Nat /\ link[c] \in Nat
  BY DEF TransportInv, SCT!IInv, SCT!TypeOK, SCT!Connections, EndsTypeOK
<1>2. CASE Network
  BY <1>2, NetworkKeeps
<1>3. CASE ClientStep
  BY <1>1, <1>3, ClientKeeps
<1>. QED
  BY <1>2, <1>3

(* Every step keeps the invariant. *)
LEMMA TransportStep ==
  ASSUME TransportInv, Network \/ ClientStep
  PROVE  TransportInv'
<1>. USE DEF TransportInv
<1>1. SCT!IInv'
  BY ServerInvStep
<1>2. \A c \in Clients : sent[c] \in Nat
  BY DEF EndsTypeOK
<1>3. ASSUME NEW c \in Clients, Accepted(c) PROVE Delivered(c) \in Nat
  <2>1. link[c] \in 1 .. MaxConnections
    BY <1>3 DEF Accepted, EndsTypeOK
  <2>2. /\ length[link[c]] \in Nat /\ pending[link[c]] \in Nat
        /\ m_recv[link[c]] \in Nat /\ arrived[link[c]] \in Nat
        /\ m_recv[link[c]] + arrived[link[c]] + pending[link[c]] = length[link[c]]
    BY <2>1, ConnectionFacts
  <2>. QED
    BY <2>2 DEF Delivered
<1>4. CASE Network
  <2>1. ASSUME NEW c \in Clients, Accepted(c)'
        PROVE  length'[link'[c]] = size'[c] /\ Delivered(c)' <= sent'[c]
    <3>1. CASE Accepted(c)
      BY <1>2, <1>4, <2>1, <3>1, NetworkKeeps DEF OwnReport, OnlySent
    <3>2. CASE ~Accepted(c)
      BY <1>2, <1>4, <2>1, <3>2, NetworkKeeps
    <3>. QED
      BY <3>1, <3>2
  <2>. QED
    BY <1>1, <2>1, EndsStep DEF OwnReport, OnlySent
<1>5. CASE ClientStep
  <2>1. ASSUME NEW c \in Clients, Accepted(c)'
        PROVE  length'[link'[c]] = size'[c] /\ Delivered(c)' <= sent'[c]
    <3>1. Accepted(c) /\ sent[c] <= sent'[c] /\ sent'[c] \in Nat /\ size' = size
          /\ length'[link'[c]] = length[link[c]] /\ Delivered(c)' = Delivered(c)
      BY <1>5, <2>1, ClientKeeps, EndsStep DEF EndsTypeOK
    <3>2. length[link[c]] = size[c] /\ Delivered(c) <= sent[c] /\ sent[c] \in Nat /\ Delivered(c) \in Nat
      BY <1>2, <1>3, <3>1 DEF OwnReport, OnlySent
    <3>. HIDE DEF Delivered
    <3>. QED
      BY <3>1, <3>2
  <2>. QED
    BY <1>1, <2>1, EndsStep DEF OwnReport, OnlySent
<1>. QED
  BY <1>4, <1>5

-----------------------------------------------------------------------------
(* Whose report a connection has handed over never changes: it was         *)
(* accepted, so its client keeps it, and nobody else comes to it.          *)
LEMMA HandedOverLink ==
  ASSUME TransportInv, Network \/ ClientStep, NEW c \in Clients, HasLink(c)',
         link'[c] \in SC!Produced'
  PROVE  /\ HasLink(c) /\ link[c] < m_counter /\ link'[c] = link[c]
         /\ link[c] \in SCT!Connections
<1>. DEFINE k == link'[c]
<1>1. k \in 1 .. MaxConnections /\ k \in SCT!Connections
  BY EndsStep DEF EndsTypeOK, HasLink, SCT!Connections
<1>. HIDE DEF k
<1>2. k \in SCT!Produced'
  <2>1. SC!Produced' = SCT!Produced'
    BY DEF SC!Produced, SCT!Produced
  <2>. QED
    BY <2>1 DEF k
<1>3. k \in SCT!Produced \/ conn[k] = "reading"
  BY <1>1, <1>2, Sizes, ServerStep, SCT!ConnectionStep DEF TransportInv
<1>4. conn[k] \notin {"none", "accepting"}
  BY <1>1, <1>3, ConnectionFacts, SameSide DEF TransportInv
<1>5. m_counter \in Nat /\ k < m_counter
  BY <1>1, <1>4, ConnectionFacts DEF TransportInv
<1>. QED
  BY <1>1, <1>5, LinkKeeps DEF k

(* No report is empty. *)
SomethingHandedOver ==
  \A c \in Clients :
    HasLink(c) /\ link[c] \in SC!Produced => m_recv[link[c]] \in Nat \ {0} /\ Accepted(c)

(* It ended with a read that brought something. *)
LEMMA HandedOverIsNotEmpty == TransportInv => SomethingHandedOver
<1>. SUFFICES ASSUME TransportInv, NEW c \in Clients, HasLink(c), link[c] \in SC!Produced
              PROVE  m_recv[link[c]] \in Nat \ {0} /\ Accepted(c)
  BY DEF SomethingHandedOver
<1>. DEFINE k == link[c]
<1>1. k \in 1 .. MaxConnections /\ k \in SCT!Connections /\ k \in SCT!Produced
  BY SameSide DEF TransportInv, EndsTypeOK, HasLink, SCT!Connections
<1>. HIDE DEF k
<1>2. m_recv[k] \in Nat /\ m_recv[k] % BufSize # 0
  <2>1. m_recv[k] \in Nat
    BY <1>1, ConnectionFacts DEF TransportInv
  <2>2. PICK i \in DOMAIN produced : produced[i].conn = k
    BY <1>1, Sizes, SCT!Handover DEF TransportInv, SCT!IInv
  <2>. QED
    BY <2>1, <2>2 DEF TransportInv, SCT!IInv, SCT!HandedOver
<1>3. m_recv[k] # 0
  <2>1. 0 % BufSize = 0
    BY Sizes, SCT!Remainder, TransportAssumption
  <2>. QED
    BY <1>2, <2>1
<1>4. length[k] > 0
  <2>1. /\ length[k] \in Nat /\ pending[k] \in Nat /\ arrived[k] \in Nat /\ m_recv[k] \in Nat
        /\ m_recv[k] + arrived[k] + pending[k] = length[k]
    BY <1>1, ConnectionFacts DEF TransportInv
  <2>. QED
    BY <1>3, <2>1
<1>5. Accepted(c)
  BY <1>1, <1>4 DEF Accepted, k
<1>. QED
  BY <1>2, <1>3, <1>5 DEF k

(* The same after a step. *)
LEMMA HandedOverIsNotEmptyNext == TransportInv' => SomethingHandedOver'
BY HandedOverIsNotEmpty, PTL

(* And it stays as it is. *)
LEMMA HandedOverStays ==
  ASSUME TransportInv, Network \/ ClientStep,
         NEW c \in Clients, HasLink(c), link[c] \in SC!Produced
  PROVE  /\ HasLink(c)' /\ link'[c] = link[c] /\ link'[c] \in SC!Produced'
         /\ m_recv'[link'[c]] = m_recv[link[c]]
<1>. DEFINE k == link[c]
<1>1. k \in 1 .. MaxConnections /\ k \in SCT!Connections /\ k \in SCT!Produced
  BY SameSide DEF TransportInv, EndsTypeOK, HasLink, SCT!Connections
<1>. HIDE DEF k
<1>2. k \in SCT!Produced' /\ m_recv'[k] = m_recv[k]
  BY <1>1, Sizes, ServerStep, SCT!ConnectionStep DEF TransportInv
<1>3. k \in SC!Produced'
  BY <1>2 DEF SC!Produced, SCT!Produced
<1>4. k < m_counter
  <2>1. conn[k] \notin {"none", "accepting"}
    BY <1>1, SameSide, ConnectionFacts DEF TransportInv
  <2>2. m_counter \in 1 .. MaxConnections /\ ~(k >= m_counter)
    BY <1>1, <2>1, ConnectionFacts DEF TransportInv
  <2>. QED
    BY <1>1, <2>2, TransportAssumption
<1>5. link'[c] = k
  BY <1>4, LinkKeeps DEF k, HasLink
<1>. QED
  BY <1>1, <1>2, <1>3, <1>5 DEF HasLink, k

(* What a client sends at once arrives at once, and is read to its end:    *)
(* the short read that ends the report has taken all of it.                *)
LEMMA WholeStep ==
  ASSUME TransportInv, Network \/ ClientStep, NEW c \in Clients, steady[c], Whole(c),
         sent'[c] = sent[c] \/ sent[c] = 0
  PROVE  Whole(c)'
<1>. USE DEF TransportInv
<1>1. sent[c] \in Nat /\ sent'[c] \in Nat
  BY EndsStep DEF EndsTypeOK
<1>2. Accepted(c)' => Delivered(c)' \in {0, sent'[c]}
  <2>. SUFFICES ASSUME Accepted(c)' PROVE Delivered(c)' \in {0, sent'[c]}
    OBVIOUS
  <2>1. CASE Network
    BY <2>1, NetworkKeeps DEF Whole
  <2>2. CASE ClientStep
    BY <2>2, ClientKeeps DEF Whole
  <2>. QED
    BY <2>1, <2>2
<1>3. ASSUME HasLink(c)', link'[c] \in SC!Produced' PROVE m_recv'[link'[c]] = sent'[c]
  <2>. DEFINE k == link[c]
  <2>1. HasLink(c) /\ link'[c] = k /\ k \in SCT!Connections
    BY <1>3, HandedOverLink
  <2>2. CASE k \in SC!Produced
    <3>1. m_recv[k] = sent[c] /\ m_recv[k] # 0 /\ m_recv'[k] = m_recv[k]
      BY <2>1, <2>2, HandedOverStays, HandedOverIsNotEmpty DEF Whole, SomethingHandedOver
    <3>. QED
      BY <2>1, <3>1
  <2>3. CASE k \notin SC!Produced
    <3>1. TransportInv'
      BY TransportStep
    <3>2. arrived'[k] = 0
      <4>1. k \in SCT!Produced' /\ k \notin SCT!Produced
        BY <1>3, <2>1, <2>3 DEF SC!Produced, SCT!Produced
      <4>. QED
        BY <2>1, <4>1, Sizes, ServerStep, SCT!ConnectionStep
    <3>3. m_recv'[k] \in Nat \ {0} /\ Accepted(c)'
      BY <1>3, <2>1, <3>1, HandedOverIsNotEmptyNext DEF SomethingHandedOver
    <3>4. Delivered(c)' = m_recv'[k]
      <4>1. m_recv'[k] + arrived'[k] + pending'[k] = length'[k]
        BY <2>1, <3>1 DEF SCT!IInv, SCT!BytesConserved
      <4>2. pending'[k] \in Nat
        BY <2>1, <3>1 DEF SCT!IInv, SCT!TypeOK
      <4>3. length'[k] - pending'[k] = m_recv'[k]
        BY <3>2, <3>3, <4>1, <4>2
      <4>. QED
        BY <2>1, <4>3 DEF Delivered
    <3>. QED
      BY <1>2, <2>1, <3>3, <3>4
  <2>. QED
    BY <2>2, <2>3
<1>. QED
  BY <1>2, <1>3 DEF Whole

-----------------------------------------------------------------------------
(* Client-one. *)
LocalsTypeOK ==
  /\ at \in [Clients -> Points] /\ outcome \in [Clients -> Outcomes]
  /\ txError \in [Clients -> BOOLEAN] /\ waited \in [Clients -> Nat]
  /\ \A c \in Clients : sent[c] \in 0 .. size[c]

(* SendAnalytics says what became of the report when it returns. *)
SaysAtTheEnd == \A c \in Clients : outcome[c] # "none" => at[c] = "returned"

(* "Tx: OK" is the end of the loop. *)
SentIsAll ==
  \A c \in Clients :
    /\ at[c] \in {"socket", "connecting"} => sent[c] = 0
    /\ ~txError[c] /\ (at[c] \in {"sent", "waiting"} \/ outcome[c] = "ack") => sent[c] = size[c]

(* The end of file is seen when the connection is closed, and a closed     *)
(* connection reads no more; or when the process is gone, and then no      *)
(* connection gets any further.                                            *)
EndIsFinal(c) ==
  /\ HasLink(c)
  /\ \/ conn[link[c]] = "closed" /\ link[c] \notin SC!Produced
     \/ /\ ~serverUp
        /\ link[c] \in SC!Produced => conn[link[c]] \in {"producing", "writing"}

NoAckMeansEnded == \A c \in Clients : outcome[c] = "no ack" => EndIsFinal(c)

(* A report that fits into one send is taken whole or not at all, unless   *)
(* the loop has ended with an error ...                                    *)
OneSend ==
  \A c \in Clients : size[c] <= BUFFERSIZE /\ at[c] = "sending" => sent[c] \in {0, size[c]}

(* ... and over a network that keeps it together the server gets what was  *)
(* taken.                                                                  *)
OneSendIsWhole == \A c \in Clients : size[c] <= BUFFERSIZE /\ steady[c] => Whole(c)

LocalInv == LocalsTypeOK /\ SaysAtTheEnd /\ SentIsAll /\ OneSend

IInv ==
  /\ TransportInv /\ LocalInv
  /\ AckMeansQueued /\ NoAckMeansEnded /\ OneSendIsWhole

-----------------------------------------------------------------------------
(* The state each run of the program starts in. *)
LEMMA InitIInv == Init => IInv
<1>. SUFFICES ASSUME Init PROVE IInv
  OBVIOUS
<1>1. TransportInv
  BY InitTransportInv DEF Init
<1>2. \A c \in Clients : link[c] = 0 /\ sent[c] = 0 /\ size[c] \in Nat
  BY TransportAssumption DEF Init, TransportInit
<1>3. LocalInv
  BY <1>2 DEF Init, LocalInv, LocalsTypeOK, SaysAtTheEnd, SentIsAll, OneSend, Points, Outcomes
<1>4. AckMeansQueued /\ NoAckMeansEnded
  BY DEF Init, AckMeansQueued, NoAckMeansEnded
<1>5. OneSendIsWhole
  BY <1>2 DEF OneSendIsWhole, Whole, Accepted, HasLink
<1>. QED
  BY <1>1, <1>3, <1>4, <1>5 DEF IInv

(* One send takes some of what is left, and all of it if it fits. *)
LEMMA ChunkSize ==
  ASSUME EndsTypeOK, NEW c \in Clients, sent[c] < size[c]
  PROVE  /\ bytesToSend(c) \in Nat /\ sent[c] + bytesToSend(c) \in Nat /\ sent[c] \in Nat
         /\ size[c] \in Nat
         /\ sent[c] + bytesToSend(c) <= size[c]
         /\ sent[c] = 0 /\ size[c] <= BUFFERSIZE => bytesToSend(c) = size[c]
<1>1. sent[c] \in Nat /\ size[c] \in Nat
  <2>1. size[c] \in Lengths /\ sent[c] \in Nat
    BY DEF EndsTypeOK
  <2>. QED
    BY <2>1, TransportAssumption
<1>. QED
  BY <1>1, ClientOneAssumption DEF bytesToSend

(* The times the two selects wait are some times. *)
LEMMA Timeouts == connTimeout \in Nat /\ ackTimeout \in Nat
BY ClientOneAssumption DEF connTimeout, ackTimeout, microseconds

(* A return sends nothing. *)
LEMMA ReturnKeeps ==
  ASSUME EndsTypeOK, LocalInv, NEW c \in Clients,
         NEW from \in {"socket", "connecting", "sent", "waiting"},
         NEW how \in Outcomes \ {"none"},
         Return(c, from, how), how = "ack" => from = "waiting",
         waited' \in [Clients -> Nat]
  PROVE  LocalInv' /\ ClientStep /\ sent' = sent
<1>1. ClientStep /\ UNCHANGED <<sent, size, steady>>
  BY DEF Return, ClientStep, EndsTypeOK, ServerSide
<1>. QED
  BY <1>1 DEF Return, Goto, LocalInv, LocalsTypeOK, SaysAtTheEnd, SentIsAll, OneSend, Points, Outcomes

(* The sends, whose bytes are counted. *)
LEMMA SendKeeps ==
  ASSUME EndsTypeOK, LocalInv, NEW c \in Clients, SendChunk(c) \/ SendPart(c)
  PROVE  /\ LocalInv' /\ ClientStep
         /\ sent[c] # sent'[c] => sent[c] = 0 \/ ~(size[c] <= BUFFERSIZE)
         /\ \A d \in Clients : d # c => sent'[d] = sent[d]
<1>. USE DEF LocalInv
<1>1. at[c] = "sending" /\ sent[c] < size[c] /\ UNCHANGED <<ServerSide, link, size, steady, outcome, waited>>
  BY DEF SendChunk, SendPart, Sending, locals, ServerSide
<1>2. /\ bytesToSend(c) \in Nat /\ sent[c] \in Nat /\ size[c] \in Nat
      /\ sent[c] + bytesToSend(c) \in Nat
      /\ sent[c] + bytesToSend(c) <= size[c]
      /\ sent[c] = 0 /\ size[c] <= BUFFERSIZE => bytesToSend(c) = size[c]
  BY <1>1, ChunkSize
<1>3. size[c] <= BUFFERSIZE => sent[c] = 0
  BY <1>1, <1>2 DEF OneSend
<1>4. outcome[c] = "none" /\ (at[c] # "sent" /\ at[c] # "waiting")
  BY <1>1 DEF SaysAtTheEnd
<1>. HIDE DEF bytesToSend
<1>5. CASE SendChunk(c)
  <2>1. sent' = [sent EXCEPT ![c] = sent[c] + bytesToSend(c)] /\ UNCHANGED <<at, txError>>
    BY <1>5 DEF SendChunk, locals
  <2>2. /\ sent' \in [Clients -> Nat] /\ sent'[c] = sent[c] + bytesToSend(c)
        /\ \A d \in Clients : d # c => sent'[d] = sent[d]
    BY <1>2, <2>1 DEF EndsTypeOK
  <2>3. \A d \in Clients : sent[d] <= sent'[d] /\ sent'[d] \in 0 .. size[d]
    BY <1>2, <2>2 DEF LocalsTypeOK, EndsTypeOK
  <2>4. ClientStep
    BY <1>1, <2>2, <2>3 DEF ClientStep
  <2>5. LocalsTypeOK' /\ SaysAtTheEnd'
    BY <1>1, <2>1, <2>3 DEF LocalsTypeOK, SaysAtTheEnd
  <2>6. SentIsAll'
    BY <1>1, <1>4, <2>1, <2>2 DEF SentIsAll
  <2>7. OneSend'
    BY <1>1, <1>2, <1>3, <2>1, <2>2 DEF OneSend
  <2>. QED
    BY <1>3, <2>2, <2>4, <2>5, <2>6, <2>7
<1>6. CASE SendPart(c)
  <2>1. PICK n \in 1 .. bytesToSend(c) - 1 : sent' = [sent EXCEPT ![c] = sent[c] + n]
    BY <1>6 DEF SendPart
  <2>2. at' = [at EXCEPT ![c] = "sent"] /\ txError' = [txError EXCEPT ![c] = TRUE]
    BY <1>6 DEF SendPart, Goto
  <2>3. n \in Nat /\ sent[c] + n \in Nat /\ sent[c] + n <= size[c]
    BY <1>2
  <2>4. /\ sent' \in [Clients -> Nat] /\ sent'[c] = sent[c] + n
        /\ \A d \in Clients : d # c => sent'[d] = sent[d]
    BY <2>1, <2>3 DEF EndsTypeOK
  <2>5. \A d \in Clients : sent[d] <= sent'[d] /\ sent'[d] \in 0 .. size[d]
    BY <1>2, <2>3, <2>4 DEF LocalsTypeOK, EndsTypeOK
  <2>6. ClientStep
    BY <1>1, <2>4, <2>5 DEF ClientStep
  <2>7. LocalsTypeOK' /\ SaysAtTheEnd'
    BY <1>1, <1>4, <2>2, <2>5 DEF LocalsTypeOK, SaysAtTheEnd, Points
  <2>8. txError'[c] /\ at'[c] = "sent"
    BY <2>2 DEF LocalsTypeOK
  <2>9. \A d \in Clients : d # c => at'[d] = at[d] /\ txError'[d] = txError[d]
    BY <2>2 DEF LocalsTypeOK
  <2>10. SentIsAll'
    BY <1>1, <2>4, <2>8, <2>9 DEF SentIsAll
  <2>11. OneSend'
    BY <1>1, <2>4, <2>8, <2>9 DEF OneSend
  <2>. QED
    BY <1>3, <2>4, <2>6, <2>7, <2>10, <2>11
<1>. QED
  BY <1>5, <1>6

(* The other steps of a client that does not return. *)
LEMMA GoesOnKeeps ==
  ASSUME EndsTypeOK, LocalInv, NEW c \in Clients,
         \/ Connect(c) \/ Connected(c) \/ SendFails(c) \/ SentAll(c) \/ Shutdown(c)
         \/ Handshake(c)
  PROVE  LocalInv' /\ ClientStep /\ sent' = sent /\ outcome' = outcome
<1>. USE DEF LocalInv, LocalsTypeOK, SaysAtTheEnd, SentIsAll, OneSend, Points
<1>1. ASSUME UNCHANGED transportVars PROVE ClientStep /\ UNCHANGED <<sent, size, steady>>
  BY <1>1 DEF ClientStep, EndsTypeOK, transportVars, clientEnds, ServerSide
<1>2. CASE Connect(c)
  BY <1>1, <1>2 DEF Connect, Goto
<1>3. CASE Connected(c)
  BY <1>1, <1>3 DEF Connected, Goto
<1>4. CASE SendFails(c)
  <2>1. /\ UNCHANGED <<sent, size, steady, outcome, waited>> /\ ClientStep
        /\ at[c] = "sending" /\ at' = [at EXCEPT ![c] = "sent"]
        /\ txError' = [txError EXCEPT ![c] = TRUE]
    BY <1>1, <1>4 DEF SendFails, Goto
  <2>2. txError'[c] /\ at'[c] = "sent"
    BY <2>1
  <2>3. \A d \in Clients : d # c => at'[d] = at[d] /\ txError'[d] = txError[d]
    BY <2>1
  <2>4. LocalsTypeOK'
    BY <2>1
  <2>5. outcome[c] = "none"
    BY <2>1
  <2>6. SaysAtTheEnd' /\ SentIsAll' /\ OneSend'
    BY <2>1, <2>2, <2>3, <2>5
  <2>. QED
    BY <2>1, <2>4, <2>6
<1>5. CASE SentAll(c)
  BY <1>1, <1>5 DEF SentAll, Goto
<1>6. CASE Shutdown(c)
  <2>1. ClientStep /\ UNCHANGED <<sent, size, steady>>
    BY <1>6 DEF Shutdown, ClientStep, EndsTypeOK, ServerSide
  <2>. QED
    BY <1>6, <2>1 DEF Shutdown, Goto
<1>7. CASE Handshake(c)
  BY <1>7 DEF Handshake, ClientStep, Establish, ServerSide, locals
<1>. QED
  BY <1>2, <1>3, <1>4, <1>5, <1>6, <1>7

(* What a client says, and what it has sent, after any step of its own. *)
LEMMA ClientMoves ==
  ASSUME EndsTypeOK, LocalInv, NEW c \in Clients, SendAnalytics(c) \/ Handshake(c)
  PROVE  /\ LocalInv' /\ ClientStep
         /\ \A d \in Clients :
              /\ sent'[d] = sent[d] \/ sent[d] = 0 \/ ~(size[d] <= BUFFERSIZE)
              /\ outcome'[d] = "ack" => outcome[d] = "ack" \/ AckReadable(d)
              /\ outcome'[d] = "no ack" => outcome[d] = "no ack" \/ EndReadable(d)
<1>. DEFINE P == /\ LocalInv' /\ ClientStep
                 /\ \A d \in Clients :
                      /\ sent'[d] = sent[d] \/ sent[d] = 0 \/ ~(size[d] <= BUFFERSIZE)
                      /\ outcome'[d] = "ack" => outcome[d] = "ack" \/ AckReadable(d)
                      /\ outcome'[d] = "no ack" => outcome[d] = "no ack" \/ EndReadable(d)
<1>. USE DEF LocalInv, LocalsTypeOK
<1>1. ASSUME NEW from \in {"socket", "connecting", "sent", "waiting"},
             NEW how \in Outcomes \ {"none"},
             Return(c, from, how), how = "ack" => from = "waiting" /\ AckReadable(c),
             how = "no ack" => EndReadable(c),
             waited' \in [Clients -> Nat]
      PROVE  P
  <2>1. LocalInv' /\ ClientStep /\ sent' = sent
    BY <1>1, ReturnKeeps
  <2>2. \A d \in Clients : outcome'[d] = IF d = c THEN how ELSE outcome[d]
    BY <1>1 DEF Return
  <2>. QED
    BY <1>1, <2>1, <2>2
<1>2. CASE SendChunk(c) \/ SendPart(c)
  BY <1>2, SendKeeps DEF SendChunk, SendPart, locals
<1>3. CASE \/ Connect(c) \/ Connected(c) \/ SendFails(c) \/ SentAll(c) \/ Shutdown(c)
           \/ Handshake(c)
  BY <1>3, GoesOnKeeps
<1>4. CASE RecvAck(c)
  BY <1>1, <1>4 DEF RecvAck, Outcomes
<1>5. CASE RecvEnd(c)
  BY <1>1, <1>5 DEF RecvEnd, Outcomes
<1>6. CASE RecvFails(c)
  BY <1>1, <1>6 DEF RecvFails, Outcomes
<1>7. CASE StartFails(c) \/ ShutdownFails(c) \/ SelectFails(c)
  BY <1>1, <1>7 DEF StartFails, ShutdownFails, SelectFails, Outcomes
<1>8. CASE ConnectTimesOut(c) \/ AckTimesOut(c)
  <2>1. waited' \in [Clients -> Nat]
    BY <1>8, Timeouts DEF ConnectTimesOut, AckTimesOut
  <2>. QED
    BY <1>1, <1>8, <2>1 DEF ConnectTimesOut, AckTimesOut, Outcomes
<1>. QED
  BY <1>2, <1>3, <1>4, <1>5, <1>6, <1>7, <1>8 DEF SendAnalytics, Goes, Fails

(* A step of the network says nothing and sends nothing. *)
LEMMA NetworkMoves ==
  ASSUME TransportInv, LocalInv, Network, UNCHANGED locals
  PROVE  LocalInv' /\ \A d \in Clients : sent'[d] = sent[d]
<1>1. \A d \in Clients : UNCHANGED <<sent, size>>
  BY NetworkKeeps
<1>. QED
  BY <1>1 DEF locals, LocalInv, LocalsTypeOK, SaysAtTheEnd, SentIsAll, OneSend

(* When a client can read an end of file, its connection is at its end: a  *)
(* report in the queue is acknowledged before the connection is closed,    *)
(* unless the connection broke.                                            *)
LEMMA EndReadableIsFinal ==
  ASSUME TransportInv, NEW c \in Clients, EndReadable(c)
  PROVE  EndIsFinal(c)
<1>1. /\ HasLink(c) /\ (conn[link[c]] = "closed" \/ ~serverUp)
      /\ link[c] \notin acked /\ peer[link[c]] # "reset"
  BY DEF EndReadable
<1>2. conn[link[c]] = "closed" => link[c] \notin SC!Produced
  BY <1>1, SameSide DEF TransportInv, SCT!IInv, SCT!SilenceMeansReset
<1>3. link[c] \in SC!Produced => conn[link[c]] \in {"producing", "writing", "closed"}
  <2>. SUFFICES ASSUME link[c] \in SC!Produced
                PROVE  conn[link[c]] \in {"producing", "writing", "closed"}
    OBVIOUS
  <2>1. PICK i \in DOMAIN produced : produced[i].conn = link[c]
    BY DEF SC!Produced
  <2>. QED
    BY <2>1 DEF TransportInv, SCT!IInv, SCT!HandedOver
<1>. QED
  BY <1>1, <1>2, <1>3 DEF EndIsFinal

(* And there it stays. *)
LEMMA EndStaysFinal ==
  ASSUME TransportInv, Network \/ ClientStep, NEW c \in Clients, EndIsFinal(c)
  PROVE  EndIsFinal(c)'
<1>1. HasLink(c) /\ link[c] \in SCT!Connections
  BY LinkFacts DEF EndIsFinal
<1>2. CASE conn[link[c]] = "closed" /\ link[c] \notin SC!Produced
  <2>1. link'[c] = link[c]
    BY <1>1, <1>2, LinkFacts, LinkKeeps
  <2>2. conn'[link[c]] = "closed" /\ link[c] \notin SCT!Produced'
    BY <1>1, <1>2, Sizes, SameSide, ServerStep, SCT!ConnectionStep DEF TransportInv
  <2>3. link[c] \notin SC!Produced'
    BY <2>2 DEF SC!Produced, SCT!Produced
  <2>. QED
    BY <1>1, <2>1, <2>2, <2>3 DEF EndIsFinal, HasLink
<1>3. CASE /\ ~serverUp
           /\ link[c] \in SC!Produced => conn[link[c]] \in {"producing", "writing"}
  <2>1. ClientStep
    BY <1>3 DEF Network, AcceptFails, Handler, Accept, Arrive, FinArrives, Breaks, ServerEnds,
      ServerRuns
  <2>2. UNCHANGED <<serverUp, conn, produced>> /\ link'[c] = link[c]
    BY <1>1, <2>1, ClientKeeps DEF ClientStep, ServerSide, handlerVars
  <2>. QED
    BY <1>1, <1>3, <2>2 DEF EndIsFinal, HasLink, SC!Produced
<1>. QED
  BY <1>2, <1>3 DEF EndIsFinal

(* Every step keeps what a client has said true. *)
LEMMA SayingsKeep ==
  ASSUME IInv, Network \/ ClientStep,
         \A d \in Clients :
           /\ sent'[d] = sent[d] \/ sent[d] = 0 \/ ~(size[d] <= BUFFERSIZE)
           /\ outcome'[d] = "ack" => outcome[d] = "ack" \/ AckReadable(d)
           /\ outcome'[d] = "no ack" => outcome[d] = "no ack" \/ EndReadable(d)
  PROVE  AckMeansQueued' /\ NoAckMeansEnded' /\ OneSendIsWhole'
<1>. USE DEF IInv
<1>1. ASSUME NEW c \in Clients, HasLink(c)
      PROVE  link[c] \in SCT!Connections
  BY <1>1, LinkFacts
<1>2. ASSUME NEW c \in Clients, outcome'[c] = "ack" PROVE link'[c] \in SC!Produced'
  <2>1. HasLink(c) /\ link[c] \in SC!Produced
    <3>1. CASE outcome[c] = "ack"
      <4>1. link[c] \in SC!Produced
        BY <3>1 DEF AckMeansQueued
      <4>. QED
        BY <4>1, LinkFacts
    <3>2. CASE AckReadable(c)
      <4>1. HasLink(c) /\ (conn[link[c]] = "writing" \/ link[c] \in acked)
        BY <3>2 DEF AckReadable
      <4>. QED
        BY <1>1, <4>1, SameSide DEF TransportInv, SCT!IInv, SCT!AckedIsProduced
    <3>. QED
      BY <1>2, <3>1, <3>2
  <2>. QED
    BY <2>1, HandedOverStays
<1>3. ASSUME NEW c \in Clients, outcome'[c] = "no ack" PROVE EndIsFinal(c)'
  <2>1. EndIsFinal(c)
    BY <1>3, EndReadableIsFinal DEF NoAckMeansEnded
  <2>. QED
    BY <2>1, EndStaysFinal
<1>4. ASSUME NEW c \in Clients, size'[c] <= BUFFERSIZE, steady'[c] PROVE Whole(c)'
  BY <1>4, LinkKeeps, WholeStep DEF OneSendIsWhole
<1>. QED
  BY <1>2, <1>3, <1>4 DEF AckMeansQueued, NoAckMeansEnded, OneSendIsWhole

(* Every step keeps the invariant. *)
LEMMA InvarianceStep == IInv /\ [Next]_vars => IInv'
<1>. SUFFICES ASSUME IInv, [Next]_vars PROVE IInv'
  OBVIOUS
<1>1. TransportInv /\ LocalInv /\ EndsTypeOK
  BY DEF IInv, TransportInv
<1>2. ASSUME Network \/ ClientStep, LocalInv',
             \A d \in Clients :
               /\ sent'[d] = sent[d] \/ sent[d] = 0 \/ ~(size[d] <= BUFFERSIZE)
               /\ outcome'[d] = "ack" => outcome[d] = "ack" \/ AckReadable(d)
               /\ outcome'[d] = "no ack" => outcome[d] = "no ack" \/ EndReadable(d)
      PROVE  IInv'
  BY <1>1, <1>2, TransportStep, SayingsKeep DEF IInv
<1>3. CASE \E c \in Clients : SendAnalytics(c) \/ Handshake(c)
  BY <1>1, <1>2, <1>3, ClientMoves
<1>4. CASE Network /\ UNCHANGED locals
  <2>1. LocalInv' /\ outcome' = outcome /\ \A d \in Clients : sent'[d] = sent[d]
    BY <1>1, <1>4, NetworkMoves DEF locals
  <2>. QED
    BY <1>2, <1>4, <2>1
<1>5. CASE UNCHANGED vars
  <2>1. ClientStep /\ sent' = sent /\ outcome' = outcome
    BY <1>1, <1>5 DEF ClientStep, vars, transportVars, clientEnds, locals, ServerSide, EndsTypeOK
  <2>2. LocalInv'
    BY <1>1, <1>5 DEF vars, transportVars, clientEnds, locals, LocalInv, LocalsTypeOK,
      SaysAtTheEnd, SentIsAll, OneSend
  <2>. QED
    BY <1>2, <2>1, <2>2
<1>. QED
  BY <1>3, <1>4, <1>5 DEF Next

(* The invariant holds of every behaviour of the clients, the network and  *)
(* the server.                                                             *)
THEOREM Invariance == Spec => []IInv
BY InitIInv, InvarianceStep, PTL DEF Spec

(* SendAnalytics offers no byte twice and none beyond its message, and no  *)
(* two clients share a connection.                                         *)
THEOREM TypeCorrectness == Spec => []TypeOK
<1>1. IInv => TypeOK
  BY DEF IInv, TransportInv, EndsTypeOK, OwnConnection, LocalInv, LocalsTypeOK, TypeOK
<1>. QED
  BY <1>1, Invariance, PTL

(* Whoever prints "Rx: Ack" has a report in the server's queue: the        *)
(* acknowledgement is written after Produce has returned.                  *)
THEOREM AckMeansReport == Spec => []AckMeansQueued
<1>1. IInv => AckMeansQueued
  BY DEF IInv
<1>. QED
  BY <1>1, Invariance, PTL

(* Whoever prints that no acknowledgement was sent has nothing in the      *)
(* queue: the server closes a connection it has read to the end only after *)
(* it has acknowledged it, or when it broke.  The exception is a report    *)
(* whose server process ended between Produce and the acknowledgement.     *)
THEOREM NoAckMeansNoReport == Spec => []NoAckMeansNotQueued
<1>1. IInv => NoAckMeansNotQueued
  BY DEF IInv, NoAckMeansEnded, EndIsFinal, NoAckMeansNotQueued
<1>. QED
  BY <1>1, Invariance, PTL

(* A report that fits into one send, whose send reported no error, that    *)
(* the network kept together and the server acknowledged is in the queue   *)
(* with all its bytes.                                                     *)
THEOREM AckedReportIsWhole == Spec => []AckedIsWhole
<1>1. ASSUME IInv PROVE AckedIsWhole
  <2>. SUFFICES ASSUME NEW c \in Clients, steady[c], outcome[c] = "ack", ~txError[c],
                       size[c] <= BUFFERSIZE
                PROVE  \E i \in DOMAIN produced : produced[i] = [conn |-> link[c], bytes |-> size[c]]
    BY DEF AckedIsWhole
  <2>. DEFINE R == [conn : SCT!Connections, bytes : Nat]
  <2>1. TransportInv /\ link[c] \in SC!Produced /\ link[c] \in SCT!Produced /\ SCT!TypeOK
    BY <1>1, SameSide DEF IInv, AckMeansQueued, TransportInv, SCT!IInv
  <2>2. HasLink(c)
    BY <2>1, LinkFacts
  <2>3. PICK i \in DOMAIN produced : produced[i].conn = link[c]
    BY <2>1, Sizes, SCT!Handover
  <2>4. produced[i].bytes = m_recv[link[c]]
    BY <2>1, <2>3 DEF TransportInv, SCT!IInv, SCT!HandedOver
  <2>5. m_recv[link[c]] = sent[c]
    BY <1>1, <2>1, <2>2 DEF IInv, OneSendIsWhole, Whole
  <2>6. sent[c] = size[c]
    BY <1>1 DEF IInv, LocalInv, SentIsAll
  <2>7. produced \in Seq(R)
    BY <2>1 DEF SCT!TypeOK
  <2>8. \A e \in R : e = [conn |-> e.conn, bytes |-> e.bytes]
    OBVIOUS
  <2>. HIDE DEF R
  <2>9. produced[i] \in R
    BY <2>3, <2>7
  <2>10. produced[i] = [conn |-> link[c], bytes |-> size[c]]
    BY <2>3, <2>4, <2>5, <2>6, <2>8, <2>9, Zenon
  <2>. QED
    BY <2>10
<1>. QED
  BY <1>1, Invariance, PTL
=============================================================================
