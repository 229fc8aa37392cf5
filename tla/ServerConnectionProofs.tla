------------------------ MODULE ServerConnectionProofs ------------------------
(***************************************************************************)
(* What module ServerConnection promises for every buffer size, every set  *)
(* of report lengths, any number of connections and any cut of the reports *)
(* by the network.                                                         *)
(***************************************************************************)
EXTENDS ServerConnection, Integers, TLAPS

(* Connections are created in order, each when its predecessor's accept    *)
(* has completed, and start without a byte.                                *)
CreatedInOrder ==
  \A k \in Connections :
    /\ conn[k] = "none" <=> k > m_counter
    /\ conn[k] \in {"none", "accepting"} => length[k] = 0

(* The thread of io.run is inside Produce for the connection that waits    *)
(* for its return, if there is one.                                        *)
OneInProduce == \A k \in Connections : conn[k] = "producing" <=> io = k

(* While a connection reads it has seen full buffers only, and has handed  *)
(* over nothing; what a connection handed over is all it ever read.        *)
FullBuffersOnly ==
  \A k \in Connections :
    conn[k] \in {"none", "accepting", "reading"} => m_recv[k] % BufSize = 0 /\ k \notin Produced

HandedOver ==
  /\ \A i, j \in DOMAIN produced : produced[i].conn = produced[j].conn => i = j
  /\ \A i \in DOMAIN produced :
       LET k == produced[i].conn
       IN  /\ conn[k] \in {"producing", "writing", "closed"}
           /\ produced[i].bytes = m_recv[k] /\ m_recv[k] % BufSize # 0

(* HandleWrite looks at no error, but only a reset keeps the               *)
(* acknowledgement from the peer.                                          *)
SilenceMeansReset ==
  \A k \in Produced : conn[k] = "closed" /\ k \notin acked => peer[k] = "reset"

IInv ==
  /\ TypeOK
  /\ AcceptorArmed /\ CreatedInOrder
  /\ BytesConserved
  /\ OneInProduce
  /\ FullBuffersOnly /\ HandedOver /\ AckedIsProduced
  /\ SilenceMeansReset

-----------------------------------------------------------------------------
(* What division yields. *)
LEMMA Division ==
  ASSUME NEW b \in Nat \ {0}, NEW m \in Nat
  PROVE  /\ m % b \in 0 .. b - 1 /\ m \div b \in Int
         /\ m = b * (m \div b) + (m % b)
OBVIOUS

(* A remainder is recognised by its range. *)
LEMMA Remainder ==
  ASSUME NEW b \in Nat \ {0}, NEW m \in Nat, NEW q \in Int, NEW r \in 0 .. b - 1,
         m = b * q + r
  PROVE  m % b = r
<1>. DEFINE p == m \div b
            d == p - q
<1>1. /\ m % b \in 0 .. b - 1 /\ p \in Int
      /\ m = b * p + (m % b)
  BY Division
<1>2. d \in Int /\ b * d = b * p - b * q
  BY <1>1
<1>3. b * p \in Int /\ b * q \in Int
  BY <1>1
<1>. HIDE DEF p
<1>4. b * d = r - (m % b)
  BY <1>1, <1>2, <1>3
<1>5. b * d < b /\ b * d > -b
  BY <1>1, <1>4
<1>. HIDE DEF d
<1>6. d = 0
  BY <1>2, <1>5
<1>7. b * d = 0
  BY <1>6
<1>. QED
  BY <1>1, <1>4, <1>7

(* One more full buffer leaves a whole number of buffers. *)
LEMMA FullBuffer ==
  ASSUME NEW b \in Nat \ {0}, NEW m \in Nat, m % b = 0
  PROVE  (m + b) % b = 0
<1>. DEFINE q == m \div b
<1>1. q \in Int /\ m = b * q
  BY Division
<1>. HIDE DEF q
<1>2. m + b = b * (q + 1) + 0
  BY <1>1
<1>. QED
  BY <1>1, <1>2, Remainder

(* A short read does not. *)
LEMMA ShortRead ==
  ASSUME NEW b \in Nat \ {0}, NEW m \in Nat, m % b = 0, NEW n \in 1 .. b - 1
  PROVE  (m + n) % b # 0
<1>. DEFINE q == m \div b
<1>1. q \in Int /\ m = b * q
  BY Division
<1>. HIDE DEF q
<1>2. m + n \in Nat /\ m + n = b * q + n /\ n \in 0 .. b - 1
  BY <1>1
<1>3. (m + n) % b = n
  BY <1>1, <1>2, Remainder
<1>. QED
  BY <1>3

-----------------------------------------------------------------------------
(* What a read brings: at least a byte, at most a buffer, and no more than *)
(* has arrived.                                                            *)
LEMMA ReadSize ==
  ASSUME TypeOK, NEW k \in Connections, arrived[k] > 0
  PROVE  /\ BytesTransferred(k) \in 1 .. BufSize /\ BytesTransferred(k) <= arrived[k]
         /\ m_recv[k] \in Nat /\ arrived[k] \in Nat
BY SizeAssumption DEF TypeOK, BytesTransferred

(* The state the server starts in. *)
LEMMA InitIInv == Init => IInv
<1>. SUFFICES ASSUME Init PROVE IInv
  OBVIOUS
<1>. USE SizeAssumption DEF Init, Connections
<1>1. TypeOK
  BY DEF TypeOK, States
<1>2. AcceptorArmed /\ CreatedInOrder /\ BytesConserved /\ OneInProduce
  BY DEF AcceptorArmed, CreatedInOrder, BytesConserved, OneInProduce
<1>3. Produced = {}
  BY DEF Produced
<1>4. 0 % BufSize = 0
  BY Remainder
<1>5. FullBuffersOnly /\ HandedOver /\ AckedIsProduced
  BY <1>3, <1>4 DEF FullBuffersOnly, HandedOver, AckedIsProduced
<1>6. SilenceMeansReset
  BY <1>3 DEF SilenceMeansReset
<1>. QED
  BY <1>1, <1>2, <1>5, <1>6 DEF IInv

-----------------------------------------------------------------------------
(* What HandleRead does to the counts of bytes. *)
LEMMA ReadEffect ==
  ASSUME TypeOK, NEW k \in Connections, HandleRead(k)
  PROVE  /\ m_recv' \in [Connections -> Nat] /\ arrived' \in [Connections -> Nat]
         /\ m_recv'[k] = m_recv[k] + BytesTransferred(k)
         /\ arrived'[k] = arrived[k] - BytesTransferred(k)
         /\ \A j \in Connections \ {k} : m_recv'[j] = m_recv[j] /\ arrived'[j] = arrived[j]
<1>. DEFINE n == BytesTransferred(k)
<1>1. /\ arrived' = [arrived EXCEPT ![k] = arrived[k] - n]
      /\ m_recv' = [m_recv EXCEPT ![k] = m_recv[k] + n]
  BY DEF HandleRead
<1>2. n \in Nat /\ arrived[k] - n \in Nat /\ m_recv[k] + n \in Nat
  <2>1. n \in 1 .. BufSize /\ n <= arrived[k] /\ m_recv[k] \in Nat /\ arrived[k] \in Nat
    BY ReadSize DEF HandleRead
  <2>. HIDE DEF n
  <2>. QED
    BY <2>1, SizeAssumption
<1>. HIDE DEF n
<1>3. m_recv \in [Connections -> Nat] /\ arrived \in [Connections -> Nat]
  BY DEF TypeOK
<1>4. /\ m_recv' \in [Connections -> Nat] /\ arrived' \in [Connections -> Nat]
      /\ m_recv'[k] = m_recv[k] + n /\ arrived'[k] = arrived[k] - n
      /\ \A j \in Connections \ {k} : m_recv'[j] = m_recv[j] /\ arrived'[j] = arrived[j]
  BY <1>1, <1>2, <1>3
<1>. QED
  BY <1>4 DEF n

(* Every step keeps the types. *)
LEMMA TypeOKStep ==
  ASSUME TypeOK, [Next]_vars
  PROVE  TypeOK'
<1>1. ASSUME NEW k \in Connections, ReadMore(k) PROVE TypeOK'
  <2>1. m_recv' \in [Connections -> Nat] /\ arrived' \in [Connections -> Nat]
    BY <1>1, ReadEffect DEF ReadMore
  <2>. QED
    BY <1>1, <2>1 DEF ReadMore, HandleRead, TypeOK
<1>2. ASSUME NEW k \in Connections, ReadEnd(k) PROVE TypeOK'
  <2>1. m_recv' \in [Connections -> Nat] /\ arrived' \in [Connections -> Nat]
    BY <1>2, ReadEffect DEF ReadEnd
  <2>2. [conn |-> k, bytes |-> m_recv'[k]] \in [conn : Connections, bytes : Nat]
    BY <2>1
  <2>3. produced' \in Seq([conn : Connections, bytes : Nat])
    BY <1>2, <2>2 DEF ReadEnd, TypeOK
  <2>4. conn' \in [Connections -> States]
    BY <1>2 DEF ReadEnd, TypeOK, States
  <2>. QED
    BY <1>2, <2>1, <2>3, <2>4 DEF ReadEnd, HandleRead, TypeOK
<1>3. ASSUME NEW k \in Connections, ReadError(k) PROVE TypeOK'
  BY <1>3 DEF ReadError, network, TypeOK, States
<1>4. ASSUME NEW k \in Connections, ProduceReturned(k) PROVE TypeOK'
  BY <1>4 DEF ProduceReturned, network, TypeOK, States
<1>5. ASSUME NEW k \in Connections, HandleWrite(k) PROVE TypeOK'
  <2>1. conn' \in [Connections -> States]
    BY <1>5 DEF HandleWrite, TypeOK, States
  <2>2. acked' \subseteq Connections
    BY <1>5 DEF HandleWrite, TypeOK
  <2>3. log' \subseteq Connections \X Connections
    BY <1>5 DEF HandleWrite, TypeOK
  <2>. QED
    BY <1>5, <2>1, <2>2, <2>3 DEF HandleWrite, network, TypeOK
<1>6. ASSUME NEW next \in {"reading", "closed"}, HandleAccept(next),
             length' \in [Connections -> Lengths \cup {0}], pending' \in [Connections -> Nat]
      PROVE  TypeOK'
  <2>1. m_counter' \in Connections
    BY <1>6, SizeAssumption DEF HandleAccept, Connections, TypeOK
  <2>2. conn' \in [Connections -> States]
    BY <1>6 DEF HandleAccept, TypeOK, States
  <2>. QED
    BY <1>6, <2>1, <2>2 DEF HandleAccept, TypeOK
<1>7. CASE Accepted
  <2>1. PICK n \in Lengths : /\ length' = [length EXCEPT ![m_counter] = n]
                             /\ pending' = [pending EXCEPT ![m_counter] = n]
    BY <1>7 DEF Accepted
  <2>2. n \in Nat
    BY SizeAssumption
  <2>3. length' \in [Connections -> Lengths \cup {0}] /\ pending' \in [Connections -> Nat]
    BY <2>1, <2>2 DEF TypeOK
  <2>. QED
    BY <1>6, <1>7, <2>3 DEF Accepted
<1>8. CASE AcceptFailed
  BY <1>6, <1>8 DEF AcceptFailed, TypeOK
<1>9. ASSUME NEW k \in Connections, Deliver(k) PROVE TypeOK'
  <2>1. pending[k] \in Nat /\ arrived[k] \in Nat
    BY DEF TypeOK
  <2>2. PICK n \in 1 .. pending[k] : /\ pending' = [pending EXCEPT ![k] = pending[k] - n]
                                     /\ arrived' = [arrived EXCEPT ![k] = arrived[k] + n]
    BY <1>9 DEF Deliver
  <2>3. pending[k] - n \in Nat /\ arrived[k] + n \in Nat
    BY <2>1
  <2>4. pending' \in [Connections -> Nat] /\ arrived' \in [Connections -> Nat]
    BY <2>2, <2>3 DEF TypeOK
  <2>. QED
    BY <1>9, <2>4 DEF Deliver, server, TypeOK
<1>10. ASSUME NEW k \in Connections, Shutdown(k) \/ Reset(k) PROVE TypeOK'
  <2>1. peer' \in [Connections -> {"open", "shut", "reset"}]
    BY <1>10 DEF Shutdown, Reset, TypeOK
  <2>. QED
    BY <1>10, <2>1 DEF Shutdown, Reset, server, TypeOK
<1>11. CASE UNCHANGED vars
  BY <1>11 DEF vars, server, network, TypeOK
<1>. QED
  BY <1>1, <1>2, <1>3, <1>4, <1>5, <1>7, <1>8, <1>9, <1>10, <1>11 DEF Next, IoStep, Environment

(* The connections of the handlers other than HandleAccept have been       *)
(* accepted, and stay so.                                                  *)
LEMMA AcceptorStep ==
  ASSUME TypeOK, AcceptorArmed, CreatedInOrder, OneInProduce, [Next]_vars
  PROVE  AcceptorArmed' /\ CreatedInOrder' /\ OneInProduce'
<1>. DEFINE Inv == AcceptorArmed /\ CreatedInOrder /\ OneInProduce
<1>1. ASSUME NEW k \in Connections, NEW s \in {"producing", "writing", "closed"},
             conn[k] \in {"reading", "producing", "writing"},
             conn' = [conn EXCEPT ![k] = s],
             \/ io = 0 /\ s = "producing" /\ io' = k
             \/ conn[k] # "producing" /\ s # "producing" /\ io' = io
             \/ conn[k] = "producing" /\ s # "producing" /\ io' = 0,
             UNCHANGED <<m_counter, length>>
      PROVE  Inv'
  <2>1. /\ conn \in [Connections -> States] /\ conn'[k] = s
        /\ \A j \in Connections \ {k} : conn'[j] = conn[j]
        /\ k # 0
    BY <1>1 DEF TypeOK, Connections
  <2>2. AcceptorArmed'
    BY <1>1, <2>1 DEF AcceptorArmed
  <2>3. CreatedInOrder'
    BY <1>1, <2>1 DEF CreatedInOrder
  <2>4. ASSUME NEW j \in Connections PROVE (conn[j] = "producing" <=> io = j)' /\ j # 0
    BY <1>1, <2>1 DEF OneInProduce, Connections
  <2>5. OneInProduce'
    BY <2>4 DEF OneInProduce
  <2>. QED
    BY <2>2, <2>3, <2>5
<1>2. ASSUME UNCHANGED <<m_counter, conn, io, length>> PROVE Inv'
  BY <1>2 DEF AcceptorArmed, CreatedInOrder, OneInProduce
<1>3. ASSUME NEW k \in Connections, ReadMore(k) PROVE Inv'
  BY <1>2, <1>3 DEF ReadMore, HandleRead
<1>4. ASSUME NEW k \in Connections, ReadEnd(k) PROVE Inv'
  BY <1>1, <1>4 DEF ReadEnd, HandleRead
<1>5. ASSUME NEW k \in Connections, ReadError(k) PROVE Inv'
  BY <1>1, <1>5 DEF ReadError, network
<1>6. ASSUME NEW k \in Connections, ProduceReturned(k) PROVE Inv'
  <2>1. conn[k] = "producing"
    BY <1>6 DEF ProduceReturned, OneInProduce
  <2>. QED
    BY <1>1, <1>6, <2>1 DEF ProduceReturned, network
<1>7. ASSUME NEW k \in Connections, HandleWrite(k) PROVE Inv'
  BY <1>1, <1>7 DEF HandleWrite, network
<1>8. ASSUME NEW next \in {"reading", "closed"}, HandleAccept(next),
             \A j \in Connections : j # m_counter => length'[j] = length[j]
      PROVE  Inv'
  <2>1. /\ m_counter \in Nat /\ m_counter' = m_counter + 1
        /\ m_counter \in Connections /\ m_counter + 1 \in Connections
        /\ \A j \in Connections : j \in Nat /\ (j > m_counter' <=> j > m_counter /\ j # m_counter + 1)
    BY <1>8, SizeAssumption DEF HandleAccept, Connections, TypeOK
  <2>2. /\ conn'[m_counter] = next /\ conn'[m_counter + 1] = "accepting"
        /\ \A j \in Connections : j # m_counter /\ j # m_counter + 1 => conn'[j] = conn[j]
        /\ io' = io
    BY <1>8, <2>1 DEF HandleAccept, TypeOK
  <2>3. conn[m_counter] = "accepting" /\ conn[m_counter + 1] = "none"
    BY <2>1 DEF AcceptorArmed, CreatedInOrder
  <2>4. AcceptorArmed'
    BY <1>8, <2>1, <2>2 DEF AcceptorArmed
  <2>5. CreatedInOrder'
    BY <1>8, <2>1, <2>2, <2>3 DEF CreatedInOrder
  <2>6. OneInProduce'
    BY <1>8, <2>1, <2>2, <2>3 DEF OneInProduce
  <2>. QED
    BY <2>4, <2>5, <2>6
<1>9. CASE Accepted
  <2>1. PICK n \in Lengths : length' = [length EXCEPT ![m_counter] = n]
    BY <1>9 DEF Accepted
  <2>2. \A j \in Connections : j # m_counter => length'[j] = length[j]
    BY <2>1 DEF TypeOK
  <2>. QED
    BY <1>8, <1>9, <2>2 DEF Accepted
<1>10. CASE AcceptFailed
  BY <1>8, <1>10 DEF AcceptFailed
<1>11. CASE Environment
  BY <1>2, <1>11 DEF Environment, Deliver, Shutdown, Reset, server
<1>12. CASE UNCHANGED vars
  BY <1>2, <1>12 DEF vars, server, network
<1>. QED
  BY <1>3, <1>4, <1>5, <1>6, <1>7, <1>9, <1>10, <1>11, <1>12 DEF Next, IoStep

(* Every step moves bytes from the peer to the wire and from the wire to   *)
(* m_recv, and neither makes nor loses one.                                *)
LEMMA BytesStep ==
  ASSUME TypeOK, AcceptorArmed, CreatedInOrder, BytesConserved, [Next]_vars
  PROVE  BytesConserved'
<1>1. ASSUME NEW k \in Connections, HandleRead(k) PROVE BytesConserved'
  <2>. DEFINE n == BytesTransferred(k)
  <2>1. /\ m_recv'[k] = m_recv[k] + n /\ arrived'[k] = arrived[k] - n
        /\ \A j \in Connections \ {k} : m_recv'[j] = m_recv[j] /\ arrived'[j] = arrived[j]
    BY <1>1, ReadEffect
  <2>2. n \in 1 .. BufSize /\ m_recv[k] \in Nat /\ arrived[k] \in Nat
    BY <1>1, ReadSize DEF HandleRead
  <2>. HIDE DEF n
  <2>3. n \in Nat /\ pending[k] \in Nat
    BY <2>2, SizeAssumption DEF TypeOK
  <2>4. m_recv'[k] + arrived'[k] + pending[k] = m_recv[k] + arrived[k] + pending[k]
    BY <2>1, <2>2, <2>3
  <2>5. UNCHANGED <<length, pending>>
    BY <1>1 DEF HandleRead
  <2>. QED
    BY <2>1, <2>4, <2>5 DEF BytesConserved
<1>2. ASSUME UNCHANGED <<m_recv, arrived, pending, length>> PROVE BytesConserved'
  BY <1>2 DEF BytesConserved
<1>3. ASSUME NEW k \in Connections, ReadError(k) \/ ProduceReturned(k) \/ HandleWrite(k)
      PROVE  BytesConserved'
  BY <1>2, <1>3 DEF ReadError, ProduceReturned, HandleWrite, network
<1>4. CASE Accepted
  <2>1. m_counter \in Connections /\ conn[m_counter] = "accepting"
    BY DEF AcceptorArmed, TypeOK
  <2>2. m_recv[m_counter] + arrived[m_counter] + pending[m_counter] = 0
    BY <2>1 DEF BytesConserved, CreatedInOrder
  <2>3. m_recv[m_counter] = 0 /\ arrived[m_counter] = 0
    BY <2>1, <2>2 DEF TypeOK
  <2>4. PICK n \in Lengths : /\ length' = [length EXCEPT ![m_counter] = n]
                             /\ pending' = [pending EXCEPT ![m_counter] = n]
    BY <1>4 DEF Accepted
  <2>5. n \in Nat /\ UNCHANGED <<m_recv, arrived>>
    BY <1>4, SizeAssumption DEF Accepted, HandleAccept
  <2>6. /\ length'[m_counter] = n /\ pending'[m_counter] = n
        /\ \A j \in Connections \ {m_counter} : length'[j] = length[j] /\ pending'[j] = pending[j]
    BY <2>1, <2>4 DEF TypeOK
  <2>. QED
    BY <2>3, <2>5, <2>6 DEF BytesConserved
<1>5. CASE AcceptFailed
  BY <1>2, <1>5 DEF AcceptFailed, HandleAccept
<1>6. ASSUME NEW k \in Connections, Deliver(k) PROVE BytesConserved'
  <2>1. pending[k] \in Nat /\ arrived[k] \in Nat /\ m_recv[k] \in Nat
    BY DEF TypeOK
  <2>2. PICK n \in 1 .. pending[k] : /\ pending' = [pending EXCEPT ![k] = pending[k] - n]
                                     /\ arrived' = [arrived EXCEPT ![k] = arrived[k] + n]
    BY <1>6 DEF Deliver
  <2>3. /\ pending'[k] = pending[k] - n /\ arrived'[k] = arrived[k] + n
        /\ \A j \in Connections \ {k} : pending'[j] = pending[j] /\ arrived'[j] = arrived[j]
    BY <2>2 DEF TypeOK
  <2>4. m_recv[k] + arrived'[k] + pending'[k] = m_recv[k] + arrived[k] + pending[k]
    BY <2>1, <2>3
  <2>5. UNCHANGED <<m_recv, length>>
    BY <1>6 DEF Deliver, server
  <2>. QED
    BY <2>3, <2>4, <2>5 DEF BytesConserved
<1>7. ASSUME NEW k \in Connections, Shutdown(k) \/ Reset(k) PROVE BytesConserved'
  BY <1>2, <1>7 DEF Shutdown, Reset, server
<1>8. CASE UNCHANGED vars
  BY <1>2, <1>8 DEF vars, server, network
<1>. QED
  BY <1>1, <1>3, <1>4, <1>5, <1>6, <1>7, <1>8 DEF Next, IoStep, Environment, ReadMore, ReadEnd

(* A handover is of a connection, and Produced is their set. *)
LEMMA Handover ==
  ASSUME TypeOK
  PROVE  /\ \A i \in DOMAIN produced : produced[i].conn \in Produced
         /\ \A k \in Produced : k \in Connections /\ \E i \in DOMAIN produced : produced[i].conn = k
<1>. DEFINE R == [conn : Connections, bytes : Nat]
<1>1. produced \in Seq(R)
  BY DEF TypeOK
<1>2. \A e \in R : e.conn \in Connections
  OBVIOUS
<1>. HIDE DEF R
<1>3. \A i \in DOMAIN produced : produced[i] \in R
  BY <1>1
<1>. QED
  BY <1>2, <1>3, Zenon DEF Produced

(* What ReadEnd does to the handovers. *)
LEMMA ReadEndEffect ==
  ASSUME TypeOK, NEW k \in Connections, ReadEnd(k)
  PROVE  /\ DOMAIN produced' = DOMAIN produced \cup {Len(produced) + 1}
         /\ Len(produced) + 1 \notin DOMAIN produced
         /\ \A i \in DOMAIN produced : produced'[i] = produced[i]
         /\ produced'[Len(produced) + 1] = [conn |-> k, bytes |-> m_recv'[k]]
         /\ Produced' = Produced \cup {k}
<1>. DEFINE e == [conn |-> k, bytes |-> m_recv'[k]]
            R == [conn : Connections, bytes : Nat]
<1>1. m_recv' \in [Connections -> Nat]
  BY ReadEffect DEF ReadEnd
<1>2. e \in R /\ e.conn = k
  BY <1>1
<1>3. produced \in Seq(R) /\ produced' = Append(produced, e)
  BY DEF TypeOK, ReadEnd
<1>. HIDE DEF e, R
<1>4. /\ DOMAIN produced' = DOMAIN produced \cup {Len(produced) + 1}
      /\ Len(produced) + 1 \notin DOMAIN produced
      /\ \A i \in DOMAIN produced : produced'[i] = produced[i]
      /\ produced'[Len(produced) + 1] = e
  <2>1. /\ Len(produced) \in Nat /\ DOMAIN produced = 1 .. Len(produced)
        /\ Len(produced') = Len(produced) + 1 /\ DOMAIN produced' = 1 .. Len(produced')
        /\ \A i \in 1 .. Len(produced) : produced'[i] = produced[i]
        /\ produced'[Len(produced) + 1] = e
    BY <1>2, <1>3
  <2>. QED
    BY <2>1
<1>5. Produced' = Produced \cup {k}
  <2>. DEFINE last == Len(produced) + 1
  <2>1. produced'[last].conn = k
    BY <1>2, <1>4
  <2>. HIDE DEF last
  <2>2. ASSUME NEW x \in Produced PROVE x \in Produced'
    <3>1. PICK i \in DOMAIN produced : x = produced[i].conn
      BY Zenon DEF Produced
    <3>. QED
      BY <1>4, <3>1 DEF Produced, last
  <2>3. k \in Produced'
    BY <1>4, <2>1, Zenon DEF Produced, last
  <2>4. ASSUME NEW x \in Produced' PROVE x \in Produced \cup {k}
    <3>1. PICK i \in DOMAIN produced' : x = produced'[i].conn
      BY Zenon DEF Produced
    <3>2. CASE i = last
      BY <2>1, <3>1, <3>2
    <3>3. CASE i \in DOMAIN produced
      BY <1>4, <3>1, <3>3 DEF Produced
    <3>. QED
      BY <1>4, <3>2, <3>3 DEF last
  <2>. QED
    BY <2>2, <2>3, <2>4
<1>. QED
  BY <1>4, <1>5 DEF e

(* Every step keeps to the rule that a report ends with the first read     *)
(* that does not fill the buffer, and is handed over and acknowledged then.*)
LEMMA ReportStep ==
  ASSUME IInv, [Next]_vars
  PROVE  FullBuffersOnly' /\ HandedOver' /\ AckedIsProduced'
<1>. DEFINE Before == {"none", "accepting", "reading"}
            After == {"producing", "writing", "closed"}
            Inv == FullBuffersOnly /\ HandedOver /\ AckedIsProduced
<1>. USE DEF IInv
<1>1. ASSUME UNCHANGED <<m_recv, produced>>,
             \A j \in Connections : /\ conn'[j] \in Before => conn[j] \in Before
                                    /\ conn[j] \in After => conn'[j] \in After
                                    /\ conn'[j] \in {"producing", "writing"} \/ j \in acked'
                                         => conn[j] \in {"producing", "writing"} \/ j \in acked
                                    /\ j \in acked' => conn'[j] = "closed"
      PROVE  Inv'
  <2>1. Produced' = Produced
    BY <1>1 DEF Produced
  <2>2. FullBuffersOnly'
    BY <1>1, <2>1 DEF FullBuffersOnly
  <2>3. \A i \in DOMAIN produced : produced[i].conn \in Connections
    BY Handover
  <2>4. HandedOver'
    BY <1>1, <2>3 DEF HandedOver
  <2>5. AckedIsProduced'
    BY <1>1, <2>1 DEF AckedIsProduced
  <2>. QED
    BY <2>2, <2>4, <2>5
<1>2. ASSUME NEW k \in Connections, ReadMore(k) PROVE Inv'
  <2>1. /\ m_recv'[k] = m_recv[k] + BufSize
        /\ \A j \in Connections \ {k} : m_recv'[j] = m_recv[j]
    BY <1>2, ReadEffect DEF ReadMore
  <2>2. conn[k] = "reading" /\ UNCHANGED <<conn, produced, acked>>
    BY <1>2 DEF ReadMore, HandleRead
  <2>3. m_recv[k] \in Nat /\ m_recv[k] % BufSize = 0 /\ k \notin Produced
    BY <2>2 DEF TypeOK, FullBuffersOnly
  <2>4. m_recv'[k] % BufSize = 0
    BY <2>1, <2>3, FullBuffer, SizeAssumption
  <2>5. Produced' = Produced
    BY <2>2 DEF Produced
  <2>6. FullBuffersOnly'
    BY <2>1, <2>2, <2>3, <2>4, <2>5 DEF FullBuffersOnly
  <2>7. \A i \in DOMAIN produced : produced[i].conn \in Connections \ {k}
    BY <2>3, Handover
  <2>8. HandedOver'
    BY <2>1, <2>2, <2>7 DEF HandedOver
  <2>9. AckedIsProduced'
    BY <2>2, <2>5 DEF AckedIsProduced
  <2>. QED
    BY <2>6, <2>8, <2>9
<1>3. ASSUME NEW k \in Connections, ReadEnd(k) PROVE Inv'
  <2>. DEFINE n == BytesTransferred(k)
              last == Len(produced) + 1
  <2>1. /\ m_recv'[k] = m_recv[k] + n
        /\ \A j \in Connections \ {k} : m_recv'[j] = m_recv[j]
    BY <1>3, ReadEffect DEF ReadEnd
  <2>2. n \in 1 .. BufSize /\ n # BufSize
    BY <1>3, ReadSize DEF ReadEnd, HandleRead
  <2>. HIDE DEF n
  <2>3. /\ conn[k] = "reading" /\ conn'[k] = "producing" /\ acked' = acked
        /\ \A j \in Connections \ {k} : conn'[j] = conn[j]
    BY <1>3 DEF ReadEnd, HandleRead, TypeOK
  <2>4. m_recv[k] \in Nat /\ m_recv[k] % BufSize = 0 /\ k \notin Produced
    BY <2>3 DEF TypeOK, FullBuffersOnly
  <2>5. n \in 1 .. BufSize - 1
    BY <2>2, SizeAssumption
  <2>6. m_recv'[k] % BufSize # 0
    BY <2>1, <2>4, <2>5, ShortRead, SizeAssumption
  <2>7. /\ DOMAIN produced' = DOMAIN produced \cup {last} /\ last \notin DOMAIN produced
        /\ \A i \in DOMAIN produced : produced'[i] = produced[i]
        /\ produced'[last] = [conn |-> k, bytes |-> m_recv'[k]]
        /\ Produced' = Produced \cup {k}
    BY <1>3, ReadEndEffect
  <2>. HIDE DEF last
  <2>8. FullBuffersOnly'
    BY <2>1, <2>3, <2>7 DEF FullBuffersOnly
  <2>9. \A i \in DOMAIN produced : produced[i].conn \in Connections \ {k}
    BY <2>4, Handover
  <2>10. produced'[last].conn = k /\ produced'[last].bytes = m_recv'[k]
    BY <2>7
  <2>11. \A i, j \in DOMAIN produced' : produced'[i].conn = produced'[j].conn => i = j
    BY <2>7, <2>9, <2>10 DEF HandedOver
  <2>12. ASSUME NEW i \in DOMAIN produced'
         PROVE  /\ conn'[produced'[i].conn] \in After
                /\ produced'[i].bytes = m_recv'[produced'[i].conn]
                /\ m_recv'[produced'[i].conn] % BufSize # 0
    <3>1. CASE i = last
      BY <2>3, <2>6, <2>10, <3>1
    <3>2. CASE i \in DOMAIN produced
      BY <2>1, <2>3, <2>7, <2>9, <3>2 DEF HandedOver
    <3>. QED
      BY <2>7, <3>1, <3>2
  <2>13. HandedOver'
    BY <2>11, <2>12 DEF HandedOver
  <2>14. AckedIsProduced'
    BY <2>3, <2>7 DEF AckedIsProduced
  <2>. QED
    BY <2>8, <2>13, <2>14
<1>4. ASSUME NEW k \in Connections, ReadError(k) PROVE Inv'
  BY <1>1, <1>4 DEF ReadError, TypeOK, AckedIsProduced
<1>5. ASSUME NEW k \in Connections, ProduceReturned(k) PROVE Inv'
  <2>1. conn[k] = "producing"
    BY <1>5 DEF ProduceReturned, OneInProduce
  <2>. QED
    BY <1>1, <1>5, <2>1 DEF ProduceReturned, TypeOK, AckedIsProduced
<1>6. ASSUME NEW k \in Connections, HandleWrite(k) PROVE Inv'
  <2>1. /\ conn[k] = "writing" /\ conn' = [conn EXCEPT ![k] = "closed"]
        /\ acked' \subseteq acked \cup {k} /\ UNCHANGED <<m_recv, produced>>
    BY <1>6 DEF HandleWrite
  <2>. QED
    BY <1>1, <2>1 DEF TypeOK, AckedIsProduced
<1>7. ASSUME NEW next \in {"reading", "closed"}, HandleAccept(next) PROVE Inv'
  <2>1. conn[m_counter] = "accepting" /\ m_counter \in Connections
    BY DEF AcceptorArmed, TypeOK
  <2>2. m_counter + 1 \in Connections /\ conn[m_counter + 1] = "none" /\ m_counter + 1 # m_counter
    BY <1>7, SizeAssumption DEF HandleAccept, Connections, TypeOK, CreatedInOrder
  <2>3. /\ conn'[m_counter] = next /\ conn'[m_counter + 1] = "accepting"
        /\ \A j \in Connections : j # m_counter /\ j # m_counter + 1 => conn'[j] = conn[j]
        /\ UNCHANGED <<m_recv, produced, acked>>
    BY <1>7, <2>1, <2>2 DEF HandleAccept, TypeOK
  <2>. QED
    BY <1>1, <1>7, <2>1, <2>2, <2>3 DEF AckedIsProduced
<1>8. CASE Accepted \/ AcceptFailed
  BY <1>7, <1>8 DEF Accepted, AcceptFailed
<1>9. CASE Environment
  BY <1>1, <1>9 DEF Environment, Deliver, Shutdown, Reset, server, AckedIsProduced
<1>10. CASE UNCHANGED vars
  BY <1>1, <1>10 DEF vars, server, AckedIsProduced
<1>. QED
  BY <1>2, <1>3, <1>4, <1>5, <1>6, <1>8, <1>9, <1>10 DEF Next, IoStep

(* What a step may do to a connection: a report that was handed over stays *)
(* as it is, the read that ends a report takes all that has arrived, and a *)
(* connection that was closed has handed over what it ever will.           *)
LEMMA ConnectionStep ==
  ASSUME IInv, [Next]_vars, NEW k \in Connections
  PROVE  /\ k \in Produced => k \in Produced' /\ m_recv'[k] = m_recv[k]
         /\ k \in Produced' /\ k \notin Produced =>
              conn[k] = "reading" /\ conn'[k] = "producing" /\ arrived'[k] = 0
         /\ conn[k] = "closed" => conn'[k] = "closed"
         /\ k \in Produced /\ conn'[k] = "closed" /\ conn[k] # "closed"
              => k \in acked' \/ peer[k] = "reset"
         /\ acked \subseteq acked' /\ (peer[k] = "reset" => peer'[k] = "reset")
<1>. DEFINE P == /\ k \in Produced => k \in Produced' /\ m_recv'[k] = m_recv[k]
                 /\ k \in Produced' /\ k \notin Produced =>
                      conn[k] = "reading" /\ conn'[k] = "producing" /\ arrived'[k] = 0
                 /\ conn[k] = "closed" => conn'[k] = "closed"
                 /\ k \in Produced /\ conn'[k] = "closed" /\ conn[k] # "closed"
                      => k \in acked' \/ peer[k] = "reset"
                 /\ acked \subseteq acked' /\ (peer[k] = "reset" => peer'[k] = "reset")
<1>. USE DEF IInv
<1>1. ASSUME UNCHANGED produced PROVE Produced' = Produced
  BY <1>1 DEF Produced
<1>2. k \in Produced => conn[k] \in {"producing", "writing", "closed"}
  BY DEF FullBuffersOnly, TypeOK, States
<1>3. ASSUME NEW j \in Connections, ReadMore(j) PROVE P
  <2>1. /\ conn[j] = "reading" /\ UNCHANGED <<conn, produced, acked, peer>>
        /\ \A i \in Connections \ {j} : m_recv'[i] = m_recv[i]
    BY <1>3, ReadEffect DEF ReadMore, HandleRead
  <2>. QED
    BY <1>1, <1>2, <2>1
<1>4. ASSUME NEW j \in Connections, ReadEnd(j) PROVE P
  <2>1. /\ conn[j] = "reading" /\ UNCHANGED <<acked, peer>>
        /\ conn' = [conn EXCEPT ![j] = "producing"] /\ conn \in [Connections -> States]
        /\ BytesTransferred(j) # BufSize
    BY <1>4 DEF ReadEnd, HandleRead, TypeOK
  <2>2. /\ \A i \in Connections \ {j} : m_recv'[i] = m_recv[i]
        /\ arrived'[j] = arrived[j] - BytesTransferred(j)
        /\ Produced' = Produced \cup {j}
    BY <1>4, ReadEffect, ReadEndEffect DEF ReadEnd
  <2>3. BytesTransferred(j) = arrived[j] /\ arrived[j] \in Nat
    BY <2>1 DEF BytesTransferred, TypeOK
  <2>4. arrived'[j] = 0
    BY <2>2, <2>3
  <2>. QED
    BY <1>2, <2>1, <2>2, <2>4
<1>5. ASSUME NEW j \in Connections, ReadError(j) PROVE P
  <2>1. /\ conn[j] = "reading" /\ UNCHANGED <<m_recv, produced, acked, peer>>
        /\ conn' = [conn EXCEPT ![j] = "closed"] /\ conn \in [Connections -> States]
    BY <1>5 DEF ReadError, network, TypeOK
  <2>. QED
    BY <1>1, <1>2, <2>1
<1>6. ASSUME NEW j \in Connections, ProduceReturned(j) PROVE P
  <2>1. /\ conn[j] = "producing" /\ UNCHANGED <<m_recv, produced, acked, peer>>
        /\ conn' = [conn EXCEPT ![j] = "writing"] /\ conn \in [Connections -> States]
    BY <1>6 DEF ProduceReturned, network, TypeOK, OneInProduce
  <2>. QED
    BY <1>1, <2>1
<1>7. ASSUME NEW j \in Connections, HandleWrite(j) PROVE P
  <2>1. /\ conn[j] = "writing" /\ UNCHANGED <<m_recv, produced, peer>>
        /\ conn' = [conn EXCEPT ![j] = "closed"] /\ conn \in [Connections -> States]
        /\ acked' = acked \cup {j} \/ (peer[j] = "reset" /\ acked' = acked)
    BY <1>7 DEF HandleWrite, network, TypeOK
  <2>. QED
    BY <1>1, <2>1
<1>8. ASSUME NEW next \in {"reading", "closed"}, HandleAccept(next) PROVE P
  <2>1. /\ m_counter \in Connections /\ m_counter + 1 \in Connections
        /\ conn[m_counter] = "accepting" /\ conn[m_counter + 1] = "none"
    BY <1>8, SizeAssumption
      DEF HandleAccept, Connections, TypeOK, AcceptorArmed, CreatedInOrder
  <2>2. /\ UNCHANGED <<m_recv, produced, acked, peer>>
        /\ conn' = [conn EXCEPT ![m_counter] = next, ![m_counter + 1] = "accepting"]
        /\ conn \in [Connections -> States]
    BY <1>8 DEF HandleAccept, TypeOK
  <2>. QED
    BY <1>1, <1>2, <2>1, <2>2
<1>9. CASE Environment
  <2>1. /\ UNCHANGED <<conn, m_recv, produced, acked>>
        /\ peer[k] = "reset" => peer'[k] = "reset"
    BY <1>9 DEF Environment, Deliver, Shutdown, Reset, server, TypeOK
  <2>. QED
    BY <1>1, <2>1
<1>10. CASE UNCHANGED vars
  BY <1>1, <1>10 DEF vars, server, network
<1>11. P
  BY <1>3, <1>4, <1>5, <1>6, <1>7, <1>8, <1>9, <1>10 DEF Next, IoStep, Accepted, AcceptFailed
<1>. QED
  BY <1>11

(* So no report goes unacknowledged but by a reset. *)
LEMMA SilenceStep ==
  ASSUME IInv, [Next]_vars
  PROVE  SilenceMeansReset'
<1>. SUFFICES ASSUME NEW k \in Produced', conn'[k] = "closed", k \notin acked'
              PROVE  peer'[k] = "reset"
  BY DEF SilenceMeansReset
<1>. DEFINE R == [conn : Connections, bytes : Nat]
<1>1. k \in Connections
  <2>1. produced' \in Seq(R)
    BY TypeOKStep DEF IInv, TypeOK
  <2>2. \A e \in R : e.conn \in Connections
    OBVIOUS
  <2>3. PICK i \in DOMAIN produced' : k = produced'[i].conn
    BY Zenon DEF Produced
  <2>. HIDE DEF R
  <2>4. produced'[i] \in R
    BY <2>1
  <2>. QED
    BY <2>2, <2>3, <2>4
<1>2. k \in Produced
  BY <1>1, ConnectionStep
<1>. QED
  BY <1>1, <1>2, ConnectionStep DEF IInv, SilenceMeansReset

(* Every step keeps the inductive invariant. *)
LEMMA InvarianceStep == IInv /\ [Next]_vars => IInv'
BY TypeOKStep, AcceptorStep, BytesStep, ReportStep, SilenceStep DEF IInv

-----------------------------------------------------------------------------
(* The inductive invariant holds in every reachable state. *)
THEOREM Invariance == Spec => []IInv
BY InitIInv, InvarianceStep, PTL DEF Spec

(* A report that is in the queue goes unacknowledged only when its         *)
(* connection was reset: HandleRead writes m_message after every Produce,  *)
(* and nothing else closes the connection in between.                      *)
THEOREM SilentOnlyWhenReset == Spec => []SilenceMeansReset
BY Invariance, PTL DEF IInv

(* Each variable of the server and of the network keeps to its values. *)
THEOREM TypeCorrectness == Spec => []TypeOK
BY Invariance, PTL DEF IInv

(* StartAccept after every HandleAccept: exactly one accept is always      *)
(* outstanding, however many connections were accepted or failed.          *)
THEOREM AlwaysListening == Spec => []AcceptorArmed
BY Invariance, PTL DEF IInv

(* HandleRead adds to m_recv every byte that arrived, once. *)
THEOREM NoByteLost == Spec => []BytesConserved
BY Invariance, PTL DEF IInv

(* HandleRead hands over at most one report per connection, never an empty *)
(* one, nothing that was not sent, and never a whole number of buffers.    *)
THEOREM Framing == Spec => []ReportFraming
<1>1. ASSUME IInv PROVE ReportFraming
  <2>1. ASSUME NEW i \in DOMAIN produced
        PROVE  /\ produced[i].bytes \in 1 .. length[produced[i].conn]
               /\ produced[i].bytes % BufSize # 0
    <3>. DEFINE k == produced[i].conn
                b == produced[i].bytes
    <3>1. k \in Connections
      BY <1>1, Handover DEF IInv
    <3>2. b = m_recv[k] /\ b % BufSize # 0
      BY <1>1 DEF IInv, HandedOver
    <3>3. m_recv[k] + arrived[k] + pending[k] = length[k]
      BY <1>1, <3>1 DEF IInv, BytesConserved
    <3>. HIDE DEF k, b
    <3>4. m_recv[k] \in Nat /\ arrived[k] \in Nat /\ pending[k] \in Nat
      BY <1>1, <3>1 DEF IInv, TypeOK
    <3>5. length[k] \in Nat
      <4>1. length[k] \in Lengths \cup {0}
        BY <1>1, <3>1 DEF IInv, TypeOK
      <4>2. ASSUME NEW n \in Lengths \cup {0} PROVE n \in Nat
        BY SizeAssumption
      <4>. QED
        BY <4>1, <4>2
    <3>6. 0 % BufSize = 0
      BY Remainder, SizeAssumption
    <3>7. m_recv[k] # 0
      BY <3>2, <3>6
    <3>8. m_recv[k] \in 1 .. length[k]
      BY <3>3, <3>4, <3>5, <3>7
    <3>. QED
      BY <3>2, <3>8 DEF k, b
  <2>. QED
    BY <1>1, <2>1 DEF IInv, HandedOver, ReportFraming
<1>. QED
  BY Invariance, <1>1, PTL

(* The acknowledgement is written only after Produce has returned, and the *)
(* connection is gone with it.                                             *)
THEOREM NoAckBeforeProduce == Spec => []AckedIsProduced
BY Invariance, PTL DEF IInv

(* After the read that ended its report a connection reads no more, so     *)
(* what is in the queue is what its m_recv still holds.                    *)
THEOREM OneReportPerConnection == Spec => NothingReadAfterProduce
<1>. DEFINE A == \A i \in DOMAIN produced :
                   LET k == produced[i].conn
                   IN  m_recv'[k] = produced[i].bytes /\ conn'[k] # "reading"
<1>1. ASSUME IInv, [Next]_vars PROVE [A]_vars
  <2>1. \A i \in DOMAIN produced : produced[i].conn \in Produced /\ produced[i].conn \in Connections
    BY <1>1, Handover DEF IInv
  <2>2. ASSUME NEW i \in DOMAIN produced, ~ UNCHANGED vars
        PROVE  /\ m_recv'[produced[i].conn] = produced[i].bytes
               /\ conn'[produced[i].conn] # "reading"
    <3>. DEFINE k == produced[i].conn
    <3>1. k \in Connections /\ m_recv[k] = produced[i].bytes
      BY <1>1, <2>1 DEF IInv, HandedOver
    <3>2. conn[k] \in {"producing", "writing", "closed"}
      BY <1>1 DEF IInv, HandedOver
    <3>. HIDE DEF k
    <3>3. ASSUME NEW j \in Connections, HandleRead(j)
          PROVE  j # k /\ m_recv'[k] = m_recv[k]
      BY <1>1, <3>1, <3>2, <3>3, ReadEffect DEF HandleRead, IInv
    <3>4. ASSUME NEW j \in Connections, ReadMore(j) \/ ReadEnd(j)
          PROVE  m_recv'[k] = m_recv[k] /\ conn'[k] # "reading"
      BY <1>1, <3>1, <3>2, <3>3, <3>4 DEF ReadMore, ReadEnd, IInv, TypeOK
    <3>5. ASSUME NEW j \in Connections, ReadError(j) \/ ProduceReturned(j) \/ HandleWrite(j)
          PROVE  m_recv'[k] = m_recv[k] /\ conn'[k] # "reading"
      BY <1>1, <3>1, <3>2, <3>5 DEF ReadError, ProduceReturned, HandleWrite, IInv, TypeOK
    <3>6. ASSUME NEW next, HandleAccept(next)
          PROVE  m_recv'[k] = m_recv[k] /\ conn'[k] # "reading"
      BY <1>1, <3>1, <3>2, <3>6 DEF HandleAccept, IInv, TypeOK, AcceptorArmed
    <3>7. ASSUME Environment
          PROVE  m_recv'[k] = m_recv[k] /\ conn'[k] # "reading"
      BY <3>2, <3>7 DEF Environment, Deliver, Shutdown, Reset, server
    <3>8. m_recv'[k] = m_recv[k] /\ conn'[k] # "reading"
      BY <1>1, <2>2, <3>4, <3>5, <3>6, <3>7 DEF Next, IoStep, Accepted, AcceptFailed
    <3>. QED
      BY <3>1, <3>8 DEF k
  <2>. QED
    BY <2>2
<1>. QED
  BY Invariance, <1>1, PTL DEF Spec, NothingReadAfterProduce
=============================================================================
