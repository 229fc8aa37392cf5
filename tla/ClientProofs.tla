------------------------------ MODULE ClientProofs ------------------------------
(***************************************************************************)
(* What the server queues of a report that Client sent with its single     *)
(* write_some, for any number of threads and any sizes, and however the    *)
(* process ends.                                                           *)
(***************************************************************************)
EXTENDS Client, Integers, FiniteSetTheorems, TLAPS

(* The lemmas about the transport that do not depend on what Client-one    *)
(* adds to it: to that, any values will do here.                           *)
T == INSTANCE ClientOneProofs WITH
  BUFFERSIZE <- 1, EST_TIMEOUT <- 0, ACK_TIMEOUT <- 0,
  txError <- acks, outcome <- acks, waited <- acks

(* Nothing is sent before write_some, which is called once. *)
WrittenOnce == \A c \in Clients : at[c] \in {"none", "connecting", "writing"} => sent[c] = 0

SteadyIsWhole == \A c \in Clients : steady[c] => T!Whole(c)

IInv ==
  /\ T!TransportInv
  /\ TypeOK /\ WrittenOnce /\ SteadyIsWhole

-----------------------------------------------------------------------------
(* What the lemmas take for granted holds here. *)
LEMMA SameAssumptions == T!TransportAssumption /\ T!ClientOneAssumption
BY TransportAssumption DEF T!TransportAssumption, T!ClientOneAssumption

(* They are about the same state ... *)
LEMMA SameState ==
  /\ TransportInit => T!TransportInit
  /\ UNCHANGED ServerSide <=> UNCHANGED T!ServerSide
  /\ SC!Produced = T!SC!Produced
  /\ \A c \in Clients : HasLink(c) <=> T!HasLink(c)
BY DEF TransportInit, T!TransportInit, SC!Init, T!SC!Init, SC!Connections, T!SC!Connections,
  ServerSide, T!ServerSide, handlerVars, T!handlerVars, networkVars, T!networkVars,
  SC!Produced, T!SC!Produced, HasLink, T!HasLink

(* ... and the same steps, a handshake ... *)
LEMMA SameHandshake == ASSUME NEW c \in Clients, Establish(c) PROVE T!Establish(c)
<1>1. NextLink = T!NextLink
  BY DEF NextLink, T!NextLink, Max, T!Max
<1>. QED
  BY <1>1, SameState DEF Establish, T!Establish

(* ... and what the network and the server do, action by action. *)
LEMMA SameNetwork == Network => T!Network
<1>. USE DEF SC!Connections, T!SC!Connections, SC!network, T!SC!network,
             SC!server, T!SC!server,
             clientEnds, T!clientEnds, ServerRuns, T!ServerRuns
<1>1. AcceptFails => T!AcceptFails
  BY DEF AcceptFails, T!AcceptFails, SC!AcceptFailed, T!SC!AcceptFailed,
    SC!HandleAccept, T!SC!HandleAccept
<1>2. ASSUME NEW k \in SC!Connections, Handler(k) PROVE T!Handler(k)
  BY <1>2 DEF Handler, T!Handler, SC!ReadMore, T!SC!ReadMore, SC!ReadEnd, T!SC!ReadEnd,
    SC!ReadError, T!SC!ReadError, SC!ProduceReturned, T!SC!ProduceReturned,
    SC!HandleWrite, T!SC!HandleWrite, SC!HandleRead, T!SC!HandleRead,
    SC!BytesTransferred, T!SC!BytesTransferred
<1>3. ASSUME NEW c \in Clients
      PROVE  /\ Accept(c) => T!Accept(c)
             /\ FinArrives(c) => T!FinArrives(c)
             /\ Breaks(c) => T!Breaks(c)
             /\ Arrive(c) => T!Arrive(c)
  <2>1. (Accepted(c) <=> T!Accepted(c)) /\ Delivered(c) = T!Delivered(c)
    BY DEF Accepted, T!Accepted, Delivered, T!Delivered
  <2>2. Delivered(c)' = T!Delivered(c)'
    BY DEF Delivered, T!Delivered
  <2>3. Accept(c) => T!Accept(c)
    BY DEF Accept, T!Accept, SC!Accepted, T!SC!Accepted, SC!HandleAccept, T!SC!HandleAccept
  <2>4. (FinArrives(c) => T!FinArrives(c)) /\ (Breaks(c) => T!Breaks(c))
    BY <2>1 DEF FinArrives, T!FinArrives, Breaks, T!Breaks, SC!Shutdown, T!SC!Shutdown,
      SC!Reset, T!SC!Reset
  <2>5. Arrive(c) => T!Arrive(c)
    BY <2>1, <2>2 DEF Arrive, T!Arrive, SC!Deliver, T!SC!Deliver
  <2>. QED
    BY <2>3, <2>4, <2>5
<1>4. ServerEnds => T!ServerEnds
  BY DEF ServerEnds, T!ServerEnds, handlerVars, T!handlerVars, networkVars, T!networkVars
<1>. QED
  BY <1>1, <1>2, <1>3, <1>4 DEF Network, T!Network

(* What a program that moves no bytes backwards does to them. *)
LEMMA IsClientStep ==
  ASSUME UNCHANGED ServerSide,
         \/ \E c \in Clients : Establish(c)
         \/ UNCHANGED link /\ sent' \in [Clients -> Nat] /\ \A c \in Clients : sent[c] <= sent'[c]
  PROVE  T!ClientStep
BY SameState, SameHandshake DEF T!ClientStep

-----------------------------------------------------------------------------
(* The state the program starts in. *)
LEMMA InitIInv == Init => IInv
<1>. SUFFICES ASSUME Init PROVE IInv
  OBVIOUS
<1>1. T!TransportInv
  BY SameAssumptions, SameState, T!InitTransportInv DEF Init
<1>2. \A c \in Clients : link[c] = 0 /\ sent[c] = 0 /\ size[c] \in Nat /\ at[c] = "none"
  BY TransportAssumption DEF Init, TransportInit
<1>3. total = Cardinality({c \in Clients : at[c] # "none"})
  <2>1. {c \in Clients : at[c] # "none"} = {}
    BY <1>2
  <2>2. total = 0
    BY DEF Init
  <2>. QED
    BY <2>1, <2>2, FS_EmptySet
<1>4. TypeOK /\ WrittenOnce
  BY <1>2, <1>3 DEF Init, TypeOK, WrittenOnce, Points
<1>5. SteadyIsWhole
  BY <1>2 DEF SteadyIsWhole, T!Whole, T!Accepted, T!HasLink
<1>. QED
  BY <1>1, <1>4, <1>5 DEF IInv

(* A thread that goes on has been counted already, and it has not printed  *)
(* its acknowledgement unless it returns now.                              *)
LEMMA ThreadGoesOn ==
  ASSUME TypeOK, NEW c \in Clients,
         NEW from \in Points \ {"none", "returned"}, NEW to \in Points \ {"none"},
         Goto(c, from, to), UNCHANGED <<process, total>>,
         acks' = acks \/ (to = "returned" /\ acks' = acks \cup {c})
  PROVE  /\ at' \in [Clients -> Points] /\ process' \in {"running", "ended", "aborted"}
         /\ acks' \subseteq {d \in Clients : at'[d] = "returned"}
         /\ total' = Cardinality({d \in Clients : at'[d] # "none"})
         /\ at[c] = from /\ at'[c] = to /\ \A d \in Clients : d # c => at'[d] = at[d]
<1>1. at[c] = from /\ at' = [at EXCEPT ![c] = to]
  BY DEF Goto
<1>2. /\ at' \in [Clients -> Points] /\ at'[c] = to
      /\ \A d \in Clients : d # c => at'[d] = at[d]
  BY <1>1 DEF TypeOK
<1>3. {d \in Clients : at'[d] # "none"} = {d \in Clients : at[d] # "none"}
  BY <1>1, <1>2
<1>4. acks' \subseteq {d \in Clients : at'[d] = "returned"}
  BY <1>1, <1>2 DEF TypeOK
<1>. QED
  BY <1>1, <1>2, <1>3, <1>4 DEF TypeOK

(* main counts a thread when it starts it. *)
LEMMA StartCounts ==
  ASSUME TypeOK, NEW c \in Clients, StartThread(c)
  PROVE  /\ total' = Cardinality({d \in Clients : at'[d] # "none"})
         /\ at' \in [Clients -> Points] /\ at[c] = "none" /\ at'[c] = "connecting"
         /\ \A d \in Clients : d # c => at'[d] = at[d]
<1>. DEFINE S == {d \in Clients : at[d] # "none"}
<1>1. at[c] = "none" /\ at' = [at EXCEPT ![c] = "connecting"] /\ total' = total + 1
  BY DEF StartThread, Goto
<1>2. /\ at' \in [Clients -> Points] /\ at'[c] = "connecting"
      /\ \A d \in Clients : d # c => at'[d] = at[d]
  BY <1>1 DEF TypeOK, Points
<1>3. {d \in Clients : at'[d] # "none"} = S \cup {c} /\ c \notin S
  BY <1>1, <1>2
<1>4. IsFiniteSet(S)
  BY ClientAssumption, FS_Subset
<1>5. total = Cardinality(S)
  BY DEF TypeOK
<1>. HIDE DEF S
<1>6. Cardinality(S \cup {c}) = Cardinality(S) + 1
  BY <1>3, <1>4, FS_AddElement
<1>. QED
  BY <1>1, <1>2, <1>3, <1>5, <1>6

(* The end of the process leaves every thread where it is. *)
LEMMA EndKeeps ==
  ASSUME T!EndsTypeOK, TypeOK, WrittenOnce, NEW how \in {"ended", "aborted"}, End(how)
  PROVE  TypeOK' /\ WrittenOnce' /\ T!ClientStep /\ sent' = sent
<1>1. UNCHANGED <<ServerSide, link, sent, size, at, acks, total>> /\ process' = how
  BY DEF End, ServerSide
<1>2. TypeOK' /\ WrittenOnce'
  BY <1>1 DEF TypeOK, WrittenOnce
<1>. QED
  BY <1>1, <1>2, IsClientStep DEF T!EndsTypeOK

(* What a thread has sent and main has counted, after any step of the      *)
(* program: there is one write_some, and before it nothing was sent.       *)
LEMMA ThreadMoves ==
  ASSUME T!EndsTypeOK, TypeOK, WrittenOnce, NEW c \in Clients,
         StartThread(c) \/ Thread(c) \/ Handshake(c)
  PROVE  /\ TypeOK' /\ WrittenOnce' /\ T!ClientStep
         /\ \A d \in Clients : sent'[d] = sent[d] \/ sent[d] = 0
<1>. DEFINE P == /\ TypeOK' /\ WrittenOnce' /\ T!ClientStep
                 /\ \A d \in Clients : sent'[d] = sent[d] \/ sent[d] = 0
<1>1. ASSUME NEW from \in Points \ {"none", "returned"},
             NEW to \in Points \ {"none", "connecting"},
             Goto(c, from, to), UNCHANGED <<process, total, ServerSide, link, sent>>,
             acks' = acks \/ (to = "returned" /\ acks' = acks \cup {c}),
             to # "writing" \/ from = "connecting"
      PROVE  P
  <2>1. /\ at' \in [Clients -> Points] /\ process' \in {"running", "ended", "aborted"}
        /\ acks' \subseteq {d \in Clients : at'[d] = "returned"}
        /\ total' = Cardinality({d \in Clients : at'[d] # "none"})
        /\ at[c] = from /\ at'[c] = to /\ \A d \in Clients : d # c => at'[d] = at[d]
    BY <1>1, ThreadGoesOn
  <2>2. size' = size /\ sent' = sent
    BY <1>1 DEF ServerSide
  <2>3. TypeOK'
    BY <2>1, <2>2 DEF TypeOK
  <2>4. at'[c] \in {"none", "connecting", "writing"} => sent[c] = 0
    BY <1>1, <2>1 DEF WrittenOnce, Points
  <2>5. WrittenOnce'
    BY <2>1, <2>2, <2>4 DEF WrittenOnce
  <2>6. T!ClientStep
    BY <1>1, IsClientStep DEF T!EndsTypeOK
  <2>. QED
    BY <2>2, <2>3, <2>5, <2>6
<1>2. CASE StartThread(c)
  <2>1. /\ total' = Cardinality({d \in Clients : at'[d] # "none"})
        /\ at' \in [Clients -> Points] /\ at[c] = "none" /\ at'[c] = "connecting"
        /\ \A d \in Clients : d # c => at'[d] = at[d]
    BY <1>2, StartCounts
  <2>2. UNCHANGED <<ServerSide, size, link, sent, acks, process>>
    BY <1>2 DEF StartThread, transportVars, clientEnds, ServerSide
  <2>3. TypeOK' /\ WrittenOnce'
    BY <2>1, <2>2 DEF TypeOK, WrittenOnce
  <2>. QED
    BY <2>2, <2>3, IsClientStep DEF T!EndsTypeOK
<1>3. CASE Connected(c)
  BY <1>1, <1>3 DEF Connected, Points, transportVars, clientEnds, ServerSide
<1>4. CASE WriteSome(c)
  <2>1. PICK n \in 1 .. size[c] : sent' = [sent EXCEPT ![c] = n]
    BY <1>4 DEF WriteSome
  <2>2. /\ Goto(c, "writing", "reading") /\ UNCHANGED <<ServerSide, link, acks, process, total>>
    BY <1>4 DEF WriteSome
  <2>3. /\ at' \in [Clients -> Points] /\ process' \in {"running", "ended", "aborted"}
        /\ acks' \subseteq {d \in Clients : at'[d] = "returned"}
        /\ total' = Cardinality({d \in Clients : at'[d] # "none"})
        /\ at[c] = "writing" /\ at'[c] = "reading" /\ \A d \in Clients : d # c => at'[d] = at[d]
    BY <2>2, ThreadGoesOn DEF Points
  <2>4. size' = size /\ size[c] \in Nat /\ sent[c] = 0
    <3>1. size[c] \in Lengths
      BY DEF T!EndsTypeOK
    <3>. QED
      BY <2>2, <2>3, <3>1, TransportAssumption DEF ServerSide, WrittenOnce
  <2>5. n \in Nat /\ n <= size[c]
    BY <2>4
  <2>6. /\ sent' \in [Clients -> Nat] /\ sent'[c] = n
        /\ \A d \in Clients : d # c => sent'[d] = sent[d]
    BY <2>1, <2>5 DEF T!EndsTypeOK
  <2>7. \A d \in Clients : sent[d] <= sent'[d] /\ sent'[d] \in 0 .. size[d]
    BY <2>4, <2>5, <2>6 DEF TypeOK, T!EndsTypeOK
  <2>8. TypeOK'
    BY <2>3, <2>4, <2>7 DEF TypeOK
  <2>9. WrittenOnce'
    BY <2>3, <2>6 DEF WrittenOnce
  <2>10. T!ClientStep
    BY <2>2, <2>6, <2>7, IsClientStep
  <2>. QED
    BY <2>4, <2>6, <2>8, <2>9, <2>10
<1>5. CASE WriteEnds(c) \/ ReadAck(c) \/ ReadNothing(c)
  <2>1. PICK from \in {"writing", "reading"} : Return(c, from)
    BY <1>5 DEF WriteEnds, ReadAck, ReadNothing
  <2>2. acks' = acks \/ acks' = acks \cup {c}
    BY <1>5 DEF WriteEnds, ReadAck, ReadNothing
  <2>. QED
    BY <1>1, <2>1, <2>2 DEF Return, Points
<1>6. CASE Throws(c)
  BY <1>6, EndKeeps DEF Throws
<1>7. CASE Handshake(c)
  <2>1. Establish(c) /\ UNCHANGED <<locals, sent, size, ServerSide>>
    BY <1>7 DEF Handshake, Establish, ServerSide
  <2>2. TypeOK' /\ WrittenOnce'
    BY <2>1 DEF locals, TypeOK, WrittenOnce
  <2>. QED
    BY <2>1, <2>2, IsClientStep
<1>. QED
  BY <1>2, <1>3, <1>4, <1>5, <1>6, <1>7 DEF Thread

(* A step of the network sends nothing and moves no thread. *)
LEMMA NetworkMoves ==
  ASSUME T!TransportInv, TypeOK, WrittenOnce, T!Network, UNCHANGED locals
  PROVE  TypeOK' /\ WrittenOnce' /\ \A d \in Clients : sent'[d] = sent[d]
<1>1. \A d \in Clients : UNCHANGED <<sent, size>>
  BY SameAssumptions, T!NetworkKeeps
<1>. QED
  BY <1>1 DEF locals, TypeOK, WrittenOnce

(* Every step keeps the invariant. *)
LEMMA InvarianceStep == IInv /\ [Next]_vars => IInv'
<1>. SUFFICES ASSUME IInv, [Next]_vars PROVE IInv'
  OBVIOUS
<1>1. T!TransportInv /\ T!EndsTypeOK /\ TypeOK /\ WrittenOnce
  BY DEF IInv, T!TransportInv
<1>2. ASSUME T!Network \/ T!ClientStep, TypeOK', WrittenOnce',
             \A d \in Clients : sent'[d] = sent[d] \/ sent[d] = 0
      PROVE  IInv'
  <2>1. ASSUME NEW c \in Clients, steady'[c] PROVE T!Whole(c)'
    <3>1. steady[c] /\ T!Whole(c)
      BY <1>1, <1>2, <2>1, SameAssumptions, T!LinkKeeps DEF IInv, SteadyIsWhole
    <3>. QED
      BY <1>1, <1>2, <3>1, SameAssumptions, T!WholeStep
  <2>. QED
    BY <1>1, <1>2, <2>1, SameAssumptions, T!TransportStep DEF IInv, SteadyIsWhole
<1>3. CASE \E c \in Clients : StartThread(c) \/ Thread(c) \/ Handshake(c)
  BY <1>1, <1>2, <1>3, ThreadMoves
<1>4. CASE MainReturns
  BY <1>1, <1>2, <1>4, EndKeeps DEF MainReturns
<1>5. CASE Network /\ UNCHANGED locals
  BY <1>1, <1>2, <1>5, SameNetwork, NetworkMoves
<1>6. CASE UNCHANGED vars
  <2>1. T!ClientStep /\ sent' = sent
    BY <1>1, <1>6, IsClientStep DEF vars, transportVars, clientEnds, ServerSide, T!EndsTypeOK
  <2>2. TypeOK' /\ WrittenOnce'
    BY <1>1, <1>6 DEF vars, transportVars, clientEnds, locals, TypeOK, WrittenOnce
  <2>. QED
    BY <1>2, <2>1, <2>2
<1>. QED
  BY <1>3, <1>4, <1>5, <1>6 DEF Next

(* The invariant holds of every behaviour of the threads, the network and  *)
(* the server.                                                             *)
THEOREM Invariance == Spec => []IInv
BY InitIInv, InvarianceStep, PTL DEF Spec

(* main has counted exactly the threads it started, no thread sends beyond *)
(* its message, and only one that is done has printed an acknowledgement.  *)
THEOREM TypeCorrectness == Spec => []TypeOK
<1>1. IInv => TypeOK
  BY DEF IInv
<1>. QED
  BY <1>1, Invariance, PTL

(* Over a network that keeps together what write_some took, the server     *)
(* queues exactly that, for threads that ended with the process as well.   *)
THEOREM QueuedReportIsWritten == Spec => []QueuedIsWritten
<1>1. ASSUME IInv PROVE QueuedIsWritten
  <2>. SUFFICES ASSUME NEW c \in Clients, NEW i \in DOMAIN produced, steady[c], HasLink(c),
                       produced[i].conn = link[c]
                PROVE  produced[i].bytes = sent[c]
    BY DEF QueuedIsWritten
  <2>1. T!SCT!TypeOK /\ T!SCT!HandedOver /\ T!Whole(c)
    BY <1>1 DEF IInv, T!TransportInv, T!SCT!IInv, SteadyIsWhole
  <2>2. produced[i].bytes = m_recv[link[c]]
    BY <2>1 DEF T!SCT!HandedOver
  <2>3. link[c] \in SC!Produced
    BY DEF SC!Produced
  <2>. QED
    BY <2>1, <2>2, <2>3, SameState DEF T!Whole
<1>. QED
  BY <1>1, Invariance, PTL
=============================================================================
