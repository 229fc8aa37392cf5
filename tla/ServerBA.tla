------------------------------- MODULE ServerBA -------------------------------
(***************************************************************************)
(* ServerBA/ServerBA.cpp puts the server together: main's thread stays in  *)
(* io.run and is the only caller of Produce, from inside HandleRead; the   *)
(* queue's own thread consumes.  This module composes ServerConnection     *)
(* with ProducerConsumer: the call of Produce is one step of both, and so  *)
(* is its return, and what lies between are steps of ProducerConsumer      *)
(* during which no handler can run.                                        *)
(***************************************************************************)
EXTENDS Naturals, Sequences

(* As in the components; an operator commented "Slip" is a wrong version   *)
(* of the one below it, kept to show that some property notices it.        *)
CONSTANTS BufSize, Lengths, MaxConnections, Segmented, MayThrow

ASSUME ServerAssumption ==
  /\ BufSize \in Nat \ {0}
  /\ Lengths \subseteq Nat \ {0}
  /\ MaxConnections \in Nat \ {0}
  /\ Segmented \in BOOLEAN /\ MayThrow \in BOOLEAN

VARIABLES
  m_counter, conn, m_recv, io, produced, acked, log,      \* ServerConnection
  length, pending, arrived, peer,                         \* its environment
  m_queue, m_done, m_mtx, pc, arg, terminated, accepted, handled

SC == INSTANCE ServerConnection

IoThread == "io.run"
Consumer == "m_thread"

ReportSizes == {0} \cup UNION {1 .. n : n \in Lengths}

PC == INSTANCE ProducerConsumer WITH
  Producers <- {IoThread}, Nobody <- "nobody",
  Reports <- [conn : SC!Connections, bytes : ReportSizes],
  MaxReports <- MaxConnections, MayStop <- FALSE

handlerVars == <<m_counter, conn, m_recv, io, produced, acked, log>>
networkVars == <<length, pending, arrived, peer>>
queueVars == <<m_queue, m_done, m_mtx, pc, arg, terminated, accepted, handled>>
vars == <<handlerVars, networkVars, queueVars>>

Init ==
  /\ SC!Init
  /\ arg = [t \in {IoThread} |-> [conn |-> 1, bytes |-> 0]]
  /\ PC!Init

-----------------------------------------------------------------------------
(* Slip: the call is forgotten. *)
CallProduce_Forgotten(k) ==
  /\ SC!ReadEnd(k)
  /\ UNCHANGED queueVars

(* HandleRead calls m_pc.Produce(m_recv) ... *)
CallProduce(k) ==
  /\ SC!ReadEnd(k)
  /\ PC!Call(IoThread, [conn |-> k, bytes |-> m_recv'[k]])

(* ... which takes the lock and pushes ... *)
InProduce ==
  /\ PC!LockProducer(IoThread) \/ PC!Push(IoThread)
  /\ UNCHANGED <<handlerVars, networkVars>>

(* Slip: Produce is started and not waited for. *)
ReturnFromProduce_Early(k) == SC!ProduceReturned(k) /\ UNCHANGED queueVars

(* ... and notifies and returns to HandleRead. *)
ReturnFromProduce(k) == SC!ProduceReturned(k) /\ PC!Notify(IoThread)

Handler(k) ==
  \/ CallProduce(k) \/ ReturnFromProduce(k)
  \/ /\ ~terminated
     /\ SC!ReadMore(k) \/ SC!ReadError(k) \/ SC!HandleWrite(k)
     /\ UNCHANGED queueVars

Accept ==
  /\ ~terminated
  /\ SC!Accepted \/ SC!AcceptFailed
  /\ UNCHANGED queueVars

Consume == PC!ConsumerStep /\ UNCHANGED <<handlerVars, networkVars>>

Spurious == PC!SpuriousWakeup /\ UNCHANGED <<handlerVars, networkVars>>

Environment == SC!Environment /\ UNCHANGED queueVars

Next ==
  \/ \E k \in SC!Connections : Handler(k)
  \/ InProduce \/ Accept \/ Consume \/ Spurious \/ Environment

Spec == Init /\ [][Next]_vars

(* Both threads run when they can, io.run reaches the handler of every     *)
(* completed operation, and InsertDatabase ends.                           *)
FairSpec ==
  /\ Spec
  /\ \A k \in SC!Connections : WF_vars(Handler(k))
  /\ WF_vars(InProduce) /\ WF_vars(Consume)
  /\ <>[][~Spurious]_vars

-----------------------------------------------------------------------------
(* What HandleRead handed over is what the queue took, in the same order,  *)
(* but for the one report Produce is still waiting to push.                *)
HandedOverInOrder ==
  produced = IF pc[IoThread] \in {"lock", "push"}
               THEN Append(accepted, arg[IoThread]) ELSE accepted

(* Each component, seen alone, behaves as its own module says.  With the   *)
(* real queue in its place, the assumption of ServerConnection that        *)
(* Produce returns holds as long as InsertDatabase lets nothing escape.    *)
ImplementsServerConnection == SC!FairSpec
ImplementsProducerConsumer == PC!FairSpec
=============================================================================
