-------------------------------- MODULE Client --------------------------------
(***************************************************************************)
(* Client/Client.cpp: main starts detached threads, each of which sends    *)
(* one report with a single write_some and reads the acknowledgement,      *)
(* without a deadline and with its own side of the connection left open.   *)
(* A thread is a member of Clients; they share a process, which an         *)
(* exception in any of them ends, and main's return as well.  The server   *)
(* and TCP are those of module Transport.                                  *)
(*                                                                         *)
(* An operator commented "Slip" is a wrong version of the one below it,    *)
(* kept to show that some property notices the mistake.                    *)
(***************************************************************************)
EXTENDS Transport, FiniteSets

(* main starts as many threads as it is told to. *)
ASSUME ClientAssumption == IsFiniteSet(Clients)

VARIABLES
  at,       \* how far each thread has got
  acks,     \* the threads that printed "Rx: "
  process,  \* "running", "ended" by main's return or "aborted" by std::terminate
  total     \* how many threads main has counted

locals == <<at, acks, process, total>>
vars == <<transportVars, locals>>

Init ==
  /\ TransportInit
  /\ at = [c \in Clients |-> "none"]
  /\ acks = {}
  /\ process = "running" /\ total = 0

-----------------------------------------------------------------------------
Goto(c, from, to) ==
  /\ process = "running"
  /\ at[c] = from /\ at' = [at EXCEPT ![c] = to]

(* Slip: the thread takes over the counting and never gets there. *)
StartThread_Uncounted(c) ==
  /\ Goto(c, "none", "connecting")
  /\ UNCHANGED <<transportVars, acks, process, total>>

(* std::thread(SendThreadFunc).detach(); total++; *)
StartThread(c) ==
  /\ Goto(c, "none", "connecting")
  /\ total' = total + 1
  /\ UNCHANGED <<transportVars, acks, process>>

Handshake(c) ==
  /\ process = "running" /\ at[c] = "connecting"
  /\ Establish(c) /\ UNCHANGED locals

Connected(c) ==
  /\ HasLink(c)
  /\ Goto(c, "connecting", "writing")
  /\ UNCHANGED <<transportVars, acks, process, total>>

(* Slip: write_some is called until everything is written, as write does. *)
WriteSome_Again(c) ==
  /\ sent[c] < size[c]
  /\ \E n \in 1 .. size[c] - sent[c] :
       /\ sent' = [sent EXCEPT ![c] = @ + n]
       /\ IF sent'[c] = size[c] THEN Goto(c, "writing", "reading") ELSE Goto(c, "writing", "writing")
  /\ UNCHANGED <<ServerSide, link, ending, acks, process, total>>

(* write_some takes what it can and is not called again. *)
WriteSome(c) ==
  /\ Goto(c, "writing", "reading")
  /\ \E n \in 1 .. size[c] : sent' = [sent EXCEPT ![c] = n]
  /\ UNCHANGED <<ServerSide, link, ending, acks, process, total>>

(* The socket goes with the function that owns it. *)
Return(c, from) ==
  /\ Goto(c, from, "returned")
  /\ ending' = [ending EXCEPT ![c] = TRUE]
  /\ UNCHANGED <<ServerSide, link, sent, process, total>>

(* An end of file is no reason to throw. *)
WriteEnds(c) == Return(c, "writing") /\ UNCHANGED acks

ReadAck(c) == AckReadable(c) /\ Return(c, "reading") /\ acks' = acks \cup {c}

(* An end of file or an error is not looked at. *)
ReadNothing(c) ==
  /\ EndReadable(c) \/ ErrorReadable(c)
  /\ Return(c, "reading") /\ UNCHANGED acks

(* The process is gone and its sockets with it. *)
End(how) ==
  /\ process = "running" /\ process' = how
  /\ ending' = [c \in Clients |-> TRUE]
  /\ UNCHANGED <<ServerSide, link, sent, at, acks, total>>

(* resolve, connect and a failed write throw, and no thread catches. *)
Throws(c) ==
  /\ at[c] = "connecting" \/ (at[c] = "writing" /\ ErrorReadable(c))
  /\ End("aborted")

(* The user presses <Esc>, and main returns whatever its threads are at. *)
MainReturns == End("ended")

Thread(c) ==
  \/ Connected(c) \/ WriteSome(c) \/ WriteEnds(c) \/ ReadAck(c) \/ ReadNothing(c)
  \/ Throws(c)

Next ==
  \/ \E c \in Clients : StartThread(c) \/ Thread(c) \/ Handshake(c)
  \/ MainReturns
  \/ Network /\ UNCHANGED locals

Spec == Init /\ [][Next]_vars

(* Threads run, and the network and the server do what FairSpec of module  *)
(* ClientOne says of them.  Nobody need start a thread or end the program. *)
FairSpec ==
  /\ Spec
  /\ \A c \in Clients : WF_vars(Thread(c))
  /\ \A c \in Clients : WF_vars((Arrive(c) \/ FinArrives(c)) /\ UNCHANGED locals)
  /\ \A k \in SC!Connections : WF_vars(Handler(k) /\ UNCHANGED locals)

-----------------------------------------------------------------------------
Points == {"none", "connecting", "writing", "reading", "returned"}

(* The values of the program's variables; main has counted every thread it *)
(* started, and only a thread that is done has printed an acknowledgement. *)
TypeOK ==
  /\ at \in [Clients -> Points]
  /\ process \in {"running", "ended", "aborted"}
  /\ acks \subseteq {c \in Clients : at[c] = "returned"}
  /\ total = Cardinality({c \in Clients : at[c] # "none"})
  /\ \A c \in Clients : sent[c] \in 0 .. size[c]

(* Over a network that does not cut up what one write_some took, the       *)
(* server queues exactly what was written: write_some is called once, so   *)
(* nothing follows that the server would leave unread.  This holds for     *)
(* threads that ended with the process as well.                            *)
QueuedIsWritten ==
  \A c \in Clients : \A i \in DOMAIN produced :
    steady[c] /\ HasLink(c) /\ produced[i].conn = link[c] => produced[i].bytes = sent[c]

(* A thread waits for its acknowledgement without a deadline and without   *)
(* closing its side.  Over such a network it gets its answer unless what   *)
(* it wrote was a whole number of the server's buffers: then each waits    *)
(* for the other.                                                          *)
ReadReturns ==
  \A c \in Clients :
    steady[c] /\ at[c] = "reading" /\ Accepted(c) /\ sent[c] % BufSize # 0
      ~> at[c] = "returned" \/ process # "running"
=============================================================================
