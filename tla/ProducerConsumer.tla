--------------------------- MODULE ProducerConsumer ---------------------------
(***************************************************************************)
(* ServerBA/ProducerConsumer.{h,cpp}: the report queue between the threads *)
(* that call Produce and the one thread that runs Consume.  Every access   *)
(* to m_queue is made under m_mtx; m_done is read under it and written     *)
(* without it.  InsertDatabase is seen from outside here (it returns or it *)
(* throws); module InsertDatabase opens it up.                             *)
(*                                                                         *)
(* Consume's early return for a null m_db is left out: main aborts before  *)
(* it builds a ProducerConsumer without a valid connection.                *)
(*                                                                         *)
(* An operator commented "Slip" is a wrong version of the one below it,    *)
(* kept to show that some property notices the mistake.                    *)
(***************************************************************************)
EXTENDS Naturals, Sequences

CONSTANTS
  Producers,    \* the threads that call Produce (the server has one: io.run)
  Consumer,     \* m_thread
  Nobody,       \* the owner of a free mutex
  Reports,      \* the strings handed to Produce
  MaxReports,   \* bound: no call of Produce starts once this many are queued
  MayStop,      \* whether some thread may call StopConsuming
  MayThrow      \* whether InsertDatabase may let an exception escape

ASSUME ThreadAssumption ==
  /\ Consumer \notin Producers
  /\ Nobody \notin Producers \cup {Consumer}
  /\ MaxReports \in Nat
  /\ MayStop \in BOOLEAN /\ MayThrow \in BOOLEAN

VARIABLES
  m_queue,      \* std::queue<std::string>
  m_done,       \* set by StopConsuming
  m_mtx,        \* the thread that owns the mutex, or Nobody
  pc,           \* where each thread is
  arg,          \* the str each producer passed to its current or last call
  terminated,   \* std::terminate was called: an exception left Consume
  accepted,     \* history: the reports pushed, in order
  handled       \* history: the reports InsertDatabase returned from, in order

vars == <<m_queue, m_done, m_mtx, pc, arg, terminated, accepted, handled>>

Threads == Producers \cup {Consumer}

Init ==
  /\ m_queue = <<>> /\ accepted = <<>> /\ handled = <<>>
  /\ m_done = FALSE /\ terminated = FALSE
  /\ m_mtx = Nobody
  /\ pc = [t \in Threads |-> IF t = Consumer THEN "lock" ELSE "idle"]
  /\ arg \in [Producers -> Reports]

(* A thread moves from one point to the next while the process lives. *)
Goto(t, from, to) ==
  /\ ~terminated
  /\ pc[t] = from
  /\ pc' = [pc EXCEPT ![t] = to]

-----------------------------------------------------------------------------
(* Slip: no unique_lock is taken, so nobody is waited for. *)
Lock_Unguarded(t, next) ==
  /\ Goto(t, "lock", next)
  /\ m_mtx' = t
  /\ UNCHANGED <<m_queue, m_done, arg, terminated, accepted, handled>>

(* Constructing the unique_lock: the thread blocks until the mutex is free. *)
(* The consumer also comes here to take the mutex back when m_cv wakes it.  *)
Lock(t, next) ==
  /\ Goto(t, "lock", next)
  /\ m_mtx = Nobody
  /\ m_mtx' = t
  /\ UNCHANGED <<m_queue, m_done, arg, terminated, accepted, handled>>

(* Produce(str) *)
Call(p, str) ==
  /\ Len(accepted) < MaxReports
  /\ Goto(p, "idle", "lock")
  /\ arg' = [arg EXCEPT ![p] = str]
  /\ UNCHANGED <<m_queue, m_done, m_mtx, terminated, accepted, handled>>

LockProducer(p) == Lock(p, "push")

(* Slip: the caller's string is moved from, which leaves it empty. *)
Push_Moved(p) ==
  /\ Goto(p, "push", "notify")
  /\ m_queue' = Append(m_queue, arg[p]) /\ accepted' = Append(accepted, arg[p])
  /\ arg' = [arg EXCEPT ![p] = ""]
  /\ UNCHANGED <<m_done, m_mtx, terminated, handled>>

Push(p) ==
  /\ Goto(p, "push", "notify")
  /\ m_queue' = Append(m_queue, arg[p])
  /\ accepted' = Append(accepted, arg[p])
  /\ UNCHANGED <<m_done, m_mtx, arg, terminated, handled>>

(* Slip: Produce forgets to notify. *)
Notify_Nobody(p) ==
  /\ Goto(p, "notify", "idle")
  /\ m_mtx' = Nobody
  /\ UNCHANGED <<m_queue, m_done, arg, terminated, accepted, handled>>

(* notify_one wakes the consumer if it is waiting and is lost otherwise;   *)
(* leaving the function releases the mutex.                                *)
Notify(p) ==
  /\ ~terminated
  /\ pc[p] = "notify"
  /\ pc' = [pc EXCEPT ![p] = "idle",
                      ![Consumer] = IF @ = "wait" THEN "lock" ELSE @]
  /\ m_mtx' = Nobody
  /\ UNCHANGED <<m_queue, m_done, arg, terminated, accepted, handled>>

-----------------------------------------------------------------------------
(* Consume *)
LockConsumer == Lock(Consumer, "test")

(* m_cv.wait(lock, predicate): go on with the mutex, or release it and     *)
(* sleep in one step.                                                      *)
Predicate == m_queue # <<>> /\ ~m_done

PredicateHolds ==
  /\ Predicate
  /\ Goto(Consumer, "test", "drain")
  /\ UNCHANGED <<m_queue, m_done, m_mtx, arg, terminated, accepted, handled>>

(* Slip: the consumer waits without testing the predicate first. *)
Wait_Untested ==
  /\ Goto(Consumer, "test", "wait")
  /\ m_mtx' = Nobody
  /\ UNCHANGED <<m_queue, m_done, arg, terminated, accepted, handled>>

Wait ==
  /\ ~Predicate
  /\ Goto(Consumer, "test", "wait")
  /\ m_mtx' = Nobody
  /\ UNCHANGED <<m_queue, m_done, arg, terminated, accepted, handled>>

SpuriousWakeup ==
  /\ Goto(Consumer, "wait", "lock")
  /\ UNCHANGED <<m_queue, m_done, m_mtx, arg, terminated, accepted, handled>>

(* Slip: back() for front(). *)
InsertReturns_Back ==
  /\ m_queue # <<>>
  /\ Goto(Consumer, "drain", "pop")
  /\ handled' = Append(handled, m_queue[Len(m_queue)])
  /\ UNCHANGED <<m_queue, m_done, m_mtx, arg, terminated, accepted>>

(* InsertDatabase(m_db, m_queue.front()) runs with the mutex held; the     *)
(* front is popped in a later step, once it has returned.                  *)
InsertReturns ==
  /\ m_queue # <<>>
  /\ Goto(Consumer, "drain", "pop")
  /\ handled' = Append(handled, Head(m_queue))
  /\ UNCHANGED <<m_queue, m_done, m_mtx, arg, terminated, accepted>>

(* Nothing catches an exception between InsertDatabase and the thread's    *)
(* entry point, so it ends the process.                                    *)
InsertThrows ==
  /\ MayThrow /\ ~terminated
  /\ m_queue # <<>> /\ pc[Consumer] = "drain"
  /\ terminated' = TRUE
  /\ UNCHANGED <<m_queue, m_done, m_mtx, pc, arg, accepted, handled>>

(* Slip: the whole queue is cleared after one report. *)
Pop_Clear ==
  /\ Goto(Consumer, "pop", "drain")
  /\ m_queue' = <<>>
  /\ UNCHANGED <<m_done, m_mtx, arg, terminated, accepted, handled>>

Pop ==
  /\ Goto(Consumer, "pop", "drain")
  /\ m_queue' = Tail(m_queue)
  /\ UNCHANGED <<m_done, m_mtx, arg, terminated, accepted, handled>>

(* Slip: the lock outlives the batch. *)
EndBatch_KeepsLock ==
  /\ m_queue = <<>>
  /\ Goto(Consumer, "drain", "lock")
  /\ UNCHANGED <<m_queue, m_done, m_mtx, arg, terminated, accepted, handled>>

(* The inner loop ends and the lock's scope with it. *)
EndBatch ==
  /\ m_queue = <<>>
  /\ Goto(Consumer, "drain", "lock")
  /\ m_mtx' = Nobody
  /\ UNCHANGED <<m_queue, m_done, arg, terminated, accepted, handled>>

-----------------------------------------------------------------------------
(* Nothing in the program calls it; it takes no lock and notifies nobody,  *)
(* so a predicate tested at the same moment reads the old or the new value. *)
StopConsuming ==
  /\ MayStop /\ ~m_done /\ ~terminated
  /\ m_done' = TRUE
  /\ UNCHANGED <<m_queue, m_mtx, pc, arg, terminated, accepted, handled>>

ProducerStep(p) == LockProducer(p) \/ Push(p) \/ Notify(p)

ConsumerStep ==
  \/ LockConsumer \/ PredicateHolds \/ Wait
  \/ InsertReturns \/ InsertThrows \/ Pop \/ EndBatch

Next ==
  \/ \E p \in Producers : ProducerStep(p) \/ \E str \in Reports : Call(p, str)
  \/ ConsumerStep
  \/ SpuriousWakeup
  \/ StopConsuming

Spec == Init /\ [][Next]_vars

(* The operating system runs every thread that can run, InsertDatabase     *)
(* ends one way or the other, and wakeups nobody asked for do not go on    *)
(* for ever.  Nothing makes a client call Produce or a thread StopConsuming. *)
Fairness ==
  /\ \A p \in Producers : WF_vars(ProducerStep(p))
  /\ WF_vars(ConsumerStep)
  /\ <>[][~SpuriousWakeup]_vars

FairSpec == Spec /\ Fairness

-----------------------------------------------------------------------------
ProducerPoints == {"idle", "lock", "push", "notify"}
ConsumerPoints == {"lock", "test", "wait", "drain", "pop"}

(* The values each variable ranges over. *)
TypeOK ==
  /\ m_queue \in Seq(Reports) /\ accepted \in Seq(Reports) /\ handled \in Seq(Reports)
  /\ m_done \in BOOLEAN /\ terminated \in BOOLEAN
  /\ m_mtx \in Threads \cup {Nobody}
  /\ pc \in [Threads -> ProducerPoints \cup ConsumerPoints]
  /\ pc[Consumer] \in ConsumerPoints
  /\ \A p \in Producers : pc[p] \in ProducerPoints
  /\ arg \in [Producers -> Reports]

(* The points of Produce and Consume at which the code relies on m_mtx. *)
InCriticalSection(t) == pc[t] \in {"push", "notify", "test", "drain", "pop"}

(* The unique_locks of Produce and Consume bracket exactly the code that   *)
(* touches m_queue: a thread is there iff it owns the mutex, so no two are. *)
LockDiscipline == \A t \in Threads : InCriticalSection(t) <=> m_mtx = t

(* What is still owed to the database: InsertDatabase has already returned *)
(* for the front when the consumer is about to pop it.                     *)
Unhandled == IF pc[Consumer] = "pop" THEN Tail(m_queue) ELSE m_queue

(* Produce and Consume lose, duplicate and reorder no report: those handed *)
(* to InsertDatabase, followed by those still owed, are those pushed.      *)
FifoExactlyOnce == accepted = handled \o Unhandled

(* The front that InsertDatabase was given by reference is still there     *)
(* when Consume pops it.                                                   *)
PopIsSafe ==
  pc[Consumer] = "pop" =>
    /\ m_queue # <<>>
    /\ handled # <<>> /\ handled[Len(handled)] = Head(m_queue)

(* No lost wakeup: the consumer sleeps beside a non-empty queue only while *)
(* the producer that filled it has yet to notify, or after StopConsuming.  *)
NoLostWakeup ==
  pc[Consumer] = "wait" =>
    \/ m_queue = <<>>
    \/ m_done
    \/ \E p \in Producers : pc[p] = "notify"

(* m_queue changes only at the hands of the owner of m_mtx, who keeps it,  *)
(* and while InsertDatabase holds a reference to the front nobody grows or *)
(* shrinks the queue: a caller of Produce waits until the batch is done.   *)
QueueHeldDuringBatch ==
  [][ /\ m_queue' # m_queue => m_mtx # Nobody /\ m_mtx' = m_mtx
      /\ pc[Consumer] \in {"drain", "pop"} => Len(accepted') = Len(accepted) ]_vars

(* StopConsuming takes effect at the predicate only: a batch that has been *)
(* started is finished, but no report is handled after that.               *)
StopEndsAtBatch ==
  [][ m_done /\ pc[Consumer] \in {"lock", "test", "wait"} =>
        handled' = handled /\ pc'[Consumer] \in {"lock", "test", "wait"} ]_vars

(* Every call of Produce returns, however the consumer's batches fall. *)
ProduceReturns ==
  \A p \in Producers : pc[p] = "lock" ~> (pc[p] = "idle" \/ terminated)

(* Every report pushed is handed to the database and removed, unless the   *)
(* process dies or consumption was stopped.                                *)
QueueDrains == m_queue # <<>> ~> (m_queue = <<>> \/ terminated \/ m_done)
=============================================================================
