------------------------ MODULE ProducerConsumerProofs ------------------------
(***************************************************************************)
(* What module ProducerConsumer promises for every set of producers and of *)
(* reports, every bound, and whether or not anybody stops the consumer or  *)
(* InsertDatabase throws.                                                  *)
(***************************************************************************)
EXTENDS ProducerConsumer, SequenceTheorems, TLAPS

(* Appending to the right part of a concatenation appends to the whole:    *)
(* what a push does to "handled, then unhandled".                          *)
LEMMA ConcatAppend ==
  ASSUME NEW S, NEW s \in Seq(S), NEW t \in Seq(S), NEW e \in S
  PROVE  s \o Append(t, e) = Append(s \o t, e)
<1>1. <<e>> \in Seq(S)
  OBVIOUS
<1>2. s \o t \in Seq(S)
  BY ConcatProperties
<1>3. (s \o t) \o <<e>> = s \o (t \o <<e>>)
  BY <1>1, ConcatAssociative
<1>. QED
  BY <1>2, <1>3, AppendIsConcat

(* Moving the head of the right part over to the left part changes nothing *)
(* of the whole: what InsertDatabase's return does.                        *)
LEMMA MoveHead ==
  ASSUME NEW S, NEW s \in Seq(S), NEW t \in Seq(S), t # <<>>
  PROVE  Append(s, Head(t)) \o Tail(t) = s \o t
<1>1. /\ Head(t) \in S
      /\ Tail(t) \in Seq(S)
  BY HeadTailProperties
<1>2. <<Head(t)>> \in Seq(S)
  BY <1>1
<1>3. Append(s, Head(t)) = s \o <<Head(t)>>
  BY <1>1, AppendIsConcat
<1>4. (s \o <<Head(t)>>) \o Tail(t) = s \o (<<Head(t)>> \o Tail(t))
  BY <1>1, <1>2, ConcatAssociative
<1>5. t = <<Head(t)>> \o Tail(t)
  <2>1. Len(t) \in Nat \ {0}
    BY EmptySeq
  <2>2. /\ Len(<<Head(t)>>) = 1
        /\ <<Head(t)>>[1] = t[1]
    BY <2>1
  <2>3. /\ <<Head(t)>> \o Tail(t) \in Seq(S)
        /\ Len(<<Head(t)>> \o Tail(t)) = Len(t)
        /\ \A i \in 1 .. Len(t) : (<<Head(t)>> \o Tail(t))[i] = t[i]
    BY <1>1, <1>2, <2>1, <2>2, ConcatProperties, HeadTailProperties
  <2>. QED
    BY <2>3, SeqEqual
<1>. QED
  BY <1>3, <1>4, <1>5

-----------------------------------------------------------------------------
(* The invariant that is inductive.  TypeOK alone is not: Pop keeps        *)
(* m_queue a sequence only because PopIsSafe says it is not empty, and     *)
(* that survives a producer's push only because LockDiscipline keeps the   *)
(* producers out.                                                          *)
IInv ==
  /\ TypeOK
  /\ LockDiscipline
  /\ PopIsSafe
  /\ FifoExactlyOnce
  /\ NoLostWakeup

(* The initial states satisfy the invariant. *)
LEMMA InitIInv == Init => IInv
<1> SUFFICES ASSUME Init
             PROVE  IInv
  OBVIOUS
<1>1. /\ <<>> \in Seq(Reports)
      /\ <<>> \o <<>> = <<>>
  BY EmptySeq, ConcatEmptySeq
<1>2. pc \in [Threads -> ProducerPoints \cup ConsumerPoints]
  BY DEF Init, ProducerPoints, ConsumerPoints
<1>3. /\ pc[Consumer] = "lock"
      /\ \A p \in Producers : pc[p] = "idle"
  BY ThreadAssumption DEF Init, Threads
<1>4. TypeOK
  BY <1>1, <1>2, <1>3 DEF Init, TypeOK, ProducerPoints, ConsumerPoints
<1>5. LockDiscipline
  BY <1>3, ThreadAssumption DEF Init, LockDiscipline, InCriticalSection, Threads
<1>6. PopIsSafe /\ FifoExactlyOnce /\ NoLostWakeup
  BY <1>1, <1>3 DEF Init, PopIsSafe, FifoExactlyOnce, NoLostWakeup, Unhandled
<1>. QED
  BY <1>4, <1>5, <1>6 DEF IInv

(* Every step keeps the variables in their ranges. *)
LEMMA TypeOKStep == TypeOK /\ PopIsSafe /\ [Next]_vars => TypeOK'
<1> SUFFICES ASSUME TypeOK, PopIsSafe, [Next]_vars
             PROVE  TypeOK'
  OBVIOUS
<1> USE ThreadAssumption
    DEF TypeOK, Threads, ProducerPoints, ConsumerPoints, Goto
<1>1. ASSUME NEW p \in Producers, NEW str \in Reports, Call(p, str)
      PROVE  TypeOK'
  BY <1>1 DEF Call
<1>2. ASSUME NEW p \in Producers, LockProducer(p)
      PROVE  TypeOK'
  BY <1>2 DEF LockProducer, Lock
<1>3. ASSUME NEW p \in Producers, Push(p)
      PROVE  TypeOK'
  <2>1. /\ m_queue' \in Seq(Reports)
        /\ accepted' \in Seq(Reports)
    BY <1>3, AppendProperties DEF Push
  <2>. QED
    BY <1>3, <2>1 DEF Push
<1>4. ASSUME NEW p \in Producers, Notify(p)
      PROVE  TypeOK'
  BY <1>4 DEF Notify
<1>5. CASE LockConsumer
  BY <1>5 DEF LockConsumer, Lock
<1>6. CASE PredicateHolds
  BY <1>6 DEF PredicateHolds
<1>7. CASE Wait
  BY <1>7 DEF Wait
<1>8. CASE InsertReturns
  <2>1. handled' \in Seq(Reports)
    BY <1>8, HeadTailProperties, AppendProperties DEF InsertReturns
  <2>. QED
    BY <1>8, <2>1 DEF InsertReturns
<1>9. CASE InsertThrows
  BY <1>9 DEF InsertThrows
<1>10. CASE EndBatch
  BY <1>10 DEF EndBatch
<1>11. CASE SpuriousWakeup
  BY <1>11 DEF SpuriousWakeup
<1>12. CASE StopConsuming
  BY <1>12 DEF StopConsuming
<1>13. CASE UNCHANGED vars
  BY <1>13 DEF vars
<1>14. CASE Pop
  <2>1. m_queue' \in Seq(Reports)
    BY <1>14, HeadTailProperties DEF Pop, PopIsSafe
  <2>. QED
    BY <1>14, <2>1 DEF Pop
<1>. QED
  BY <1>1, <1>2, <1>3, <1>4, <1>5, <1>6, <1>7, <1>8, <1>9, <1>10, <1>11, <1>12,
     <1>13, <1>14 DEF Next, ProducerStep, ConsumerStep

(* No step breaks the bracket of the unique_locks: a thread enters only    *)
(* when nobody is inside, and gives the mutex up when it leaves.           *)
LEMMA LockDisciplineStep ==
  TypeOK /\ LockDiscipline /\ [Next]_vars => LockDiscipline'
<1> SUFFICES ASSUME TypeOK, LockDiscipline, [Next]_vars
             PROVE  LockDiscipline'
  OBVIOUS
<1> USE ThreadAssumption
    DEF TypeOK, LockDiscipline, InCriticalSection, Threads, Goto
<1>1. ASSUME NEW p \in Producers, NEW str \in Reports, Call(p, str)
      PROVE  LockDiscipline'
  BY <1>1 DEF Call
<1>2. ASSUME NEW p \in Producers, LockProducer(p)
      PROVE  LockDiscipline'
  BY <1>2 DEF LockProducer, Lock
<1>3. ASSUME NEW p \in Producers, Push(p)
      PROVE  LockDiscipline'
  BY <1>3 DEF Push
<1>4. ASSUME NEW p \in Producers, Notify(p)
      PROVE  LockDiscipline'
  BY <1>4 DEF Notify
<1>5. CASE LockConsumer
  BY <1>5 DEF LockConsumer, Lock
<1>6. CASE PredicateHolds
  BY <1>6 DEF PredicateHolds
<1>7. CASE Wait
  BY <1>7 DEF Wait
<1>8. CASE InsertReturns
  BY <1>8 DEF InsertReturns
<1>9. CASE InsertThrows
  BY <1>9 DEF InsertThrows
<1>10. CASE Pop
  BY <1>10 DEF Pop
<1>11. CASE EndBatch
  BY <1>11 DEF EndBatch
<1>12. CASE SpuriousWakeup
  BY <1>12 DEF SpuriousWakeup
<1>13. CASE StopConsuming
  BY <1>13 DEF StopConsuming
<1>14. CASE UNCHANGED vars
  BY <1>14 DEF vars
<1>. QED
  BY <1>1, <1>2, <1>3, <1>4, <1>5, <1>6, <1>7, <1>8, <1>9, <1>10, <1>11, <1>12,
     <1>13, <1>14 DEF Next, ProducerStep, ConsumerStep

-----------------------------------------------------------------------------
(* No step loses, duplicates or reorders a report, and none but Pop's own  *)
(* thread touches the queue between InsertDatabase's return and Pop.       *)
LEMMA QueueStep ==
  TypeOK /\ LockDiscipline /\ PopIsSafe /\ FifoExactlyOnce /\ [Next]_vars
    => PopIsSafe' /\ FifoExactlyOnce'
<1> SUFFICES ASSUME TypeOK, LockDiscipline, PopIsSafe, FifoExactlyOnce, [Next]_vars
             PROVE  PopIsSafe' /\ FifoExactlyOnce'
  OBVIOUS
<1> USE ThreadAssumption DEF TypeOK, PopIsSafe, FifoExactlyOnce, Unhandled, Threads
<1>1. ASSUME NEW p \in Producers, NEW str \in Reports, Call(p, str)
      PROVE  PopIsSafe' /\ FifoExactlyOnce'
  BY <1>1 DEF Call, Goto
<1>2. ASSUME NEW p \in Producers, LockProducer(p)
      PROVE  PopIsSafe' /\ FifoExactlyOnce'
  BY <1>2 DEF LockProducer, Lock, Goto
<1>3. ASSUME NEW p \in Producers, Push(p)
      PROVE  PopIsSafe' /\ FifoExactlyOnce'
  <2>1. pc[Consumer] # "pop" /\ pc'[Consumer] = pc[Consumer]
    BY <1>3 DEF Push, Goto, LockDiscipline, InCriticalSection
  <2>2. handled \o Append(m_queue, arg[p]) = Append(handled \o m_queue, arg[p])
    BY ConcatAppend
  <2>. QED
    BY <1>3, <2>1, <2>2 DEF Push
<1>4. ASSUME NEW p \in Producers, Notify(p)
      PROVE  PopIsSafe' /\ FifoExactlyOnce'
  BY <1>4 DEF Notify
<1>5. CASE LockConsumer
  BY <1>5 DEF LockConsumer, Lock, Goto
<1>6. CASE PredicateHolds
  BY <1>6 DEF PredicateHolds, Goto
<1>7. CASE Wait
  BY <1>7 DEF Wait, Goto
<1>8. CASE InsertReturns
  <2>1. /\ pc[Consumer] = "drain" /\ pc'[Consumer] = "pop"
        /\ m_queue # <<>> /\ m_queue' = m_queue /\ accepted' = accepted
        /\ handled' = Append(handled, Head(m_queue))
    BY <1>8 DEF InsertReturns, Goto
  <2>2. /\ handled' # <<>>
        /\ handled'[Len(handled')] = Head(m_queue)
    BY <2>1, HeadTailProperties, AppendProperties
  <2>3. handled' \o Tail(m_queue) = handled \o m_queue
    BY <2>1, MoveHead
  <2>. QED
    BY <2>1, <2>2, <2>3
<1>9. CASE InsertThrows
  BY <1>9 DEF InsertThrows
<1>10. CASE Pop
  BY <1>10 DEF Pop, Goto
<1>11. CASE EndBatch
  BY <1>11 DEF EndBatch, Goto
<1>12. CASE SpuriousWakeup
  BY <1>12 DEF SpuriousWakeup, Goto
<1>13. CASE StopConsuming
  BY <1>13 DEF StopConsuming
<1>14. CASE UNCHANGED vars
  BY <1>14 DEF vars
<1>. QED
  BY <1>1, <1>2, <1>3, <1>4, <1>5, <1>6, <1>7, <1>8, <1>9, <1>10, <1>11, <1>12,
     <1>13, <1>14 DEF Next, ProducerStep, ConsumerStep

(* No step leaves the consumer asleep beside a report that nobody is about *)
(* to announce: the predicate is tested and the mutex released in one step, *)
(* and a push under the mutex is followed by its notification.             *)
LEMMA WakeupStep ==
  TypeOK /\ NoLostWakeup /\ [Next]_vars => NoLostWakeup'
<1> SUFFICES ASSUME TypeOK, NoLostWakeup, [Next]_vars
             PROVE  NoLostWakeup'
  OBVIOUS
<1> USE ThreadAssumption DEF TypeOK, NoLostWakeup, Threads, Goto
<1>1. ASSUME NEW p \in Producers, NEW str \in Reports, Call(p, str)
      PROVE  NoLostWakeup'
  BY <1>1 DEF Call
<1>2. ASSUME NEW p \in Producers, LockProducer(p)
      PROVE  NoLostWakeup'
  BY <1>2 DEF LockProducer, Lock
<1>3. ASSUME NEW p \in Producers, Push(p)
      PROVE  NoLostWakeup'
  <2>1. pc'[p] = "notify"
    BY <1>3 DEF Push
  <2>. QED
    BY <2>1
<1>4. ASSUME NEW p \in Producers, Notify(p)
      PROVE  NoLostWakeup'
  <2>1. pc'[Consumer] # "wait"
    BY <1>4 DEF Notify
  <2>. QED
    BY <2>1
<1>5. CASE LockConsumer
  BY <1>5 DEF LockConsumer, Lock
<1>6. CASE PredicateHolds
  BY <1>6 DEF PredicateHolds
<1>7. CASE Wait
  <2>1. m_queue' = <<>> \/ m_done'
    BY <1>7 DEF Wait, Predicate
  <2>. QED
    BY <2>1
<1>8. CASE InsertReturns
  BY <1>8 DEF InsertReturns
<1>9. CASE InsertThrows
  BY <1>9 DEF InsertThrows
<1>10. CASE Pop
  BY <1>10 DEF Pop
<1>11. CASE EndBatch
  BY <1>11 DEF EndBatch
<1>12. CASE SpuriousWakeup
  BY <1>12 DEF SpuriousWakeup
<1>13. CASE StopConsuming
  BY <1>13 DEF StopConsuming
<1>14. CASE UNCHANGED vars
  BY <1>14 DEF vars
<1>. QED
  BY <1>1, <1>2, <1>3, <1>4, <1>5, <1>6, <1>7, <1>8, <1>9, <1>10, <1>11, <1>12,
     <1>13, <1>14 DEF Next, ProducerStep, ConsumerStep

(* So every step keeps the invariant. *)
LEMMA InvarianceStep == IInv /\ [Next]_vars => IInv'
BY TypeOKStep, LockDisciplineStep, QueueStep, WakeupStep DEF IInv

(* The invariant holds of every behaviour of the queue. *)
THEOREM Invariance == Spec => []IInv
BY InitIInv, InvarianceStep, PTL DEF Spec

-----------------------------------------------------------------------------
(* The variables stay in their ranges. *)
THEOREM TypeCorrectness == Spec => []TypeOK
BY Invariance, PTL DEF IInv

(* The mutex is owned by exactly the thread inside its critical section,   *)
(* so no two threads are ever inside.                                      *)
THEOREM MutualExclusion == Spec => []LockDiscipline
BY Invariance, PTL DEF IInv

(* Reports are handed to the database exactly once and in the order of     *)
(* their pushes.                                                           *)
THEOREM ExactlyOnceInOrder == Spec => []FifoExactlyOnce
BY Invariance, PTL DEF IInv

(* The element Consume pops is the one it handed to InsertDatabase. *)
THEOREM PopAfterInsertIsSafe == Spec => []PopIsSafe
BY Invariance, PTL DEF IInv

(* The consumer never sleeps through a report. *)
THEOREM WakeupsAreNotLost == Spec => []NoLostWakeup
BY Invariance, PTL DEF IInv

(* The queue is touched by the owner of the mutex alone, and a batch shuts *)
(* the producers out from its first report to its last.                    *)
THEOREM BatchExcludesProducers == Spec => QueueHeldDuringBatch
<1> DEFINE Held == /\ m_queue' # m_queue => m_mtx # Nobody /\ m_mtx' = m_mtx
                   /\ pc[Consumer] \in {"drain", "pop"} =>
                        Len(accepted') = Len(accepted)
<1>1. IInv /\ [Next]_vars => [Held]_vars
  <2> SUFFICES ASSUME IInv, Next
               PROVE  Held
    BY DEF vars
  <2> USE ThreadAssumption DEF IInv, TypeOK, LockDiscipline, InCriticalSection, Threads
  <2>1. ASSUME NEW p \in Producers, Push(p)
        PROVE  Held
    <3>1. m_mtx = p /\ m_mtx' = p /\ p # Nobody
      BY <2>1 DEF Push, Goto
    <3>2. pc[Consumer] \notin {"drain", "pop"}
      BY <3>1
    <3>. QED
      BY <3>1, <3>2
  <2>2. CASE Pop
    <3>1. m_mtx = Consumer /\ m_mtx' = Consumer /\ accepted' = accepted
      BY <2>2 DEF Pop, Goto
    <3>. QED
      BY <3>1
  <2>3. ASSUME m_queue' = m_queue, accepted' = accepted
        PROVE  Held
    BY <2>3
  <2>. QED
    BY <2>1, <2>2, <2>3
    DEF Next, ProducerStep, ConsumerStep, Call, LockProducer, Lock, Notify, LockConsumer,
        PredicateHolds, Wait, InsertReturns, InsertThrows, EndBatch, SpuriousWakeup,
        StopConsuming
<1>2. Spec => [][Held]_vars
  BY <1>1, Invariance, PTL DEF Spec
<1>. QED
  BY <1>2 DEF QueueHeldDuringBatch

(* Once the consumer is outside a batch with m_done set, it handles        *)
(* nothing any more.                                                       *)
THEOREM StoppingIsFinal == Spec => StopEndsAtBatch
<1> DEFINE Stopped == m_done /\ pc[Consumer] \in {"lock", "test", "wait"} =>
                        handled' = handled /\ pc'[Consumer] \in {"lock", "test", "wait"}
<1>1. IInv /\ [Next]_vars => [Stopped]_vars
  <2> SUFFICES ASSUME IInv, Next, m_done, pc[Consumer] \in {"lock", "test", "wait"}
               PROVE  handled' = handled /\ pc'[Consumer] \in {"lock", "test", "wait"}
    BY DEF vars
  <2> USE ThreadAssumption DEF IInv, TypeOK, Threads, Goto
  <2>1. ASSUME NEW p \in Producers, ProducerStep(p) \/ \E str \in Reports : Call(p, str)
        PROVE  handled' = handled /\ pc'[Consumer] \in {"lock", "test", "wait"}
    BY <2>1 DEF ProducerStep, LockProducer, Lock, Push, Notify, Call
  <2>2. CASE LockConsumer \/ Wait \/ SpuriousWakeup \/ StopConsuming
    BY <2>2 DEF LockConsumer, Lock, Wait, SpuriousWakeup, StopConsuming
  <2>3. ~PredicateHolds
    BY DEF PredicateHolds, Predicate
  <2>4. ~InsertReturns /\ ~InsertThrows /\ ~Pop /\ ~EndBatch
    BY DEF InsertReturns, InsertThrows, Pop, EndBatch
  <2>. QED
    BY <2>1, <2>2, <2>3, <2>4 DEF Next, ConsumerStep
<1>2. Spec => [][Stopped]_vars
  BY <1>1, Invariance, PTL DEF Spec
<1>. QED
  BY <1>2 DEF StopEndsAtBatch
=============================================================================
