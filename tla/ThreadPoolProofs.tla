--------------------------- MODULE ThreadPoolProofs ---------------------------
(***************************************************************************)
(* Proofs about ThreadPool for any number of workers (but zero), producers *)
(* and tasks and any maxQueueSize_.  PoolInv needs to know in addition     *)
(* that no worker runs before start() and that only a started pool is      *)
(* stopped; that a worker in the queue's wait set is not alone with a task *)
(* follows from the notify() of every push.                                *)
(***************************************************************************)
EXTENDS ThreadPool, SequenceTheorems, TLAPS

\* The workers are created by start(), and stop() comes after it.
StartComesFirst ==
  /\ ~started => stopper = "no" /\ \A w \in Workers : worker[w] = "new"

\* The inductive invariant.
PoolIInv == PoolInv /\ StartComesFirst

\* notEmpty_.notify() leaves every worker where it is or moves it from the wait
\* set to the mutex, and moves one if there is one.
LEMMA NotifyWorker ==
  ASSUME worker \in [Workers -> WorkerPcs],
         NEW new \in Notify(worker, "waitNotEmpty", "take")
  PROVE  /\ new \in [Workers -> WorkerPcs]
         /\ \A w \in Workers : \/ new[w] = worker[w]
                               \/ worker[w] = "waitNotEmpty" /\ new[w] = "take"
         /\ (\E w \in Workers : worker[w] = "waitNotEmpty") =>
              \E w \in Workers : new[w] = "take"
  BY DEF Notify, WorkerPcs

\* notFull_.notify() leaves every producer where it is or moves it from the wait
\* set to the mutex.
LEMMA NotifyProducer ==
  ASSUME producer \in [Producers -> ProducerPcs],
         NEW new \in Notify(producer, "waitNotFull", "lock")
  PROVE  /\ new \in [Producers -> ProducerPcs]
         /\ \A p \in Producers : \/ new[p] = producer[p]
                                 \/ producer[p] = "waitNotFull" /\ new[p] = "lock"
  BY DEF Notify, ProducerPcs

\* Taking the front of the queue keeps the split of the submitted tasks.
LEMMA TakeKeepsOrder ==
  ASSUME NEW S, NEW q \in Seq(S), NEW r \in Seq(S), r # <<>>
  PROVE  Append(q, Head(r)) \o Tail(r) = q \o r
<1>1. Head(r) \in S /\ Tail(r) \in Seq(S) /\ <<Head(r)>> \in Seq(S)
  BY HeadTailProperties
<1>2. r = <<Head(r)>> \o Tail(r)
  OBVIOUS
<1>3. Append(q, Head(r)) = q \o <<Head(r)>>
  BY <1>1, AppendIsConcat
<1>4. (q \o <<Head(r)>>) \o Tail(r) = q \o (<<Head(r)>> \o Tail(r))
  BY <1>1, ConcatAssociative
<1> QED
  BY <1>2, <1>3, <1>4

\* Adding to the back of the queue adds to the back of the submitted tasks.
LEMMA PushKeepsOrder ==
  ASSUME NEW q \in Seq(Tasks), NEW r \in Seq(Tasks), NEW t \in Tasks
  PROVE  Append(q \o r, t) = q \o Append(r, t)
<1>1. q \o r \in Seq(Tasks)
  BY ConcatProperties
<1>2. <<t>> \in Seq(Tasks)
  OBVIOUS
<1>3. Append(q \o r, t) = (q \o r) \o <<t>> /\ Append(r, t) = r \o <<t>>
  BY <1>1, AppendIsConcat
<1>4. (q \o r) \o <<t>> = q \o (r \o <<t>>)
  BY <1>2, ConcatAssociative
<1> QED
  BY <1>3, <1>4

-----------------------------------------------------------------------------
\* The constructor's state satisfies the invariant.
LEMMA InitIInv == Init => PoolIInv
<1> SUFFICES ASSUME Init PROVE PoolIInv
  OBVIOUS
<1> USE PoolConstants DEF Init
<1>1. TypeOK
  <2>1. queue \in Seq(Tasks) /\ submitted \in Seq(Tasks) /\ taken \in Seq(Tasks)
    OBVIOUS
  <2>2. worker \in [Workers -> WorkerPcs] /\ producer \in [Producers -> ProducerPcs]
    BY DEF WorkerPcs, ProducerPcs
  <2> QED
    BY <2>1, <2>2 DEF TypeOK, WorkerPcs, ProducerPcs
<1>2. QueueBounded /\ NoForgottenTask /\ StoppedIsQuiet /\ StartComesFirst
  BY DEF QueueBounded, NoForgottenTask, StoppedIsQuiet, StartComesFirst
<1>3. TakenInOrder
  BY DEF TakenInOrder
<1> QED
  BY <1>1, <1>2, <1>3 DEF PoolIInv, PoolInv

\* run() with room in the queue: the task goes to the back and a sleeping
\* worker, if there is one, is woken.
LEMMA PushIInv ==
  ASSUME PoolIInv, NEW p \in Producers, Push(p)
  PROVE  PoolIInv'
<1>T. /\ TypeOK /\ arg[p] \in Tasks
      /\ worker \in [Workers -> WorkerPcs]
      /\ queue \in Seq(Tasks) /\ submitted \in Seq(Tasks) /\ taken \in Seq(Tasks)
  BY DEF PoolIInv, PoolInv, TypeOK, Push
<1>N. /\ worker' \in [Workers -> WorkerPcs]
      /\ \A w \in Workers : \/ worker'[w] = worker[w]
                            \/ worker[w] = "waitNotEmpty" /\ worker'[w] = "take"
      /\ (\E w \in Workers : worker[w] = "waitNotEmpty") =>
           \E w \in Workers : worker'[w] = "take"
  <2>1. worker' \in Notify(worker, "waitNotEmpty", "take")
    BY DEF Push
  <2> QED
    BY <1>T, <2>1, NotifyWorker
<1>1. TypeOK'
  <2>1. queue' \in Seq(Tasks) /\ submitted' \in Seq(Tasks)
    BY <1>T, AppendProperties DEF Push
  <2>2. \A w \in Workers : task'[w] # NoTask <=> worker'[w] = "call"
    BY <1>T, <1>N DEF TypeOK, Push
  <2> QED
    BY <1>T, <1>N, <2>1, <2>2 DEF TypeOK, ProducerPcs, Push
<1>2. QueueBounded'
  <2>1. Len(queue') = Len(queue) + 1 /\ Len(queue) \in Nat
    BY <1>T, AppendProperties DEF Push
  <2> QED
    BY <2>1, PoolConstants DEF QueueBounded, isFull, Push
<1>3. TakenInOrder'
  <2>1. taken \in Seq(Tasks) /\ queue \in Seq(Tasks) /\ arg[p] \in Tasks
    BY <1>T
  <2>2. Append(taken \o queue, arg[p]) = taken \o Append(queue, arg[p])
    BY <2>1, PushKeepsOrder
  <2> QED
    BY <2>2 DEF PoolIInv, PoolInv, TakenInOrder, Push
<1>4. NoForgottenTask'
  BY <1>N, PoolConstants DEF NoForgottenTask
<1>5. StoppedIsQuiet' /\ StartComesFirst'
  BY <1>N DEF PoolIInv, PoolInv, StoppedIsQuiet, StartComesFirst, Push
<1> QED
  BY <1>1, <1>2, <1>3, <1>4, <1>5 DEF PoolIInv, PoolInv

\* takeTask() with a task in the queue: its front moves to the worker, and a
\* producer that waits for room is woken.
LEMMA TakeIInv ==
  ASSUME PoolIInv, NEW w \in Workers, Take(w)
  PROVE  PoolIInv'
<1> USE PoolConstants DEF Take
<1>T. TypeOK
  BY DEF PoolIInv, PoolInv
<1>Q. /\ queue \in Seq(Tasks) /\ taken \in Seq(Tasks)
      /\ Head(queue) \in Tasks /\ Tail(queue) \in Seq(Tasks)
      /\ Len(Tail(queue)) = Len(queue) - 1 /\ Len(queue) \in Nat
  BY <1>T, HeadTailProperties DEF TypeOK
<1>N. /\ producer' \in [Producers -> ProducerPcs]
      /\ \A p \in Producers : producer'[p] # "idle" <=> producer[p] # "idle"
  <2>1. CASE producer' = producer
    BY <2>1, <1>T DEF TypeOK, WorkerPcs, ProducerPcs
  <2>2. CASE producer' \in Notify(producer, "waitNotFull", "lock")
    <3>1. producer \in [Producers -> ProducerPcs]
      BY <1>T DEF TypeOK
    <3>2. /\ producer' \in [Producers -> ProducerPcs]
          /\ \A p \in Producers : \/ producer'[p] = producer[p]
                                  \/ producer[p] = "waitNotFull" /\ producer'[p] = "lock"
      BY <2>2, <3>1, NotifyProducer
    <3> QED
      BY <3>2
  <2> QED
    BY <2>1, <2>2
<1>1. TypeOK'
  <2>1. taken' \in Seq(Tasks)
    BY <1>Q, AppendProperties
  <2> QED
    BY <1>T, <1>Q, <1>N, <2>1 DEF TypeOK, WorkerPcs, ProducerPcs
<1>2. QueueBounded'
  BY <1>Q DEF PoolIInv, PoolInv, QueueBounded
<1>3. TakenInOrder'
  BY <1>Q, TakeKeepsOrder DEF PoolIInv, PoolInv, TakenInOrder
<1>4. NoForgottenTask'
  BY <1>T DEF NoForgottenTask, TypeOK, WorkerPcs, ProducerPcs
<1>5. StoppedIsQuiet' /\ StartComesFirst'
  BY DEF PoolIInv, PoolInv, StoppedIsQuiet, StartComesFirst
<1> QED
  BY <1>1, <1>2, <1>3, <1>4, <1>5 DEF PoolIInv, PoolInv

\* Every step preserves the invariant.
LEMMA NextIInv == PoolIInv /\ [Next]_vars => PoolIInv'
<1> SUFFICES ASSUME PoolIInv, [Next]_vars PROVE PoolIInv'
  OBVIOUS
<1> USE PoolConstants
<1>T. TypeOK
  BY DEF PoolIInv, PoolInv
<1>Q. ASSUME UNCHANGED <<queue, submitted, taken>> PROVE QueueBounded' /\ TakenInOrder'
  BY <1>Q DEF PoolIInv, PoolInv, QueueBounded, TakenInOrder
<1>1. CASE Start
  <2>1. TypeOK'
    BY <1>1, <1>T DEF Start, PoolIInv, StartComesFirst, TypeOK, WorkerPcs, ProducerPcs
  <2>2. NoForgottenTask' /\ StoppedIsQuiet' /\ StartComesFirst'
    BY <1>1 DEF Start, PoolIInv, StartComesFirst, NoForgottenTask, StoppedIsQuiet
  <2> QED
    BY <1>1, <1>Q, <2>1, <2>2 DEF Start, PoolIInv, PoolInv
<1>2. CASE Stop
  <2>1. /\ worker' \in [Workers -> WorkerPcs]
        /\ \A w \in Workers : worker'[w] = IF worker[w] = "waitNotEmpty" THEN "take"
                                           ELSE worker[w]
    BY <1>2, <1>T DEF Stop, NotifyAll, TypeOK, WorkerPcs
  <2>2. TypeOK'
    BY <1>2, <2>1, <1>T DEF Stop, TypeOK, WorkerPcs, ProducerPcs
  <2>3. NoForgottenTask' /\ StoppedIsQuiet' /\ StartComesFirst'
    BY <1>2 DEF Stop, NoForgottenTask, StoppedIsQuiet, StartComesFirst
  <2> QED
    BY <1>2, <1>Q, <2>2, <2>3 DEF Stop, PoolIInv, PoolInv
<1>3. CASE Joined
  <2>1. TypeOK'
    BY <1>3, <1>T DEF Joined, TypeOK, WorkerPcs, ProducerPcs
  <2>2. NoForgottenTask' /\ StoppedIsQuiet' /\ StartComesFirst'
    BY <1>3 DEF Joined, PoolIInv, PoolInv, StartComesFirst, NoForgottenTask, StoppedIsQuiet
  <2> QED
    BY <1>3, <1>Q, <2>1, <2>2 DEF Joined, PoolIInv, PoolInv
<1>4. ASSUME NEW w \in Workers, Test(w) \/ WaitNotEmpty(w) \/ TakeNothing(w) \/ Call(w)
                                  \/ SpuriousWorker(w)
      PROVE  PoolIInv'
  <2> USE DEF Test, WaitNotEmpty, TakeNothing, Call, SpuriousWorker
  <2>1. TypeOK'
    BY <1>4, <1>T, SMTT(60) DEF TypeOK, WorkerPcs
  <2>2. NoForgottenTask'
    BY <1>4, <1>T DEF PoolIInv, PoolInv, NoForgottenTask, TypeOK, WorkerPcs, ProducerPcs
  <2>3. StoppedIsQuiet' /\ StartComesFirst'
    BY <1>4 DEF PoolIInv, PoolInv, StoppedIsQuiet, StartComesFirst
  <2> QED
    BY <1>4, <1>Q, <2>1, <2>2, <2>3 DEF PoolIInv, PoolInv
<1>5. ASSUME NEW w \in Workers, Take(w) PROVE PoolIInv'
  BY <1>5, TakeIInv
<1>6. ASSUME NEW p \in Producers, WaitNotFull(p) \/ SpuriousProducer(p) PROVE PoolIInv'
  <2> USE DEF WaitNotFull, SpuriousProducer
  <2>1. TypeOK'
    BY <1>6, <1>T DEF TypeOK, WorkerPcs, ProducerPcs
  <2>2. NoForgottenTask' /\ StoppedIsQuiet' /\ StartComesFirst'
    BY <1>6 DEF PoolIInv, PoolInv, NoForgottenTask, StoppedIsQuiet, StartComesFirst
  <2> QED
    BY <1>6, <1>Q, <2>1, <2>2 DEF PoolIInv, PoolInv
<1>7. ASSUME NEW p \in Producers, Push(p) PROVE PoolIInv'
  BY <1>7, PushIInv
<1>8. ASSUME NEW p \in Producers, NEW t \in Tasks, RunHere(p, t) \/ Run(p, t) PROVE PoolIInv'
  <2> USE DEF RunHere, Run
  <2>1. TypeOK'
    BY <1>8, <1>T DEF TypeOK, WorkerPcs, ProducerPcs
  <2>2. NoForgottenTask' /\ StoppedIsQuiet' /\ StartComesFirst'
    BY <1>8 DEF PoolIInv, PoolInv, NoForgottenTask, StoppedIsQuiet, StartComesFirst
  <2> QED
    BY <1>8, <1>Q, <2>1, <2>2 DEF PoolIInv, PoolInv
<1>9. CASE UNCHANGED vars
  BY <1>9 DEF vars, PoolIInv, PoolInv, TypeOK, QueueBounded, TakenInOrder, NoForgottenTask,
    StoppedIsQuiet, StartComesFirst
<1> QED
  BY <1>1, <1>2, <1>3, <1>4, <1>5, <1>6, <1>7, <1>8, <1>9
  DEF Next, WorkerStep, ProducerStep

\* The inductive invariant holds of every reachable state.
THEOREM PoolIInvHolds == Spec => []PoolIInv
  BY InitIInv, NextIInv, PTL DEF Spec

\* queue_ never exceeds maxQueueSize_, tasks are taken once each in the order of
\* run(), no task is left to sleeping workers, and stop() returns to a quiet pool.
THEOREM PoolCorrect == Spec => []PoolInv
<1>1. PoolIInv => PoolInv
  BY DEF PoolIInv
<1> QED
  BY <1>1, PoolIInvHolds, PTL
=============================================================================
