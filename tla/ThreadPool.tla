----------------------------- MODULE ThreadPool -----------------------------
(***************************************************************************)
(* base/threadpool.cpp on base/mutex.h, base/condition.h and               *)
(* base/thread.cpp: worker threads take tasks from a queue that may be     *)
(* bounded; run() blocks while it is full; stop() makes the workers leave  *)
(* and joins them.                                                         *)
(*                                                                         *)
(* A stretch of code between two releases of mutex_ is one step.           *)
(* Condition::wait puts the thread in the wait set; notify moves one       *)
(* waiter, notifyAll all of them, to where they take the mutex again; a    *)
(* waiter may also wake up for no reason.  Each task is submitted once,    *)
(* and tasks end.  start() has finished before other threads call run().   *)
(***************************************************************************)
EXTENDS Naturals, Sequences

CONSTANTS
  Workers, Producers, Tasks,
  maxQueueSize      \* maxQueueSize_, 0 for no bound

NoTask == "none"

\* start(0) creates no thread: run() then stays what it is before start().
ASSUME PoolConstants ==
  maxQueueSize \in Nat /\ Workers # {} /\ NoTask \notin Tasks

VARIABLES
  running,    \* running_
  started,    \* threads_ is not empty
  queue,      \* queue_
  worker,     \* new test take waitNotEmpty call done
  task,       \* the task a worker has taken, or none
  producer,   \* idle lock waitNotFull
  arg,        \* the task a producer is submitting
  stopper,    \* no join joined
  submitted, taken, inlined   \* history

vars == <<running, started, queue, worker, task, producer, arg, stopper,
          submitted, taken, inlined>>

Used == {submitted[i] : i \in DOMAIN submitted} \cup inlined \cup {arg[p] : p \in Producers}

Init ==
  /\ running = FALSE /\ started = FALSE /\ queue = <<>>
  /\ worker = [w \in Workers |-> "new"] /\ task = [w \in Workers |-> NoTask]
  /\ producer = [p \in Producers |-> "idle"] /\ arg = [p \in Producers |-> NoTask]
  /\ stopper = "no"
  /\ submitted = <<>> /\ taken = <<>> /\ inlined = {}

\* isFull
isFull == maxQueueSize > 0 /\ Len(queue) >= maxQueueSize

\* notify on the condition whose waiters are at "waiting" in pcs: one of them
\* goes back for the mutex.  notifyAll: all of them do.
Notify(pcs, waiting, next) ==
  LET W == {x \in DOMAIN pcs : pcs[x] = waiting} IN
  IF W = {} THEN {pcs} ELSE {[pcs EXCEPT ![x] = next] : x \in W}

NotifyAll(pcs, waiting, next) ==
  [x \in DOMAIN pcs |-> IF pcs[x] = waiting THEN next ELSE pcs[x]]

-----------------------------------------------------------------------------
(* start and stop *)

Start ==
  /\ ~started
  /\ running' = TRUE /\ started' = TRUE
  /\ worker' = [w \in Workers |-> "test"]
  /\ UNCHANGED <<queue, task, producer, arg, stopper, submitted, taken, inlined>>

\* MUTANT of Stop: notEmpty_.notify in place of notifyAll.
StopNotifiesOne ==
  /\ started /\ stopper = "no"
  /\ running' = FALSE
  /\ worker' \in Notify(worker, "waitNotEmpty", "take")
  /\ stopper' = "join"
  /\ UNCHANGED <<started, queue, task, producer, arg, submitted, taken, inlined>>

\* stop, or the destructor: up to the joins.
Stop ==
  /\ started /\ stopper = "no"
  /\ running' = FALSE
  /\ worker' = NotifyAll(worker, "waitNotEmpty", "take")
  /\ stopper' = "join"
  /\ UNCHANGED <<started, queue, task, producer, arg, submitted, taken, inlined>>

\* Thread::join on every worker.
Joined ==
  /\ stopper = "join" /\ \A w \in Workers : worker[w] = "done"
  /\ stopper' = "joined"
  /\ UNCHANGED <<running, started, queue, worker, task, producer, arg,
                 submitted, taken, inlined>>

-----------------------------------------------------------------------------
(* run *)

\* run before start: there are no threads, the caller executes the task.
RunHere(p, t) ==
  /\ ~started /\ producer[p] = "idle" /\ t \notin Used
  /\ inlined' = inlined \cup {t}
  /\ UNCHANGED <<running, started, queue, worker, task, producer, arg, stopper,
                 submitted, taken>>

Run(p, t) ==
  /\ started /\ producer[p] = "idle" /\ t \notin Used
  /\ producer' = [producer EXCEPT ![p] = "lock"]
  /\ arg' = [arg EXCEPT ![p] = t]
  /\ UNCHANGED <<running, started, queue, worker, task, stopper, submitted, taken, inlined>>

\* while (isFull()) notFull_.wait()
WaitNotFull(p) ==
  /\ producer[p] = "lock" /\ isFull
  /\ producer' = [producer EXCEPT ![p] = "waitNotFull"]
  /\ UNCHANGED <<running, started, queue, worker, task, arg, stopper,
                 submitted, taken, inlined>>

\* MUTANT of Push: the test after the wait is an "if": it is not repeated.
PushUntested(p) ==
  /\ producer[p] = "lock"
  /\ queue' = Append(queue, arg[p]) /\ submitted' = Append(submitted, arg[p])
  /\ worker' \in Notify(worker, "waitNotEmpty", "take")
  /\ producer' = [producer EXCEPT ![p] = "idle"]
  /\ arg' = [arg EXCEPT ![p] = NoTask]
  /\ UNCHANGED <<running, started, task, stopper, taken, inlined>>

\* MUTANT of Push: notEmpty_ is not notified.
PushNotifiesNobody(p) ==
  /\ producer[p] = "lock" /\ ~isFull
  /\ queue' = Append(queue, arg[p]) /\ submitted' = Append(submitted, arg[p])
  /\ producer' = [producer EXCEPT ![p] = "idle"]
  /\ arg' = [arg EXCEPT ![p] = NoTask]
  /\ UNCHANGED <<running, started, worker, task, stopper, taken, inlined>>

\* queue_.push_back(task); notEmpty_.notify()
Push(p) ==
  /\ producer[p] = "lock" /\ ~isFull
  /\ queue' = Append(queue, arg[p]) /\ submitted' = Append(submitted, arg[p])
  /\ worker' \in Notify(worker, "waitNotEmpty", "take")
  /\ producer' = [producer EXCEPT ![p] = "idle"]
  /\ arg' = [arg EXCEPT ![p] = NoTask]
  /\ UNCHANGED <<running, started, task, stopper, taken, inlined>>

-----------------------------------------------------------------------------
(* runInThread and takeTask *)

\* while (running_), read without the mutex.
Test(w) ==
  /\ worker[w] = "test"
  /\ worker' = [worker EXCEPT ![w] = IF running THEN "take" ELSE "done"]
  /\ UNCHANGED <<running, started, queue, task, producer, arg, stopper,
                 submitted, taken, inlined>>

\* while (queue_.empty() && running_) notEmpty_.wait()
WaitNotEmpty(w) ==
  /\ worker[w] = "take" /\ queue = <<>> /\ running
  /\ worker' = [worker EXCEPT ![w] = "waitNotEmpty"]
  /\ UNCHANGED <<running, started, queue, task, producer, arg, stopper,
                 submitted, taken, inlined>>

\* The pool was stopped and the queue is empty: no task.
TakeNothing(w) ==
  /\ worker[w] = "take" /\ queue = <<>> /\ ~running
  /\ worker' = [worker EXCEPT ![w] = "test"]
  /\ UNCHANGED <<running, started, queue, task, producer, arg, stopper,
                 submitted, taken, inlined>>

\* MUTANT of Take: notFull_ is not notified.
TakeNotifiesNobody(w) ==
  /\ worker[w] = "take" /\ queue # <<>>
  /\ task' = [task EXCEPT ![w] = Head(queue)]
  /\ queue' = Tail(queue) /\ taken' = Append(taken, Head(queue))
  /\ worker' = [worker EXCEPT ![w] = "call"]
  /\ UNCHANGED <<running, started, producer, arg, stopper, submitted, inlined>>

\* The front of the queue, and notFull_.notify() if the queue is bounded.
Take(w) ==
  /\ worker[w] = "take" /\ queue # <<>>
  /\ task' = [task EXCEPT ![w] = Head(queue)]
  /\ queue' = Tail(queue) /\ taken' = Append(taken, Head(queue))
  /\ worker' = [worker EXCEPT ![w] = "call"]
  /\ producer' \in IF maxQueueSize > 0 THEN Notify(producer, "waitNotFull", "lock")
                   ELSE {producer}
  /\ UNCHANGED <<running, started, arg, stopper, submitted, inlined>>

\* task() returns.
Call(w) ==
  /\ worker[w] = "call"
  /\ worker' = [worker EXCEPT ![w] = "test"]
  /\ task' = [task EXCEPT ![w] = NoTask]
  /\ UNCHANGED <<running, started, queue, producer, arg, stopper,
                 submitted, taken, inlined>>

\* Wakeups that nobody asked for.
SpuriousProducer(p) ==
  /\ producer[p] = "waitNotFull"
  /\ producer' = [producer EXCEPT ![p] = "lock"]
  /\ UNCHANGED <<running, started, queue, worker, task, arg, stopper,
                 submitted, taken, inlined>>

SpuriousWorker(w) ==
  /\ worker[w] = "waitNotEmpty"
  /\ worker' = [worker EXCEPT ![w] = "take"]
  /\ UNCHANGED <<running, started, queue, task, producer, arg, stopper,
                 submitted, taken, inlined>>

-----------------------------------------------------------------------------
WorkerStep(w) == Test(w) \/ WaitNotEmpty(w) \/ TakeNothing(w) \/ Take(w) \/ Call(w)
ProducerStep(p) == WaitNotFull(p) \/ Push(p)

Next ==
  \/ Start \/ Stop \/ Joined
  \/ \E w \in Workers : WorkerStep(w) \/ SpuriousWorker(w)
  \/ \E p \in Producers : ProducerStep(p) \/ SpuriousProducer(p)
  \/ \E p \in Producers, t \in Tasks : RunHere(p, t) \/ Run(p, t)

Spec == Init /\ [][Next]_vars

\* Every thread that is not waiting keeps going; nobody counts on spurious
\* wakeups, and nobody has to submit tasks or to stop the pool.
FairSpec ==
  /\ Spec
  /\ WF_vars(Joined)
  /\ \A w \in Workers : WF_vars(WorkerStep(w))
  /\ \A p \in Producers : WF_vars(ProducerStep(p))

-----------------------------------------------------------------------------
(* Properties *)

WorkerPcs == {"new", "test", "take", "waitNotEmpty", "call", "done"}
ProducerPcs == {"idle", "lock", "waitNotFull"}

\* Types; a worker holds a task exactly while it calls one, and a producer one
\* exactly while it is inside run().
TypeOK ==
  /\ running \in BOOLEAN /\ started \in BOOLEAN
  /\ queue \in Seq(Tasks) /\ submitted \in Seq(Tasks) /\ taken \in Seq(Tasks)
  /\ inlined \subseteq Tasks
  /\ worker \in [Workers -> WorkerPcs]
  /\ task \in [Workers -> Tasks \cup {NoTask}]
  /\ producer \in [Producers -> ProducerPcs]
  /\ arg \in [Producers -> Tasks \cup {NoTask}]
  /\ stopper \in {"no", "join", "joined"}
  /\ \A w \in Workers : task[w] # NoTask <=> worker[w] = "call"
  /\ \A p \in Producers : arg[p] # NoTask <=> producer[p] # "idle"

\* assert(!isFull()) after the wait: the bound is kept although several
\* producers may be woken, or wake up, for one free slot.
QueueBounded == maxQueueSize > 0 => Len(queue) <= maxQueueSize

\* Tasks are taken once each, in the order of their submission.
TakenInOrder == submitted = taken \o queue

\* A sleeping worker with a task to do is never the only hope of that task:
\* somebody is awake who will take it.
NoForgottenTask ==
  queue # <<>> /\ running => \E w \in Workers : worker[w] # "waitNotEmpty"

\* When stop() returns no worker is running a task.
StoppedIsQuiet == stopper = "joined" => \A w \in Workers : worker[w] = "done"

\* The queue of the pool, who looks after it, and what stop() leaves behind.
PoolInv == TypeOK /\ QueueBounded /\ TakenInOrder /\ NoForgottenTask /\ StoppedIsQuiet

\* A task in the queue of a running pool is taken.
TaskIsTaken ==
  \A t \in Tasks :
    (\E i \in DOMAIN queue : queue[i] = t) ~>
      (~running \/ \E i \in DOMAIN taken : taken[i] = t)

\* A producer that waits for room gets it, as long as the pool is not stopped.
\* (stop() does not notify notFull_: a producer still waiting then may wait on.)
ProducerGetsRoom ==
  \A p \in Producers : (producer[p] = "waitNotFull") ~> (producer[p] # "waitNotFull" \/ ~running)

\* stop() returns.
StopReturns == (stopper = "join") ~> (stopper = "joined")
=============================================================================
